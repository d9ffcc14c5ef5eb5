----------------------------- MODULE Preflight -----------------------------
(***************************************************************************)
(* What preflight makes of a host (preflight/mod.rs and the probe modules  *)
(* beside it): a status for each requirement, whether a VM can be          *)
(* launched, and which firmware pair it would use.  Pure: no variables.    *)
(*                                                                         *)
(* A host is a record of what the probes find; wording and remedies are    *)
(* left out.                                                               *)
(***************************************************************************)
EXTENDS Integers, Sequences

Ok      == "ok"
Warn    == "warn"
Missing == "missing"

-----------------------------------------------------------------------------
(* QEMU binaries: which::find's result and the parsed --version.           *)

NoVersion == <<>>
NotFound == [found |-> FALSE, version |-> NoVersion]
Found(version) == [found |-> TRUE, version |-> version]

MIN_QEMU_VERSION == <<6, 0, 0>>

(* The derived order of Version: major, then minor, then patch.            *)
AtLeast(v, w) == \/ v[1] > w[1]
                 \/ v[1] = w[1] /\ v[2] > w[2]
                 \/ v[1] = w[1] /\ v[2] = w[2] /\ v[3] >= w[3]

BinaryStatusStrict(binary) ==   \* mutant: an old binary blocks
  IF ~binary.found THEN Missing
  ELSE IF binary.version = NoVersion THEN Warn
  ELSE IF AtLeast(binary.version, MIN_QEMU_VERSION) THEN Ok ELSE Missing

BinaryStatus(binary) ==
  IF ~binary.found THEN Missing
  ELSE IF binary.version = NoVersion THEN Warn
  ELSE IF AtLeast(binary.version, MIN_QEMU_VERSION) THEN Ok ELSE Warn

-----------------------------------------------------------------------------
(* OVMF firmware: the table of known pairs, in the order they are tried.   *)

Candidate(origin, code, vars, secure_boot, flash_size_mb) ==
  [origin |-> origin, code |-> code, vars |-> vars, secure_boot |-> secure_boot,
   flash_size_mb |-> flash_size_mb]

CANDIDATES == <<
  Candidate("arch",        "arch_CODE.secboot.4m",   "arch_VARS.4m",         TRUE,  4),
  Candidate("arch",        "arch_CODE.4m",           "arch_VARS.4m",         FALSE, 4),
  Candidate("debian",      "debian_CODE_4M.secboot", "debian_VARS_4M.ms",    TRUE,  4),
  Candidate("debian",      "debian_CODE_4M",         "debian_VARS_4M",       FALSE, 4),
  Candidate("fedora",      "fedora_CODE.secboot",    "fedora_VARS.secboot",  TRUE,  4),
  Candidate("fedora",      "fedora_CODE",            "fedora_VARS",          FALSE, 4),
  Candidate("suse",        "suse_smm-code",          "suse_smm-vars",        TRUE,  4),
  Candidate("suse",        "suse_code",              "suse_vars",            FALSE, 4),
  Candidate("old_arch",    "old_arch_CODE.secboot",  "old_arch_VARS",        TRUE,  2),
  Candidate("old_debian",  "old_debian_CODE",        "old_debian_VARS",      FALSE, 2) >>

(* The rows of the table whose two files are both there.                   *)
Installed(files) ==
  {i \in DOMAIN CANDIDATES : {CANDIDATES[i].code, CANDIDATES[i].vars} \subseteq files}

(* Firmware::best: the first of them.                                      *)
HasFirmware(files) == Installed(files) # {}

BestLast(files) ==   \* mutant: the last of them
  CANDIDATES[CHOOSE i \in Installed(files) : \A j \in Installed(files) : i >= j]

Best(files) == CANDIDATES[CHOOSE i \in Installed(files) : \A j \in Installed(files) : i <= j]

FirmwareStatusLax(files) ==   \* mutant: no firmware only warns
  IF HasFirmware(files) /\ Best(files).secure_boot THEN Ok ELSE Warn

FirmwareStatus(files) ==
  IF ~HasFirmware(files) THEN Missing
  ELSE IF Best(files).secure_boot THEN Ok ELSE Warn

-----------------------------------------------------------------------------
(* The rest of the host.                                                   *)

KvmStates == {"ready", "permission_denied", "device_missing", "unavailable"}

PlatformStatus(host) == IF ~host.is_linux THEN Missing
                        ELSE IF host.x86_64 THEN Ok ELSE Warn
CpuStatus(host) == IF host.virt THEN Ok ELSE Warn
KvmStatus(host) == IF host.kvm = "ready" THEN Ok ELSE Warn
TpmStatusStrict(host) ==   \* mutant: no swtpm blocks
  IF host.swtpm THEN Ok ELSE Missing

TpmStatus(host) == IF host.swtpm THEN Ok ELSE Warn

Requirements(host) ==
  << PlatformStatus(host), CpuStatus(host), KvmStatus(host),
     BinaryStatus(host.system), BinaryStatus(host.img),
     FirmwareStatus(host.files), TpmStatus(host) >>

CanLaunch(host) == \A i \in DOMAIN Requirements(host) : Requirements(host)[i] # Missing
=============================================================================
