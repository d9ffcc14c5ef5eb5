------------------------------- MODULE Layout -------------------------------
(***************************************************************************)
(* Which names a VM may have (VmName of config.rs) and where its files go  *)
(* (paths.rs).  Pure: no variables.                                        *)
(*                                                                         *)
(* A name or a path is a sequence of pieces: the characters the code looks *)
(* at, one by one, and between them runs of ordinary letters that nothing  *)
(* tells apart, each a piece of its own.                                   *)
(***************************************************************************)
EXTENDS Integers, SequencesExt

CONSTANTS ByteLen,     \* the length in bytes of every piece
          Ordinary     \* the pieces made of ASCII letters and digits only

ASSUME ByteLenAssumption ==
  /\ \A piece \in DOMAIN ByteLen : ByteLen[piece] \in Nat
  /\ {"/", "daholyvm", "-swtpm.sock"} \subseteq DOMAIN ByteLen
  /\ ByteLen["/"] = 1 /\ ByteLen["daholyvm"] = 8 /\ ByteLen["-swtpm.sock"] = 11

ASSUME OrdinaryAssumption == Ordinary \intersect {"-", "_", ".", "/", ",", "bus=", "-swtpm.sock"} = {}

MAX_NAME_LEN    == 64
MAX_SOCKET_PATH == 107

Bytes(text) == FoldLeft(LAMBDA n, piece : n + ByteLen[piece], 0, text)

-----------------------------------------------------------------------------
(* VmName::new.                                                            *)
Allowed(name) == \A i \in DOMAIN name : name[i] \in Ordinary \union {"-", "_", "."}

ValidNameDots(name) ==   \* mutant: the leading dot is not looked at
  name # <<>> /\ Bytes(name) <= MAX_NAME_LEN /\ Allowed(name)

ValidNameLonger(name) ==   \* mutant: the limit of a file name, not of a VM's
  name # <<>> /\ Bytes(name) <= 255 /\ name[1] # "." /\ Allowed(name)

ValidName(name) ==
  name # <<>> /\ Bytes(name) <= MAX_NAME_LEN /\ name[1] # "." /\ Allowed(name)

-----------------------------------------------------------------------------
(* Path::join: an absolute path replaces what it is joined to.             *)
Join(path, rest) ==
  IF path = <<>> \/ (rest # <<>> /\ rest[1] = "/") THEN rest
  ELSE IF Last(path) = "/" THEN path \o rest
  ELSE path \o <<"/">> \o rest

Unset == <<"unset">>

(* Paths::from_env; a variable that is empty counts as unset, but HOME's.  *)
Given(variable) == variable # Unset /\ variable # <<>>

NoHome(env) == ~Given(env.xdg_data_home) /\ env.home = Unset

DataDir(env) ==
  Join(IF Given(env.xdg_data_home) THEN env.xdg_data_home
       ELSE Join(env.home, <<".local", "/", "share">>),
       <<"daholyvm">>)

HasRuntimeDir(env) == Given(env.xdg_runtime_dir)
RuntimeDir(env) == Join(env.xdg_runtime_dir, <<"daholyvm">>)

VmsDir(env) == Join(DataDir(env), <<"vms">>)

-----------------------------------------------------------------------------
(* Paths::vm and the files of VmPaths.                                     *)
VmDir(env, name) == Join(VmsDir(env), name)

TpmState(env, name) == Join(VmDir(env, name), <<"tpm">>)

TpmSocket(env, name) ==
  IF HasRuntimeDir(env) THEN Join(RuntimeDir(env), name \o <<"-swtpm.sock">>)
  ELSE Join(TpmState(env, name), <<"swtpm.sock">>)

VmPaths(env, name) ==
  [dir        |-> VmDir(env, name),
   disk       |-> Join(VmDir(env, name), <<"disk.qcow2">>),
   vars       |-> Join(VmDir(env, name), <<"OVMF_VARS.fd">>),
   tpm_state  |-> TpmState(env, name),
   tpm_socket |-> TpmSocket(env, name)]

-----------------------------------------------------------------------------
(* How the kernel walks a path, one run of pieces between slashes after    *)
(* another: none between two slashes and `.` stay where they are, and `..` *)
(* goes up.                                                                *)
Cut(acc, piece) ==
  IF piece = "/" THEN [done |-> Append(acc.done, acc.part), part |-> <<>>]
  ELSE [acc EXCEPT !.part = Append(@, piece)]

Components(path) ==
  LET end == FoldLeft(Cut, [done |-> <<>>, part |-> <<>>], path)
  IN Append(end.done, end.part)

Enter(dirs, part) ==
  IF part \in {<<>>, <<".">>} THEN dirs
  ELSE IF part = <<".", ".">> THEN IF dirs = <<>> THEN <<>> ELSE Front(dirs)
  ELSE Append(dirs, part)

Walk(path) == FoldLeft(Enter, <<>>, Components(path))
=============================================================================
