------------------------------ MODULE VmConfig ------------------------------
(***************************************************************************)
(* One guest's configuration (crates/daholyvm-core/src/config.rs): which   *)
(* values are accepted, what a saved config.toml holds and what loading it *)
(* gives back.  Pure: the module has no variables.                         *)
(*                                                                         *)
(* A configuration is a record.  A TOML document is the same record with   *)
(* some fields left out, so writing removes the fields serde skips and     *)
(* reading fills in the defaults.  A name is the number of its place in    *)
(* the sort order; an ISO path is only known by whether it is UTF-8.       *)
(***************************************************************************)
EXTENDS Integers

CONSTANT TomlIntMax   \* largest integer the TOML writer accepts (i64::MAX)

MAX_CPUS       == 255
MIN_MEMORY_MIB == 512
MIN_DISK_GIB   == 1
MAX_DISK_GIB   == 8192

(* Every configuration that validates at the low end can be written down.  *)
ASSUME TomlIntMaxAssumption == TomlIntMax \in Nat /\ TomlIntMax >= MIN_MEMORY_MIB

-----------------------------------------------------------------------------
(* struct VmConfig.  `iso` is Option<PathBuf>: absent, UTF-8, or not.      *)

Isos == {"none", "utf8", "non_utf8"}

VmConfigs == [name : Nat, cpus : Nat, memory_mib : Nat, disk_gib : Nat,
              tpm : BOOLEAN, iso : Isos]

Fields == {"name", "cpus", "memory_mib", "disk_gib", "tpm", "iso"}

(* What serde puts in place of a field the document leaves out; `name` has *)
(* no default, its entry is never used.                                    *)
Defaults == [name |-> 0, cpus |-> 4, memory_mib |-> 4096, disk_gib |-> 64,
             tpm |-> TRUE, iso |-> "none"]

(* VmConfig::validate.  There is no upper limit on memory.                 *)
Valid(c) == /\ c.cpus \in 1..MAX_CPUS
            /\ c.memory_mib >= MIN_MEMORY_MIB
            /\ c.disk_gib \in MIN_DISK_GIB..MAX_DISK_GIB

-----------------------------------------------------------------------------
(* The content of config.toml: no file, text that is not the TOML of a     *)
(* VmConfig, or a document.  An empty file is a document with no field.    *)

NoFile       == [kind |-> "none"]
Garbage      == [kind |-> "garbage"]
Toml(doc)    == [kind |-> "toml", doc |-> doc]
EmptyFile    == Toml([f \in {} |-> 0])

(* VmConfig::to_toml fails on an integer TOML cannot hold and on a path    *)
(* that is not UTF-8; neither is refused by Valid.                         *)
Serializable(c) == c.memory_mib <= TomlIntMax /\ c.iso # "non_utf8"

(* The fields to_toml writes: all of them, `iso` only when there is one.   *)
WrittenWithoutTpm(c) ==   \* mutant: tpm is skipped too
  IF c.iso = "none" THEN Fields \ {"iso", "tpm"} ELSE Fields \ {"tpm"}

Written(c) == IF c.iso = "none" THEN Fields \ {"iso"} ELSE Fields

ToToml(c) == [f \in Written(c) |-> c[f]]

(* VmConfig::from_toml: the configuration a document stands for, with the  *)
(* defaults filled in, when it has a name and passes validate.             *)
Parsed(doc) == [f \in Fields |-> IF f \in DOMAIN doc THEN doc[f] ELSE Defaults[f]]

Loadable(content) == /\ content.kind = "toml"
                     /\ "name" \in DOMAIN content.doc
                     /\ Valid(Parsed(content.doc))
=============================================================================
