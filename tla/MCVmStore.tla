----------------------------- MODULE MCVmStore -----------------------------
(***************************************************************************)
(* Small instances of VmStore for TLC.                                     *)
(***************************************************************************)
EXTENDS VmStoreRegistry

(* Requests for a VM n: an ordinary one, one validate refuses, one that    *)
(* validates but cannot be written as TOML.                                *)
Ordinary(n) == [name |-> n, cpus |-> 2, memory_mib |-> 4096, disk_gib |-> 64,
                tpm |-> FALSE, iso |-> "utf8"]
Sized(n)    == [Ordinary(n) EXCEPT !.tpm = TRUE, !.iso = "none"]
Invalid(n)  == [Ordinary(n) EXCEPT !.disk_gib = MAX_DISK_GIB + 1]
NonUtf8(n)  == [Ordinary(n) EXCEPT !.iso = "non_utf8"]
Vast(n)     == [Ordinary(n) EXCEPT !.memory_mib = TomlIntMax + 1]

SerialRequests      == {Ordinary(1), Invalid(1), Sized(2), NonUtf8(2)}
OverlapRequests     == {Ordinary(1), Sized(1), Invalid(1)}
UnsavableRequests   == {Ordinary(1), NonUtf8(1), Vast(1)}

OneName == {1}
TwoNames == {1, 2}

(* A user's edit: broken text, and a document that leaves fields out.      *)
UserEdits == {Garbage, Toml([f \in {"name", "tpm"} |-> IF f = "name" THEN 1 ELSE FALSE])}
NoEdits == {}
=============================================================================
