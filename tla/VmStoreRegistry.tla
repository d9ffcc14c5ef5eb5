-------------------------- MODULE VmStoreRegistry --------------------------
(***************************************************************************)
(* VmStore, with its files, calls, failures and crashes, implements        *)
(* VmRegistry as long as creates of one VM do not overlap and the user     *)
(* leaves the files alone: a directory claims the name, the moment         *)
(* config.toml is written publishes the VM, and a create that is past its  *)
(* checks is going on until it returns or is killed.                       *)
(***************************************************************************)
EXTENDS VmStore

CONSTANT Claimed   \* the registry's mark of a VM that is not finished

ASSUME ClaimedAssumption == Claimed # Absent /\ Claimed \notin Requested

Vms == [n \in Names |-> IF ~dir[n] THEN Absent
                        ELSE IF Ready(n) THEN Parsed(config[n].doc)
                        ELSE Claimed]

InProgress == [n \in Names |-> Creating(n)]

Registry == INSTANCE VmRegistry WITH
              vms <- Vms, creating <- InProgress, Configs <- Requested, NoVm <- Absent

(* create, load and list behave like the registry: no step of any client,  *)
(* failure or crash shows a VM whose configuration is not the one asked    *)
(* for, changes a VM that is there, or takes one back; a create begins     *)
(* under a free name only, and one that gives up takes nothing away.       *)
ImplementsRegistry == Registry!Spec
=============================================================================
