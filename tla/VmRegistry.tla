----------------------------- MODULE VmRegistry -----------------------------
(***************************************************************************)
(* What the store of VMs promises, with no files: a name is free, claimed  *)
(* by a directory that holds no VM, or stands for one whole configuration. *)
(* A create begins only under a free name.  It ends in a configuration     *)
(* that appears at once and complete, the one asked for under that name,   *)
(* or it is given up, wherever it has come to, and then the claim stays.   *)
(* What is there stays until the VM is removed.                            *)
(***************************************************************************)
CONSTANTS Names, Configs, NoVm, Claimed

VARIABLES vms,       \* vms[n]: NoVm, Claimed, or the VM's configuration
          creating   \* creating[n]: is a create of n going on?

registry == <<vms, creating>>

Init == /\ vms = [n \in Names |-> NoVm]
        /\ creating = [n \in Names |-> FALSE]

Begin(n) == /\ vms[n] = NoVm /\ ~creating[n]
            /\ creating' = [creating EXCEPT ![n] = TRUE]
            /\ UNCHANGED vms

(* A directory that came to be since the create began is taken as it is.   *)
Claim(n) == /\ creating[n]
            /\ vms[n] \in {NoVm, Claimed}
            /\ vms' = [vms EXCEPT ![n] = Claimed]
            /\ UNCHANGED creating

Publish(n, cf) == /\ creating[n]
                  /\ vms[n] = Claimed
                  /\ cf.name = n
                  /\ vms' = [vms EXCEPT ![n] = cf]
                  /\ creating' = [creating EXCEPT ![n] = FALSE]

(* The create is refused half way, fails or is killed.                     *)
Abandon(n) == /\ creating[n]
              /\ creating' = [creating EXCEPT ![n] = FALSE]
              /\ UNCHANGED vms

Remove(n) == /\ vms[n] # NoVm /\ ~creating[n]
             /\ vms' = [vms EXCEPT ![n] = NoVm]
             /\ UNCHANGED creating

Next == \E n \in Names : \/ Begin(n) \/ Claim(n) \/ Abandon(n) \/ Remove(n)
                         \/ \E cf \in Configs : Publish(n, cf)

Spec == Init /\ [][Next]_registry
=============================================================================
