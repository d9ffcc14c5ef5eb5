--------------------------- MODULE LaunchSession ---------------------------
(***************************************************************************)
(* Launch, with its files, socket and waits, overlapping runs and kills,   *)
(* keeps the promises of GuestSession.  A Running whose helpers are being  *)
(* stopped still counts as up: the caller has not got it back yet.         *)
(***************************************************************************)
EXTENDS Launch

PhaseDone(how) == CASE how \in {"Exited", "Killed"} -> "over"
                    [] how = "Dropped"              -> "dropped"
                    [] how = "Crashed"              -> "lost"
                    [] OTHER                        -> "refused"

Phase(r) == CASE pc[r] = "start"                         -> "new"
              [] pc[r] \in {"running", "stop_helpers"} -> "up"
              [] pc[r] = "done"                          -> PhaseDone(outcome[r])
              [] OTHER                                   -> "launching"

Life(started, alive) == IF ~started THEN "none" ELSE IF alive THEN "on" ELSE "off"

Session == INSTANCE GuestSession WITH
  phase    <- [r \in Runs |-> Phase(r)],
  guest    <- [r \in Runs |-> Life(qemu[r] # "none", QemuAlive(r))],
  emulator <- [r \in Runs |-> Life(swtpm[r] # "none", SwtpmAlive(r))],
  tpm      <- [r \in Runs |-> HasTpm(r)]

(* Every step of Launch is one of the session or none, whatever runs       *)
(* overlap and wherever they are killed; and with weak fairness of the     *)
(* runs' own steps every launch decides and every session whose guest has  *)
(* ended comes to its end.                                                 *)
ImplementsSession == Session!Spec
=============================================================================
