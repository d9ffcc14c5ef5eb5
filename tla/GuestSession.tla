---------------------------- MODULE GuestSession ----------------------------
(***************************************************************************)
(* What launching a guest promises its caller, without files and sockets.  *)
(* A launch ends in an answer: refused, or a guest that is up, and if it   *)
(* is to have a TPM, only after an emulator has been started for it, which *)
(* may have ended since.  A session that is over has neither left.  Giving *)
(* a session up leaves the guest and not the emulator; being killed leaves *)
(* whatever there is.                                                      *)
(***************************************************************************)
CONSTANT Runs

VARIABLES phase,      \* phase[r]: how far session r has come
          guest,      \* guest[r]: has r's guest been started, has it ended?
          emulator,   \* emulator[r]: the same of its TPM emulator
          tpm         \* tpm[r]: is r's guest to have a TPM?

session == <<phase, guest, emulator, tpm>>

Lives == {"none", "on", "off"}

Init == /\ phase = [r \in Runs |-> "new"]
        /\ guest = [r \in Runs |-> "none"]
        /\ emulator = [r \in Runs |-> "none"]
        /\ tpm = [r \in Runs |-> FALSE]

(* Whom to launch is settled at once, also for one that is refused.        *)
Ask(r) == \E wanted \in BOOLEAN : tpm' = [tpm EXCEPT ![r] = wanted]

Become(r, p) == phase' = [phase EXCEPT ![r] = p]

Stopped(life) == IF life = "on" THEN "off" ELSE life

Begin(r) == /\ phase[r] = "new"
            /\ Become(r, "launching")
            /\ Ask(r)
            /\ UNCHANGED <<guest, emulator>>

StartEmulator(r) == /\ phase[r] = "launching" /\ emulator[r] = "none"
                    /\ tpm[r]
                    /\ emulator' = [emulator EXCEPT ![r] = "on"]
                    /\ UNCHANGED <<phase, guest, tpm>>

StartGuest(r) == /\ phase[r] = "launching"
                 /\ tpm[r] => emulator[r] # "none"
                 /\ Become(r, "up")
                 /\ guest' = [guest EXCEPT ![r] = "on"]
                 /\ UNCHANGED <<emulator, tpm>>

(* No guest; an emulator that was started may be left, see the README.     *)
Refuse(r) == /\ \/ phase[r] = "new" /\ Ask(r)
                \/ phase[r] = "launching" /\ UNCHANGED tpm
             /\ Become(r, "refused")
             /\ UNCHANGED <<guest, emulator>>

(* The processes may end when they please, and the caller may end the      *)
(* guest.                                                                  *)
GuestEnds(r) == /\ guest[r] = "on"
                /\ guest' = [guest EXCEPT ![r] = "off"]
                /\ UNCHANGED <<phase, emulator, tpm>>

EmulatorEnds(r) == /\ emulator[r] = "on"
                   /\ emulator' = [emulator EXCEPT ![r] = "off"]
                   /\ UNCHANGED <<phase, guest, tpm>>

Leave(r, p) == /\ phase[r] = "up"
               /\ Become(r, p)
               /\ emulator' = [emulator EXCEPT ![r] = Stopped(@)]
               /\ UNCHANGED <<guest, tpm>>

Finish(r) == guest[r] = "off" /\ Leave(r, "over")

Abandon(r) == Leave(r, "dropped")

Lose(r) == /\ phase[r] \in {"launching", "up"}
           /\ Become(r, "lost")
           /\ UNCHANGED <<guest, emulator, tpm>>

Next == \E r \in Runs :
  \/ Begin(r) \/ StartEmulator(r) \/ StartGuest(r) \/ Refuse(r)
  \/ GuestEnds(r) \/ EmulatorEnds(r)
  \/ Finish(r) \/ Abandon(r) \/ Lose(r)

(* A launch decides, and a session whose guest has ended comes to its end. *)
Fairness == \A r \in Runs : /\ WF_session(phase[r] = "launching" /\ (StartGuest(r) \/ Refuse(r)))
                            /\ WF_session(Finish(r))

SafeSpec == Init /\ [][Next]_session

Spec == SafeSpec /\ Fairness

-----------------------------------------------------------------------------
(* Nothing is left of a session that is over: its guest has ended, and its *)
(* emulator, if it had one, with it.                                       *)
OverLeavesNothing == \A r \in Runs :
  phase[r] = "over" => guest[r] = "off" /\ emulator[r] # "on"
=============================================================================
