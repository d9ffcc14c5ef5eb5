------------------------- MODULE GuestSessionProofs -------------------------
(***************************************************************************)
(* What a caller may rely on, from the contract of GuestSession alone.     *)
(***************************************************************************)
EXTENDS GuestSession, TLAPS

Phases == {"new", "launching", "refused", "up", "over", "dropped", "lost"}

SessionType == /\ phase \in [Runs -> Phases]
               /\ guest \in [Runs -> Lives]
               /\ emulator \in [Runs -> Lives]

(* A guest is started by its launch and at no other time.                  *)
Over == /\ SessionType
        /\ \A r \in Runs : phase[r] \in {"new", "launching", "refused"} => guest[r] = "none"
        /\ OverLeavesNothing

(* A session that is over has neither its guest nor its emulator running,  *)
(* from its end on.                                                        *)
THEOREM OverIsOver == SafeSpec => []OverLeavesNothing
<1> USE DEF Over, SessionType, OverLeavesNothing, Phases, Lives
<1>1. Init => Over
  BY DEF Init
<1>2. Over /\ [Next]_session => Over'
  <2> SUFFICES ASSUME Over, [Next]_session PROVE Over'
    OBVIOUS
  <2>1. CASE UNCHANGED session
    BY <2>1 DEF session
  <2>2. ASSUME NEW r \in Runs, Begin(r) \/ Refuse(r) \/ Lose(r) PROVE Over'
    BY <2>2 DEF Begin, Refuse, Lose, Become
  <2>3. ASSUME NEW r \in Runs, StartEmulator(r) \/ StartGuest(r) PROVE Over'
    BY <2>3 DEF StartEmulator, StartGuest, Become
  <2>4. ASSUME NEW r \in Runs, GuestEnds(r) \/ EmulatorEnds(r) PROVE Over'
    BY <2>4 DEF GuestEnds, EmulatorEnds
  <2>5. ASSUME NEW r \in Runs, Finish(r) \/ Abandon(r) PROVE Over'
    BY <2>5 DEF Finish, Abandon, Leave, Become, Stopped
  <2>6. QED BY <2>1, <2>2, <2>3, <2>4, <2>5 DEF Next
<1>3. Over => OverLeavesNothing
  OBVIOUS
<1>4. QED BY <1>1, <1>2, <1>3, PTL DEF SafeSpec
=============================================================================
