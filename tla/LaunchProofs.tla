---------------------------- MODULE LaunchProofs ----------------------------
(***************************************************************************)
(* Proofs about Launch, for any runs, VMs and hosts, for runs that overlap *)
(* as they like and may be killed anywhere.                                *)
(***************************************************************************)
EXTENDS LaunchSession, TLAPS

-----------------------------------------------------------------------------
(* What the verdict is worth to launch: two of the seven requirements      *)
(* speak of things it will ask for by name.                                *)
LEMMA CanLaunchHas ==
  ASSUME NEW h, CanLaunch(h)
  PROVE  h.system.found /\ HasFirmware(h.files)
<1>1. /\ 4 \in DOMAIN Requirements(h) /\ 6 \in DOMAIN Requirements(h)
      /\ Requirements(h)[4] = BinaryStatus(h.system)
      /\ Requirements(h)[6] = FirmwareStatus(h.files)
  BY DEF Requirements
<1>2. BinaryStatus(h.system) # Missing /\ FirmwareStatus(h.files) # Missing
  BY <1>1 DEF CanLaunch
<1>3. QED BY <1>2 DEF BinaryStatus, FirmwareStatus

-----------------------------------------------------------------------------
(* Past the checks, the report a run works from is one that can launch;    *)
(* and a live emulator belongs to a run that has not started QEMU yet, to  *)
(* a Running that has adopted it, or to a run that failed in between.      *)

Kinds == /\ pc \in [Runs -> Steps]
         /\ vm \in [Runs -> Vms \union {None}]
         /\ host \in [Runs -> Hosts \union {None}]
         /\ outcome \in [Runs -> Outcomes]
         /\ swtpm \in [Runs -> {"none", "starting", "listening", "dead"}]
         /\ helper \in [Runs -> BOOLEAN]

Checked == \A r \in Runs :
  /\ pc[r] \notin {"start", "done"} => CanLaunch(host[r])
  /\ outcome[r] # "MissingBinary"
  /\ outcome[r] = "HostNotReady" => ~CanLaunch(host[r])
  /\ pc[r] = "start" => outcome[r] = "none"

Owned == \A r \in Runs : SwtpmAlive(r) =>
  \/ pc[r] \in {"wait_socket", "spawn"} /\ HasTpm(r)
  \/ pc[r] \in {"running", "stop_helpers"} /\ helper[r]
  \/ pc[r] = "done" /\ outcome[r] \in {"HelperTimeout", "SpawnError", "Crashed"}

LaunchInv == Kinds /\ Checked /\ Owned

LEMMA LaunchInit == Init => LaunchInv
  BY DEF Init, LaunchInv, Kinds, Checked, Owned, SwtpmAlive, Steps, Outcomes

LEMMA LaunchNext == LaunchInv /\ [Next]_allVars => LaunchInv'
<1> SUFFICES ASSUME LaunchInv, [Next]_allVars PROVE LaunchInv'
  OBVIOUS
<1> USE DEF LaunchInv, Kinds, Checked, Owned, SwtpmAlive, HasTpm, Steps, Outcomes,
            Goto, End, files, processes
<1>1. ASSUME NEW r \in Runs, Begin(r) PROVE LaunchInv'
  <2>1. PICK v \in Vms, h \in Hosts, iso_there \in BOOLEAN : BeginLaunch(r, v, h, iso_there)
    BY <1>1 DEF Begin
  <2>2. LaunchError(v, h, iso_there) \in {"none", "HostNotReady", "MissingIso"}
    BY CanLaunchHas DEF LaunchError
  <2>3. /\ LaunchError(v, h, iso_there) = "none" => CanLaunch(h)
        /\ LaunchError(v, h, iso_there) = "HostNotReady" => ~CanLaunch(h)
    BY DEF LaunchError
  <2>4. QED BY <2>1, <2>2, <2>3 DEF BeginLaunch
<1>2. ASSUME NEW r \in Runs, LaunchStep(r) PROVE LaunchInv'
  <2>1. CASE KeepVars(r) \/ OpenVars(r) \/ CopyVars(r) \/ CopyVarsFails(r)
    BY <2>1 DEF KeepVars, OpenVars, CopyVars, CopyVarsFails
  <2>2. CASE NeedVars(r)
    BY <2>2, CanLaunchHas DEF NeedVars
  <2>3. CASE TpmNotWanted(r) \/ TpmRefused(r) \/ SpawnSwtpmFails(r)
    BY <2>3 DEF TpmNotWanted, TpmRefused, TpmError, SpawnSwtpmFails
  <2>4. CASE SpawnSwtpm(r)
    BY <2>4 DEF SpawnSwtpm
  <2>5. CASE SocketAppears(r) \/ SocketTimeout(r)
    BY <2>5 DEF SocketAppears, SocketTimeout
  <2>6. CASE SpawnQemu(r)
    <3>1. helper' \in [Runs -> BOOLEAN] /\ helper'[r] = HasTpm(r)
      BY <2>6 DEF SpawnQemu
    <3>2. \A s \in Runs : s # r => helper'[s] = helper[s]
      BY <2>6 DEF SpawnQemu
    <3>3. Kinds' /\ Checked'
      BY <2>6, <3>1 DEF SpawnQemu
    <3>4. SwtpmAlive(r) => helper'[r]
      BY <2>6, <3>1 DEF SpawnQemu
    <3>5. Owned'
      BY <2>6, <3>2, <3>4 DEF SpawnQemu
    <3>6. QED BY <3>3, <3>5
  <2>7. CASE SpawnQemuFails(r)
    BY <2>7, CanLaunchHas DEF SpawnQemuFails
  <2>8. QED BY <1>2, <2>1, <2>2, <2>3, <2>4, <2>5, <2>6, <2>7 DEF LaunchStep
<1>3. ASSUME NEW r \in Runs, RunningStep(r) PROVE LaunchInv'
  <2>1. CASE WaitReturns(r)
    BY <2>1 DEF WaitReturns
  <2>2. CASE StopHelpers(r)
    <3>1. /\ ~SwtpmAlive(r)'
          /\ \A s \in Runs : s # r => swtpm'[s] = swtpm[s]
          /\ swtpm' \in [Runs -> {"none", "starting", "listening", "dead"}]
      BY <2>2 DEF StopHelpers
    <3>2. /\ helper' \in [Runs -> BOOLEAN]
          /\ \A s \in Runs : s # r => helper'[s] = helper[s] /\ pc'[s] = pc[s]
      BY <2>2 DEF StopHelpers
    <3>3. QED BY <2>2, <3>1, <3>2 DEF StopHelpers
  <2>3. QED BY <1>3, <2>1, <2>2 DEF RunningStep
<1>4. ASSUME NEW r \in Runs, Caller(r) \/ Crash(r) PROVE LaunchInv'
  BY <1>4 DEF Caller, Kill, Drop, Crash
<1>5. ASSUME NEW r \in Runs, SwtpmStep(r) \/ QemuStep(r) PROVE LaunchInv'
  BY <1>5 DEF SwtpmStep, SwtpmListens, SwtpmDies, QemuStep, QemuBoots,
              GuestWritesVars, QemuExits
<1>6. CASE UNCHANGED allVars
  BY <1>6 DEF allVars
<1>7. QED BY <1>1, <1>2, <1>3, <1>4, <1>5, <1>6 DEF Next

(* The emulator outlives its run only when launch failed between starting  *)
(* it and adopting it, or when the program was killed.                     *)
THEOREM NoOtherStray == Spec => []StrayOnlyIfLaunchFailed
<1>1. LaunchInv => StrayOnlyIfLaunchFailed
  BY DEF LaunchInv, Owned, StrayOnlyIfLaunchFailed
<1>2. QED BY <1>1, LaunchInit, LaunchNext, PTL DEF Spec

(* Past launch's first checks no step finds QEMU or the firmware missing   *)
(* in the report it was given.                                             *)
THEOREM FirstChecksSuffice == Spec => []ChecksSuffice
<1>1. LaunchInv => ChecksSuffice
  BY DEF LaunchInv, Checked, ChecksSuffice
<1>2. QED BY <1>1, LaunchInit, LaunchNext, PTL DEF Spec

-----------------------------------------------------------------------------
(* Type correctness.  The one step of it that is not bookkeeping: a run    *)
(* that copies a variable store has a pair to copy it from.                *)

LEMMA BestIsCandidate ==
  ASSUME NEW fs, HasFirmware(fs)
  PROVE  Best(fs).vars \in Templates
<1> DEFINE S == Installed(fs)
<1>1. DOMAIN CANDIDATES = 1..10
  BY DEF CANDIDATES
<1>2. S \subseteq 1..10 /\ S # {}
  BY <1>1 DEF Installed, HasFirmware
<1> HIDE DEF S
<1>3. \E i \in S : \A j \in S : i <= j
  <2>1. CASE \E k \in 1..5 : k \in S
    BY <1>2, <2>1
  <2>2. CASE \A k \in 1..5 : k \notin S
    <3>1. CASE \E k \in 6..8 : k \in S
      BY <1>2, <2>2, <3>1
    <3>2. CASE \A k \in 6..8 : k \notin S
      <4>1. \A k \in S : k = 9 \/ k = 10
        BY <1>2, <2>2, <3>2
      <4>2. CASE 9 \in S
        BY <4>1, <4>2
      <4>3. CASE 9 \notin S
        <5>1. \A k \in S : k = 10
          BY <4>1, <4>3
        <5>2. PICK k : k \in S
          BY <1>2
        <5>3. QED BY <5>1, <5>2
      <4>4. QED BY <4>2, <4>3
    <3>3. QED BY <3>1, <3>2
  <2>3. QED BY <2>1, <2>2
<1> USE DEF S
<1>4. (CHOOSE i \in S : \A j \in S : i <= j) \in DOMAIN CANDIDATES
  BY <1>1, <1>2, <1>3
<1>5. QED BY <1>4 DEF Best, Templates

(* A run that is past provision_vars has its VM's store; a store is never  *)
(* taken away.                                                             *)
HasStore == \A r \in Runs :
  /\ pc[r] # "start" => vm[r] \in Vms
  /\ pc[r] = "start" => qemu[r] = "none"
  /\ pc[r] = "running" => qemu[r] # "none"
  /\ pc[r] \in {"copy_vars", "tpm", "wait_socket", "spawn"} => vars[vm[r]] \in VarsFiles
  /\ qemu[r] # "none" => vars[vm[r]] \in VarsFiles

TypeInv == TypeOK /\ HasStore

LEMMA TypeInit == Init => TypeInv
  BY DEF Init, TypeInv, HasStore, TypeOK, Steps, Outcomes

(* A step that leaves the stores and QEMU alone and goes on from a step    *)
(* that has a store, or to one that needs none.                            *)
LEMMA TypeStay ==
  ASSUME TypeInv, Kinds', NEW r \in Runs, pc[r] # "start",
         UNCHANGED <<vm, vars, qemu, sock, link>>, fresh' \in [Runs -> BOOLEAN],
         NEW step, pc' = [pc EXCEPT ![r] = step],
         step \notin {"start", "running"},
         step \in {"copy_vars", "tpm", "wait_socket", "spawn"} => vars[vm[r]] \in VarsFiles
  PROVE  TypeInv'
<1>1. HasStore'
  BY DEF TypeInv, TypeOK, HasStore
<1>2. TypeOK'
  BY DEF TypeInv, TypeOK, Kinds
<1>3. QED BY <1>1, <1>2 DEF TypeInv

LEMMA TypeNext == TypeInv /\ LaunchInv /\ LaunchInv' /\ [Next]_allVars => TypeInv'
<1> SUFFICES ASSUME TypeInv, LaunchInv, LaunchInv', [Next]_allVars PROVE TypeInv'
  OBVIOUS
<1> USE DEF TypeInv, TypeOK, HasStore, LaunchInv, Kinds, files, processes
<1>1. ASSUME NEW r \in Runs, Begin(r) PROVE TypeInv'
  BY <1>1 DEF Begin, BeginLaunch, Goto, End
<1>2. ASSUME NEW r \in Runs, LaunchStep(r) PROVE TypeInv'
  <2>1. CASE OpenVars(r) \/ CopyVars(r)
    <3>1. Best(host[r].files).vars \in Templates
      BY <2>1, CanLaunchHas, BestIsCandidate DEF OpenVars, CopyVars, Checked
    <3>2. vm[r] \in Vms
      BY <2>1 DEF OpenVars, CopyVars
    <3>3. /\ vars' \in [Vms -> VarsFiles \union {None}]
          /\ vars'[vm[r]] \in VarsFiles
          /\ \A v \in Vms : v # vm[r] => vars'[v] = vars[v]
      BY <2>1, <3>1, <3>2 DEF OpenVars, CopyVars, VarsFiles
    <3>4. QED BY <2>1, <3>2, <3>3 DEF OpenVars, CopyVars, Goto
  <2>2. CASE KeepVars(r) \/ NeedVars(r) \/ CopyVarsFails(r)
    BY <2>2, TypeStay DEF KeepVars, NeedVars, CopyVarsFails, Goto, End
  <2>3. CASE TpmNotWanted(r) \/ TpmRefused(r) \/ SpawnSwtpmFails(r)
    BY <2>3, TypeStay DEF TpmNotWanted, TpmRefused, SpawnSwtpmFails, Goto, End
  <2>4. CASE SpawnSwtpm(r)
    BY <2>4, TypeStay DEF SpawnSwtpm, Goto
  <2>5. CASE SocketAppears(r) \/ SocketTimeout(r) \/ SpawnQemuFails(r)
    BY <2>5, TypeStay DEF SocketAppears, SocketTimeout, SpawnQemuFails, Goto, End
  <2>6. CASE SpawnQemu(r)
    BY <2>6 DEF SpawnQemu, Goto
  <2>7. QED BY <1>2, <2>1, <2>2, <2>3, <2>4, <2>5, <2>6 DEF LaunchStep
<1>3. ASSUME NEW r \in Runs, RunningStep(r) \/ Drop(r) \/ Crash(r) PROVE TypeInv'
  BY <1>3, TypeStay DEF RunningStep, WaitReturns, StopHelpers, Drop, Crash, Goto, End
<1>4. ASSUME NEW r \in Runs, Kill(r) PROVE TypeInv'
  BY <1>4 DEF Kill
<1>5. ASSUME NEW r \in Runs, SwtpmStep(r) PROVE TypeInv'
  <2>1. vm[r] \in Vms => sock' \in [Vms -> Runs \union {None}]
    BY <1>5 DEF SwtpmStep, SwtpmListens, SwtpmDies
  <2>2. UNCHANGED <<pc, vm, vars, qemu, link, fresh>>
    BY <1>5 DEF SwtpmStep, SwtpmListens, SwtpmDies
  <2>3. sock' \in [Vms -> Runs \union {None}]
    BY <1>5 DEF SwtpmStep, SwtpmListens, SwtpmDies
  <2>4. QED BY <2>2, <2>3
<1>6. ASSUME NEW r \in Runs, QemuStep(r) PROVE TypeInv'
  <2>1. CASE QemuBoots(r)
    BY <2>1 DEF QemuBoots
  <2>2. CASE GuestWritesVars(r)
    <3>1. vm[r] \in Vms /\ vars[vm[r]] \in VarsFiles
      BY <2>2 DEF GuestWritesVars
    <3>2. /\ vars' \in [Vms -> VarsFiles \union {None}]
          /\ \A v \in Vms : vars[v] \in VarsFiles => vars'[v] \in VarsFiles
      BY <2>2, <3>1 DEF GuestWritesVars, VarsFiles
    <3>3. QED BY <2>2, <3>2 DEF GuestWritesVars
  <2>3. CASE QemuExits(r)
    BY <2>3 DEF QemuExits, QemuAlive
  <2>4. QED BY <1>6, <2>1, <2>2, <2>3 DEF QemuStep
<1>7. CASE UNCHANGED allVars
  BY <1>7 DEF allVars
<1>8. QED BY <1>1, <1>2, <1>3, <1>4, <1>5, <1>6, <1>7 DEF Next, Caller

(* Every variable of Launch keeps its type; in particular a VM's variable  *)
(* store is only ever copied from the template of a known firmware pair.   *)
THEOREM TypeCorrect == Spec => []TypeOK
<1>1. LaunchInv /\ [Next]_allVars => LaunchInv'
  BY LaunchNext
<1>2. TypeInv => TypeOK
  BY DEF TypeInv
<1>3. QED BY <1>1, <1>2, LaunchInit, TypeInit, TypeNext, PTL DEF Spec

-----------------------------------------------------------------------------
(* The variable store is made once.                                        *)
(*                                                                         *)
(* While runs of a VM do not overlap, the run that found no store is alone *)
(* with the VM until it has copied one: what it found stays true.          *)

Active(r) == pc[r] \notin {"start", "done"}

Solo == \A r, s \in Runs : Active(r) /\ Active(s) /\ vm[r] = vm[s] => r = s

Provisioning == \A r \in Runs :
  /\ pc[r] \in {"check_vars", "open_vars", "copy_vars"} =>
       \A s \in Runs : vm[s] = vm[r] => ~QemuAlive(s)
  /\ pc[r] = "open_vars" => vars[vm[r]] = None
  /\ pc[r] = "copy_vars" => vars[vm[r]].content = "partial"

VarsInv == LaunchInv /\ TypeInv /\ Solo /\ Provisioning

LEMMA VarsInit == Init => VarsInv
<1> SUFFICES ASSUME Init PROVE VarsInv
  OBVIOUS
<1>1. Solo /\ Provisioning
  BY DEF Init, Solo, Active, Provisioning
<1>2. QED BY <1>1, LaunchInit, TypeInit DEF VarsInv

LEMMA VarsNext == ~Overlapping /\ VarsInv /\ [Next]_allVars => VarsInv'
<1> SUFFICES ASSUME ~Overlapping, VarsInv, [Next]_allVars PROVE VarsInv'
  OBVIOUS
<1>0. LaunchInv' /\ TypeInv'
  BY LaunchNext, TypeNext DEF VarsInv
<1> USE <1>0 DEF VarsInv, TypeInv, TypeOK, HasStore, Solo, Active, Provisioning,
                 QemuAlive, files, processes, Goto, End
<1>1. ASSUME NEW r \in Runs, Begin(r) PROVE VarsInv'
  <2>1. PICK v \in Vms, h \in Hosts, iso_there \in BOOLEAN : BeginLaunch(r, v, h, iso_there)
    BY <1>1 DEF Begin
  <2>2. \A s \in Runs : vm[s] = v => pc[s] = "done" /\ ~QemuAlive(s)
    BY <2>1 DEF BeginLaunch, Idle
  <2>3. /\ vm'[r] = v /\ pc'[r] \in {"check_vars", "done"} /\ qemu[r] = "none"
        /\ \A s \in Runs : s # r => vm'[s] = vm[s] /\ pc'[s] = pc[s]
        /\ UNCHANGED <<qemu, vars>>
    BY <2>1 DEF BeginLaunch
  <2>4. Solo' /\ Provisioning'
    BY <2>2, <2>3
  <2>5. QED BY <2>4
<1>2. ASSUME NEW r \in Runs, LaunchStep(r) PROVE VarsInv'
  <2>1. CASE KeepVars(r) \/ CopyVarsFails(r)
    BY <2>1 DEF KeepVars, CopyVarsFails
  <2>2. CASE NeedVars(r)
    BY <2>2 DEF NeedVars
  <2>3. CASE OpenVars(r)
    BY <2>3 DEF OpenVars
  <2>4. CASE CopyVars(r)
    BY <2>4 DEF CopyVars
  <2>5. CASE TpmNotWanted(r) \/ TpmRefused(r) \/ SpawnSwtpmFails(r) \/ SpawnSwtpm(r)
    BY <2>5 DEF TpmNotWanted, TpmRefused, SpawnSwtpmFails, SpawnSwtpm
  <2>6. CASE SocketAppears(r) \/ SocketTimeout(r) \/ SpawnQemuFails(r)
    BY <2>6 DEF SocketAppears, SocketTimeout, SpawnQemuFails
  <2>7. CASE SpawnQemu(r)
    BY <2>7 DEF SpawnQemu
  <2>8. QED BY <1>2, <2>1, <2>2, <2>3, <2>4, <2>5, <2>6, <2>7 DEF LaunchStep
<1>3. ASSUME NEW r \in Runs, RunningStep(r) \/ Caller(r) \/ Crash(r) PROVE VarsInv'
  <2>1. CASE RunningStep(r)
    BY <2>1 DEF RunningStep, WaitReturns, StopHelpers
  <2>2. CASE Caller(r)
    BY <2>2 DEF Caller, Kill, Drop
  <2>3. CASE Crash(r)
    BY <2>3 DEF Crash
  <2>4. QED BY <1>3, <2>1, <2>2, <2>3
<1>4. ASSUME NEW r \in Runs, SwtpmStep(r) PROVE VarsInv'
  BY <1>4 DEF SwtpmStep, SwtpmListens, SwtpmDies
<1>5. ASSUME NEW r \in Runs, QemuStep(r) PROVE VarsInv'
  <2>1. CASE QemuBoots(r)
    BY <2>1 DEF QemuBoots
  <2>2. CASE GuestWritesVars(r)
    <3>1. \A s \in Runs : pc[s] \in {"open_vars", "copy_vars"} => vm[s] # vm[r]
      BY <2>2 DEF GuestWritesVars
    <3>2. /\ UNCHANGED <<pc, vm, qemu>>
          /\ \A v \in Vms : v # vm[r] => vars'[v] = vars[v]
      BY <2>2 DEF GuestWritesVars
    <3>3. Solo'
      BY <3>2
    <3>4. \A s \in Runs : pc[s] \in {"open_vars", "copy_vars"} => vars'[vm[s]] = vars[vm[s]]
      BY <3>1, <3>2
    <3>5. Provisioning'
      BY <3>2, <3>4
    <3>6. QED BY <3>3, <3>5
  <2>3. CASE QemuExits(r)
    BY <2>3 DEF QemuExits
  <2>4. QED BY <1>5, <2>1, <2>2, <2>3 DEF QemuStep
<1>6. CASE UNCHANGED allVars
  BY <1>6 DEF allVars
<1>7. QED BY <1>1, <1>2, <1>3, <1>4, <1>5, <1>6 DEF Next

(* The step: a store is copied only where there was none or a cut one.     *)
StoreKept == \A v \in Vms :
  vars[v] # None /\ vars[v].content # "partial"
    => vars'[v] \in {vars[v], [vars[v] EXCEPT !.content = "guest"]}

LEMMA StepKeepsStore == VarsInv /\ [Next]_allVars => StoreKept
<1> SUFFICES ASSUME VarsInv, [Next]_allVars PROVE StoreKept
  OBVIOUS
<1> USE DEF VarsInv, TypeInv, TypeOK, StoreKept, files
<1>1. CASE UNCHANGED vars
  BY <1>1
<1>2. ASSUME NEW r \in Runs, OpenVars(r) \/ CopyVars(r) PROVE StoreKept
  <2>1. /\ vars[vm[r]] = None \/ vars[vm[r]].content = "partial"
        /\ \A v \in Vms : v # vm[r] => vars'[v] = vars[v]
    BY <1>2 DEF OpenVars, CopyVars, Provisioning
  <2>2. QED BY <2>1
<1>3. ASSUME NEW r \in Runs, GuestWritesVars(r) PROVE StoreKept
  BY <1>3 DEF GuestWritesVars
<1>4. UNCHANGED vars \/ \E r \in Runs : OpenVars(r) \/ CopyVars(r) \/ GuestWritesVars(r)
  BY DEF Next, Begin, BeginLaunch, LaunchStep, KeepVars, NeedVars, CopyVarsFails,
         TpmNotWanted, TpmRefused, SpawnSwtpmFails, SpawnSwtpm, SocketAppears,
         SocketTimeout, SpawnQemu, SpawnQemuFails, RunningStep, WaitReturns,
         StopHelpers, Caller, Kill, Drop, Crash, SwtpmStep, SwtpmListens, SwtpmDies,
         QemuStep, QemuBoots, QemuExits, allVars
<1>5. QED BY <1>1, <1>2, <1>3, <1>4

(* When runs of one VM do not overlap, a variable store that was copied to *)
(* its end is never copied over, wherever runs fail or are killed.         *)
THEOREM StoreMadeOnce == ~Overlapping => (Spec => VarsMadeOnce)
<1> SUFFICES ASSUME ~Overlapping PROVE Spec => VarsMadeOnce
  OBVIOUS
<1>1. VarsInv /\ [Next]_allVars => VarsInv'
  BY VarsNext
<1>2. VarsInv /\ [Next]_allVars
        => [\A v \in Vms :
              vars[v] # None /\ vars[v].content # "partial"
                => vars'[v] \in {vars[v], [vars[v] EXCEPT !.content = "guest"]}]_allVars
  BY StepKeepsStore DEF StoreKept
<1>3. QED BY <1>1, <1>2, VarsInit, PTL DEF Spec, VarsMadeOnce

-----------------------------------------------------------------------------
(* QEMU and cut variable stores.                                           *)
(*                                                                         *)
(* A store that is cut short has a run that is copying it or that ended in *)
(* the middle of it.  When runs of a VM do not overlap, no QEMU of the VM  *)
(* has ever been started while one is being copied.                        *)

CutBy(v, s) == /\ vm[s] = v
               /\ outcome[s] \in {"WriteError", "Crashed"} \/ pc[s] = "copy_vars"

Cut == /\ \A r \in Runs : outcome[r] \in {"WriteError", "Crashed"} => pc[r] = "done"
       /\ \A v \in Vms : vars[v] # None /\ vars[v].content = "partial"
                           => \E s \in Runs : CutBy(v, s)

Unstarted == \A r, s \in Runs :
  pc[r] = "copy_vars" /\ vm[s] = vm[r] => qemu[s] = "none"

LEMMA CutInit == Init => Cut
  BY DEF Init, Cut

LEMMA CutNext == TypeInv /\ Cut /\ [Next]_allVars => Cut'
<1> SUFFICES ASSUME TypeInv, Cut, [Next]_allVars PROVE Cut'
  OBVIOUS
<1> USE DEF TypeInv, TypeOK, HasStore, files, processes, Goto, End
<1>1. CASE UNCHANGED allVars
  BY <1>1 DEF allVars, Cut, CutBy
<1>2. ASSUME NEW r \in Runs, OpenVars(r) PROVE Cut'
  <2>1. \A v \in Vms : v # vm[r] => vars'[v] = vars[v]
    BY <1>2 DEF OpenVars
  <2>2. CutBy(vm[r], r)'
    BY <1>2 DEF OpenVars, CutBy
  <2>3. \A v \in Vms, s \in Runs : CutBy(v, s) => CutBy(v, s)' \/ v = vm[r]
    BY <1>2 DEF OpenVars, CutBy
  <2>4. QED BY <1>2, <2>1, <2>2, <2>3 DEF Cut, OpenVars
<1>3. ASSUME NEW r \in Runs, CopyVars(r) PROVE Cut'
  <2>1. /\ \A v \in Vms : v # vm[r] => vars'[v] = vars[v]
        /\ vm[r] \in Vms /\ vars'[vm[r]].content = "copy"
    BY <1>3 DEF CopyVars
  <2>2. \A v \in Vms, s \in Runs : CutBy(v, s) => CutBy(v, s)' \/ v = vm[r]
    BY <1>3 DEF CopyVars, CutBy
  <2>3. QED BY <1>3, <2>1, <2>2 DEF Cut, CopyVars
<1>4. ASSUME NEW r \in Runs, GuestWritesVars(r) PROVE Cut'
  <2>1. /\ \A v \in Vms : v # vm[r] => vars'[v] = vars[v]
        /\ vm[r] \in Vms /\ vars'[vm[r]].content = "guest"
    BY <1>4 DEF GuestWritesVars, VarsFiles
  <2>2. \A v \in Vms, s \in Runs : CutBy(v, s)' = CutBy(v, s)
    BY <1>4 DEF GuestWritesVars, CutBy
  <2>3. QED BY <1>4, <2>1, <2>2 DEF Cut, GuestWritesVars
<1>5. ASSUME NEW r \in Runs, UNCHANGED vars,
             pc[r] = "copy_vars" => outcome'[r] \in {"WriteError", "Crashed"},
             outcome'[r] \in {"WriteError", "Crashed"} => pc'[r] = "done",
             pc[r] # "start" => vm'[r] = vm[r],
             pc[r] = "done" => outcome'[r] = outcome[r],
             \A q \in Runs : q # r => vm'[q] = vm[q] /\ pc'[q] = pc[q] /\ outcome'[q] = outcome[q]
      PROVE  Cut'
  <2>1. \A v \in Vms, s \in Runs : CutBy(v, s) => CutBy(v, s)'
    BY <1>5 DEF Cut, CutBy
  <2>2. QED BY <1>5, <2>1 DEF Cut
<1>6. ASSUME NEW r \in Runs, Begin(r) PROVE Cut'
  <2>1. PICK v \in Vms, h \in Hosts, iso_there \in BOOLEAN : BeginLaunch(r, v, h, iso_there)
    BY <1>6 DEF Begin
  <2>2. LaunchError(v, h, iso_there) \notin {"WriteError", "Crashed"}
    BY DEF LaunchError
  <2>3. /\ UNCHANGED vars
        /\ outcome'[r] \notin {"WriteError", "Crashed"} \/ outcome'[r] = outcome[r]
        /\ \A q \in Runs : q # r => vm'[q] = vm[q] /\ pc'[q] = pc[q] /\ outcome'[q] = outcome[q]
    BY <2>1, <2>2 DEF BeginLaunch
  <2>4. pc[r] = "start" /\ outcome[r] \notin {"WriteError", "Crashed"}
    BY <2>1 DEF BeginLaunch, Cut
  <2>5. QED BY <1>5, <2>3, <2>4
<1>7. ASSUME NEW r \in Runs,
             KeepVars(r) \/ NeedVars(r) \/ CopyVarsFails(r) \/ TpmNotWanted(r) \/ TpmRefused(r)
               \/ SpawnSwtpmFails(r) \/ SpawnSwtpm(r) \/ SocketAppears(r) \/ SocketTimeout(r)
               \/ SpawnQemu(r) \/ SpawnQemuFails(r)
      PROVE  Cut'
  <2>1. /\ UNCHANGED <<vars, vm>>
        /\ pc[r] # "done"
        /\ pc[r] = "copy_vars" => outcome'[r] = "WriteError"
        /\ outcome'[r] = outcome[r] \/ pc'[r] = "done"
        /\ \A q \in Runs : q # r => pc'[q] = pc[q] /\ outcome'[q] = outcome[q]
    BY <1>7 DEF KeepVars, NeedVars, CopyVarsFails, TpmNotWanted, TpmRefused, SpawnSwtpmFails,
                SpawnSwtpm, SocketAppears, SocketTimeout, SpawnQemu, SpawnQemuFails
  <2>2. QED BY <1>5, <2>1 DEF Cut
<1>8. ASSUME NEW r \in Runs, RunningStep(r) \/ Caller(r) \/ Crash(r) PROVE Cut'
  <2>1. /\ UNCHANGED <<vars, vm>>
        /\ pc[r] # "done"
        /\ pc[r] = "copy_vars" => outcome'[r] = "Crashed"
        /\ outcome'[r] \in {"Exited", "Killed", "Dropped", outcome[r]} \/ pc'[r] = "done"
        /\ \A q \in Runs : q # r => pc'[q] = pc[q] /\ outcome'[q] = outcome[q]
    BY <1>8 DEF RunningStep, WaitReturns, StopHelpers, Caller, Kill, Drop, Crash
  <2>2. QED BY <1>5, <2>1 DEF Cut
<1>9. ASSUME NEW r \in Runs, SwtpmStep(r) \/ QemuBoots(r) \/ QemuExits(r) PROVE Cut'
  <2>1. UNCHANGED <<vars, vm, pc, outcome>>
    BY <1>9 DEF SwtpmStep, SwtpmListens, SwtpmDies, QemuBoots, QemuExits
  <2>2. QED BY <2>1 DEF Cut, CutBy
<1>10. QED BY <1>1, <1>2, <1>3, <1>4, <1>6, <1>7, <1>8, <1>9 DEF Next, LaunchStep, QemuStep

LEMMA UnstartedNext == ~Overlapping /\ VarsInv /\ Unstarted /\ [Next]_allVars => Unstarted'
<1> SUFFICES ASSUME ~Overlapping, VarsInv, Unstarted, [Next]_allVars PROVE Unstarted'
  OBVIOUS
<1> USE DEF VarsInv, TypeInv, TypeOK, HasStore, Unstarted, files, processes, Goto, End
<1>1. CASE UNCHANGED <<pc, vm, qemu>>
  BY <1>1
<1>2. ASSUME NEW r \in Runs, Begin(r) PROVE Unstarted'
  <2>1. PICK v \in Vms, h \in Hosts, iso_there \in BOOLEAN : BeginLaunch(r, v, h, iso_there)
    BY <1>2 DEF Begin
  <2>2. \A s \in Runs : vm[s] = v => pc[s] = "done"
    BY <2>1 DEF BeginLaunch, Idle
  <2>3. /\ vm'[r] = v /\ pc'[r] # "copy_vars" /\ qemu[r] = "none"
        /\ \A s \in Runs : s # r => vm'[s] = vm[s] /\ pc'[s] = pc[s]
        /\ UNCHANGED qemu
    BY <2>1 DEF BeginLaunch
  <2>4. QED BY <2>2, <2>3
<1>3. ASSUME NEW r \in Runs, OpenVars(r) PROVE Unstarted'
  <2>1. \A s \in Runs : vm[s] = vm[r] => qemu[s] = "none"
    BY <1>3, NoFileAssumption DEF OpenVars, Provisioning
  <2>2. QED BY <1>3, <2>1 DEF OpenVars
<1>4. ASSUME NEW r \in Runs, SpawnQemu(r) PROVE Unstarted'
  <2>1. \A s \in Runs : pc[s] = "copy_vars" => vm[s] # vm[r]
    BY <1>4 DEF SpawnQemu, Solo, Active
  <2>2. QED BY <1>4, <2>1 DEF SpawnQemu
<1>5. ASSUME NEW r \in Runs, UNCHANGED <<vm, qemu>>, NEW step, pc' = [pc EXCEPT ![r] = step],
             step # "copy_vars"
      PROVE  Unstarted'
  BY <1>5
<1>6. ASSUME NEW r \in Runs,
             KeepVars(r) \/ NeedVars(r) \/ CopyVars(r) \/ CopyVarsFails(r) \/ TpmNotWanted(r)
               \/ TpmRefused(r) \/ SpawnSwtpmFails(r) \/ SpawnSwtpm(r) \/ SocketAppears(r)
               \/ SocketTimeout(r) \/ SpawnQemuFails(r) \/ RunningStep(r) \/ Drop(r) \/ Crash(r)
      PROVE  Unstarted'
  BY <1>5, <1>6 DEF KeepVars, NeedVars, CopyVars, CopyVarsFails, TpmNotWanted, TpmRefused,
     SpawnSwtpmFails, SpawnSwtpm, SocketAppears, SocketTimeout, SpawnQemuFails, RunningStep,
     WaitReturns, StopHelpers, Drop, Crash
<1>7. ASSUME NEW r \in Runs, Kill(r) PROVE Unstarted'
  <2>1. \A s \in Runs : pc[s] = "copy_vars" => vm[s] # vm[r]
    BY <1>7 DEF Kill, Solo, Active
  <2>2. QED BY <1>7, <2>1 DEF Kill
<1>8. ASSUME NEW r \in Runs, QemuStep(r) PROVE Unstarted'
  <2>1. qemu[r] # "none" \/ UNCHANGED qemu
    BY <1>8 DEF QemuStep, QemuBoots, GuestWritesVars, QemuExits, QemuAlive
  <2>2. UNCHANGED <<pc, vm>> /\ \A s \in Runs : s # r => qemu'[s] = qemu[s]
    BY <1>8 DEF QemuStep, QemuBoots, GuestWritesVars, QemuExits
  <2>3. QED BY <2>1, <2>2
<1>9. ASSUME NEW r \in Runs, SwtpmStep(r) PROVE Unstarted'
  BY <1>1, <1>9 DEF SwtpmStep, SwtpmListens, SwtpmDies
<1>10. QED BY <1>1, <1>2, <1>3, <1>4, <1>6, <1>7, <1>8, <1>9
           DEF Next, LaunchStep, QemuStep, Caller, allVars

(* QEMU never gets a missing variable store, and one that is cut short     *)
(* only after a failure or a kill, or from a copy going on beside it when  *)
(* runs of one VM overlap.                                                 *)
THEOREM CutOnlyAfterFailure == Spec => []CutOnlyIfFailed
<1>1. LaunchInv /\ [Next]_allVars => LaunchInv'
  BY LaunchNext
<1>2. TypeInv /\ Cut /\ (~Overlapping => Unstarted) => CutOnlyIfFailed
  BY NoFileAssumption DEF TypeInv, TypeOK, HasStore, Cut, CutBy, Unstarted, CutOnlyIfFailed
<1>3. Spec => [](TypeInv /\ Cut)
  BY <1>1, LaunchInit, TypeInit, TypeNext, CutInit, CutNext, PTL DEF Spec
<1>4. CASE Overlapping
  <2>1. TypeInv /\ Cut => CutOnlyIfFailed
    BY <1>2, <1>4
  <2>2. QED BY <1>3, <2>1, PTL
<1>5. CASE ~Overlapping
  <2>1. Init => Unstarted
    BY DEF Init, Unstarted
  <2>2. VarsInv /\ [Next]_allVars => VarsInv'
    BY <1>5, VarsNext
  <2>3. VarsInv /\ Unstarted /\ [Next]_allVars => Unstarted'
    BY <1>5, UnstartedNext
  <2>4. TypeInv /\ Cut /\ Unstarted => CutOnlyIfFailed
    BY <1>2
  <2>5. QED BY <1>3, <2>1, <2>2, <2>3, <2>4, VarsInit, PTL DEF Spec
<1>6. QED BY <1>4, <1>5

-----------------------------------------------------------------------------
(* Waiting for the socket file orders swtpm and QEMU, for any number of    *)
(* runs and VMs, when runs of one VM do not overlap and nothing of an      *)
(* earlier launch is left when the emulator is started.                    *)

(* A VM is in use while a run of it is active or a QEMU of it lives.  From *)
(* its first check to the end of its guest a run has the VM to itself.     *)
Busy(r) == Active(r) \/ QemuAlive(r)

Alone == \A r, s \in Runs : Busy(r) /\ Busy(s) /\ vm[r] = vm[s] => r = s

(* Before its emulator a run has none of what comes with it.               *)
Early == \A r \in Runs :
  /\ pc[r] \in {"start", "check_vars", "open_vars", "copy_vars", "tpm"}
       => swtpm[r] = "none" /\ ~fresh[r] /\ link[r] = None
  /\ pc[r] \notin {"running", "stop_helpers", "done"} => qemu[r] = "none"

(* A socket file was bound by the run it names.                            *)
Bound == \A v \in Vms : sock[v] # None => swtpm[sock[v]] \in {"listening", "dead"}

(* What a fresh launch found stays so while it has the VM: no emulator but *)
(* its own, no socket but its own.                                         *)
Fresh == \A r \in Runs : fresh[r] /\ Busy(r) =>
  /\ \A s \in Runs : vm[s] = vm[r] /\ s # r => ~SwtpmAlive(s)
  /\ sock[vm[r]] \in {None, r}

Waited == \A r \in Runs : HasTpm(r) /\ fresh[r] =>
  /\ pc[r] = "spawn" \/ qemu[r] # "none" => swtpm[r] \in {"listening", "dead"}
  /\ link[r] \in {None, r}

OwnInv == TypeInv /\ Alone /\ Early /\ Bound /\ Fresh /\ Waited

LEMMA OwnInit == Init => OwnInv
<1> SUFFICES ASSUME Init PROVE OwnInv
  OBVIOUS
<1>1. Alone /\ Early /\ Bound /\ Fresh /\ Waited
  BY DEF Init, Alone, Busy, Active, QemuAlive, Early, Bound, Fresh, Waited
<1>2. QED BY <1>1, TypeInit DEF OwnInv

-----------------------------------------------------------------------------
(* A step that starts no launch and no emulator and moves no socket and no *)
(* link; the run that takes it gets to QEMU only if it is past the wait.   *)
LEMMA OwnStays ==
  ASSUME OwnInv, NEW r \in Runs, UNCHANGED <<vm, sock, link, fresh>>,
         \A s \in Runs : /\ Busy(s)' => Busy(s)
                         /\ SwtpmAlive(s)' => SwtpmAlive(s)
                         /\ swtpm[s] \in {"listening", "dead"} => swtpm'[s] \in {"listening", "dead"}
                         /\ pc'[s] \in {"start", "check_vars", "open_vars", "copy_vars", "tpm"}
                              => swtpm'[s] = swtpm[s]
                         /\ s # r => pc'[s] = pc[s] /\ qemu'[s] = qemu[s],
         pc'[r] \in {"start", "check_vars", "open_vars", "copy_vars", "tpm"}
           => pc[r] \in {"start", "check_vars", "open_vars", "copy_vars", "tpm"},
         pc'[r] \notin {"running", "stop_helpers", "done"} => qemu'[r] = "none",
         HasTpm(r) /\ fresh[r] /\ (pc'[r] = "spawn" \/ qemu'[r] # "none")
           => pc[r] = "spawn" \/ qemu[r] # "none" \/ swtpm'[r] \in {"listening", "dead"}
  PROVE  Alone' /\ Early' /\ Bound' /\ Fresh' /\ Waited'
<1> USE DEF OwnInv, TypeInv, TypeOK
<1>1. Alone'
  BY DEF Alone
<1>2. Early'
  BY DEF Early
<1>3. Bound'
  BY DEF Bound
<1>4. Fresh'
  BY DEF Fresh
<1>5. Waited'
  BY DEF Waited, HasTpm
<1>6. QED BY <1>1, <1>2, <1>3, <1>4, <1>5

LEMMA OwnNext == ~Overlapping /\ LaunchInv /\ LaunchInv' /\ OwnInv /\ [Next]_allVars => OwnInv'
<1> SUFFICES ASSUME ~Overlapping, LaunchInv, LaunchInv', OwnInv, [Next]_allVars PROVE OwnInv'
  OBVIOUS
<1>0. TypeInv'
  BY TypeNext DEF OwnInv
<1> SUFFICES Alone' /\ Early' /\ Bound' /\ Fresh' /\ Waited'
  BY <1>0 DEF OwnInv
<1> USE DEF OwnInv, TypeInv, TypeOK, HasStore, files, processes, Goto, End
<1>1. ASSUME NEW r \in Runs, Begin(r) PROVE Alone' /\ Early' /\ Bound' /\ Fresh' /\ Waited'
  <2>1. PICK v \in Vms, h \in Hosts, iso_there \in BOOLEAN : BeginLaunch(r, v, h, iso_there)
    BY <1>1 DEF Begin
  <2>2. /\ vm'[r] = v /\ pc[r] = "start" /\ pc'[r] \in {"check_vars", "done"}
        /\ \A s \in Runs : s # r => vm'[s] = vm[s] /\ pc'[s] = pc[s]
        /\ UNCHANGED <<qemu, swtpm, sock, link, fresh>>
    BY <2>1 DEF BeginLaunch
  <2>3. \A s \in Runs : vm[s] = v => ~Busy(s)
    BY <2>1 DEF BeginLaunch, Idle, Busy, Active
  <2>4. swtpm[r] = "none" /\ ~fresh[r] /\ link[r] = None /\ qemu[r] = "none"
    BY <2>2 DEF Early
  <2>5. \A s \in Runs : s # r => (Busy(s)' <=> Busy(s))
    BY <2>2 DEF Busy, Active, QemuAlive
  <2>6. Alone'
    BY <2>2, <2>3, <2>5 DEF Alone
  <2>7. Early' /\ Bound'
    BY <2>2, <2>4 DEF Early, Bound
  <2>8. Fresh'
    BY <2>2, <2>3, <2>4, <2>5 DEF Fresh, SwtpmAlive
  <2>9. Waited'
    BY <2>2, <2>4 DEF Waited, HasTpm
  <2>10. QED BY <2>6, <2>7, <2>8, <2>9
<1>2. ASSUME NEW r \in Runs, LaunchStep(r) PROVE Alone' /\ Early' /\ Bound' /\ Fresh' /\ Waited'
  <2>1. CASE KeepVars(r) \/ NeedVars(r) \/ OpenVars(r) \/ CopyVars(r) \/ CopyVarsFails(r)
    BY <2>1, OwnStays DEF KeepVars, NeedVars, OpenVars, CopyVars, CopyVarsFails,
                          Busy, Active, QemuAlive, SwtpmAlive, Early
  <2>2. CASE TpmNotWanted(r) \/ TpmRefused(r) \/ SpawnSwtpmFails(r)
    BY <2>2, OwnStays DEF TpmNotWanted, TpmRefused, SpawnSwtpmFails,
                          Busy, Active, QemuAlive, SwtpmAlive, Early
  <2>3. CASE SpawnSwtpm(r)
    <3>1. /\ pc[r] = "tpm" /\ pc'[r] = "wait_socket" /\ swtpm[r] = "none" /\ qemu[r] = "none"
          /\ link[r] = None /\ vm[r] \in Vms
          /\ fresh'[r] => sock[vm[r]] = None /\ \A s \in Runs : vm[s] = vm[r] => ~SwtpmAlive(s)
          /\ \A s \in Runs : s # r => /\ pc'[s] = pc[s] /\ swtpm'[s] = swtpm[s]
                                      /\ fresh'[s] = fresh[s]
          /\ UNCHANGED <<vm, sock, link, qemu>>
      BY <2>3 DEF SpawnSwtpm, Early
    <3>2. \A s \in Runs : Busy(s)' <=> Busy(s)
      BY <3>1 DEF Busy, Active, QemuAlive
    <3>3. Alone'
      BY <3>1, <3>2 DEF Alone
    <3>4. Early' /\ Bound'
      BY <3>1 DEF Early, Bound
    <3>5. \A s \in Runs : Busy(s) /\ vm[s] = vm[r] => s = r
      BY <3>1 DEF Alone, Busy, Active
    <3>6. Fresh'
      BY <3>1, <3>2, <3>5 DEF Fresh, SwtpmAlive
    <3>7. Waited'
      BY <3>1 DEF Waited, HasTpm
    <3>8. QED BY <3>3, <3>4, <3>6, <3>7
  <2>4. CASE SocketAppears(r)
    <3>1. HasTpm(r) /\ fresh[r] => swtpm[r] \in {"listening", "dead"}
      BY <2>4 DEF SocketAppears, SocketThere, Fresh, Bound, Busy, Active
    <3>2. QED BY <2>4, <3>1, OwnStays DEF SocketAppears, Busy, Active, QemuAlive, SwtpmAlive, Early
  <2>5. CASE SocketTimeout(r) \/ SpawnQemuFails(r)
    BY <2>5, OwnStays DEF SocketTimeout, SpawnQemuFails, Busy, Active, QemuAlive, SwtpmAlive, Early
  <2>6. CASE SpawnQemu(r)
    BY <2>6, OwnStays DEF SpawnQemu, Busy, Active, QemuAlive, SwtpmAlive, Early
  <2>7. QED BY <1>2, <2>1, <2>2, <2>3, <2>4, <2>5, <2>6 DEF LaunchStep
<1>3. ASSUME NEW r \in Runs, RunningStep(r) \/ Caller(r) \/ Crash(r)
      PROVE  Alone' /\ Early' /\ Bound' /\ Fresh' /\ Waited'
  <2>1. CASE WaitReturns(r) \/ Drop(r) \/ Crash(r)
    BY <2>1, OwnStays DEF WaitReturns, Drop, Crash, Busy, Active, QemuAlive, SwtpmAlive, Early
  <2>2. CASE Kill(r)
    BY <2>2, OwnStays DEF Kill, Busy, Active, QemuAlive, SwtpmAlive, Early
  <2>3. CASE StopHelpers(r)
    <3>1. /\ \A s \in Runs : s # r => swtpm'[s] = swtpm[s]
          /\ swtpm'[r] \in {swtpm[r], "dead"}
      BY <2>3 DEF StopHelpers
    <3>2. \A s \in Runs : /\ SwtpmAlive(s)' => SwtpmAlive(s)
                          /\ swtpm[s] \in {"listening", "dead"} => swtpm'[s] \in {"listening", "dead"}
      BY <3>1 DEF SwtpmAlive
    <3>3. /\ pc[r] = "stop_helpers" /\ pc' = [pc EXCEPT ![r] = "done"]
          /\ UNCHANGED <<vm, sock, link, fresh, qemu>>
      BY <2>3 DEF StopHelpers
    <3>4. \A s \in Runs : Busy(s)' => Busy(s)
      BY <3>3 DEF Busy, Active, QemuAlive
    <3>5. QED BY <3>1, <3>2, <3>3, <3>4, OwnStays
  <2>4. QED BY <1>3, <2>1, <2>2, <2>3 DEF RunningStep, Caller
<1>4. ASSUME NEW r \in Runs, SwtpmListens(r) PROVE Alone' /\ Early' /\ Bound' /\ Fresh' /\ Waited'
  <2>1. /\ swtpm[r] = "starting" /\ swtpm'[r] = "listening"
        /\ \A s \in Runs : s # r => swtpm'[s] = swtpm[s]
        /\ sock' = [sock EXCEPT ![vm[r]] = r]
        /\ UNCHANGED <<pc, vm, qemu, link, fresh>>
    BY <1>4 DEF SwtpmListens
  <2>2. vm[r] \in Vms
    BY <2>1 DEF Early
  <2>3. Alone' /\ Early'
    BY <2>1 DEF Alone, Busy, Active, QemuAlive, Early
  <2>4. sock'[vm[r]] = r /\ \A v \in Vms : v # vm[r] => sock'[v] = sock[v]
    BY <2>1, <2>2
  <2>5. Bound'
    BY <2>1, <2>4 DEF Bound
  <2>6. \A s \in Runs : fresh[s] /\ Busy(s) /\ vm[s] = vm[r] => s = r
    BY <2>1 DEF Fresh, SwtpmAlive
  <2>7. \A s \in Runs : fresh[s] /\ Busy(s) => vm[s] \in Vms
    BY DEF Busy, Active, Early, QemuAlive
  <2>8. Fresh'
    BY <2>1, <2>4, <2>6, <2>7 DEF Fresh, Busy, Active, QemuAlive, SwtpmAlive
  <2>9. Waited'
    BY <2>1 DEF Waited, HasTpm
  <2>10. QED BY <2>3, <2>5, <2>8, <2>9
<1>5. ASSUME NEW r \in Runs, SwtpmDies(r) PROVE Alone' /\ Early' /\ Bound' /\ Fresh' /\ Waited'
  <2>1. /\ SwtpmAlive(r) /\ swtpm'[r] = "dead"
        /\ \A s \in Runs : s # r => swtpm'[s] = swtpm[s]
        /\ \A v \in Vms : sock'[v] \in {sock[v], None}
        /\ UNCHANGED <<pc, vm, qemu, link, fresh>>
    BY <1>5 DEF SwtpmDies
  <2>2. Alone' /\ Early'
    BY <2>1 DEF Alone, Busy, Active, QemuAlive, Early, SwtpmAlive
  <2>3. Bound'
    BY <2>1 DEF Bound
  <2>4. \A s \in Runs : fresh[s] /\ Busy(s) => vm[s] \in Vms
    BY DEF Busy, Active, Early, QemuAlive
  <2>5. Fresh'
    BY <2>1, <2>4 DEF Fresh, Busy, Active, QemuAlive, SwtpmAlive
  <2>6. Waited'
    BY <2>1 DEF Waited, HasTpm
  <2>7. QED BY <2>2, <2>3, <2>5, <2>6
<1>6. ASSUME NEW r \in Runs, QemuBoots(r) PROVE Alone' /\ Early' /\ Bound' /\ Fresh' /\ Waited'
  <2>1. /\ qemu[r] = "starting" /\ qemu'[r] = "booted"
        /\ \A s \in Runs : s # r => qemu'[s] = qemu[s] /\ link'[s] = link[s]
        /\ HasTpm(r) => link'[r] = sock[vm[r]] /\ sock[vm[r]] \in Runs
        /\ UNCHANGED <<pc, vm, swtpm, sock, fresh>>
    BY <1>6 DEF QemuBoots
  <2>2. \A s \in Runs : Busy(s)' <=> Busy(s)
    BY <2>1 DEF Busy, Active, QemuAlive
  <2>3. Alone' /\ Early' /\ Bound' /\ Fresh'
    BY <2>1, <2>2 DEF Alone, Early, Bound, Fresh, SwtpmAlive
  <2>4. HasTpm(r) /\ fresh[r] => link'[r] = r
    BY <2>1, LaunchAssumption DEF Fresh, Busy, QemuAlive
  <2>5. Waited'
    BY <2>1, <2>4 DEF Waited, HasTpm
  <2>6. QED BY <2>3, <2>5
<1>7. ASSUME NEW r \in Runs, GuestWritesVars(r) \/ QemuExits(r)
      PROVE  Alone' /\ Early' /\ Bound' /\ Fresh' /\ Waited'
  BY <1>7, OwnStays DEF GuestWritesVars, QemuExits, Busy, Active, QemuAlive, SwtpmAlive, Early
<1>8. CASE UNCHANGED allVars
  BY <1>8 DEF allVars, Alone, Early, Bound, Fresh, Waited, Busy, Active, QemuAlive, SwtpmAlive, HasTpm
<1>9. QED BY <1>1, <1>2, <1>3, <1>4, <1>5, <1>6, <1>7, <1>8 DEF Next, SwtpmStep, QemuStep

-----------------------------------------------------------------------------
(* The launches' own invariant does not speak of files.                    *)
SockType == sock \in [Vms -> Runs \union {None}]

Placed == /\ SockType
          /\ \A r \in Runs : /\ pc[r] = "start" => vm[r] = None /\ swtpm[r] = "none"
                             /\ pc[r] # "start" => vm[r] \in Vms

LEMMA PlacedFirst == Init => Placed
  BY DEF Init, Placed, SockType

LEMMA PlacedStep == LaunchInv /\ Placed /\ [Next]_allVars => Placed'
<1> SUFFICES ASSUME LaunchInv, Placed, [Next]_allVars PROVE Placed'
  OBVIOUS
<1> USE DEF LaunchInv, Kinds, Placed, SockType, files, processes, Goto, End
<1>1. ASSUME NEW r \in Runs, Begin(r) PROVE Placed'
  <2>1. PICK v \in Vms, h \in Hosts, iso_there \in BOOLEAN : BeginLaunch(r, v, h, iso_there)
    BY <1>1 DEF Begin
  <2>2. /\ vm'[r] = v /\ pc'[r] # "start" /\ UNCHANGED <<sock, swtpm>>
        /\ \A s \in Runs : s # r => vm'[s] = vm[s] /\ pc'[s] = pc[s]
    BY <2>1 DEF BeginLaunch
  <2>3. QED BY <2>2
<1>2. ASSUME NEW r \in Runs, LaunchStep(r) PROVE Placed'
  <2>1. CASE KeepVars(r) \/ NeedVars(r) \/ OpenVars(r) \/ CopyVars(r) \/ CopyVarsFails(r)
    BY <2>1 DEF KeepVars, NeedVars, OpenVars, CopyVars, CopyVarsFails
  <2>2. CASE TpmNotWanted(r) \/ TpmRefused(r) \/ SpawnSwtpmFails(r) \/ SpawnSwtpm(r)
    BY <2>2 DEF TpmNotWanted, TpmRefused, SpawnSwtpmFails, SpawnSwtpm
  <2>3. CASE SocketAppears(r) \/ SocketTimeout(r) \/ SpawnQemu(r) \/ SpawnQemuFails(r)
    BY <2>3 DEF SocketAppears, SocketTimeout, SpawnQemu, SpawnQemuFails
  <2>4. QED BY <1>2, <2>1, <2>2, <2>3 DEF LaunchStep
<1>3. ASSUME NEW r \in Runs, WaitReturns(r) \/ Caller(r) \/ Crash(r) \/ QemuStep(r) PROVE Placed'
  BY <1>3 DEF WaitReturns, Caller, Kill, Drop, Crash, QemuStep, QemuBoots, GuestWritesVars, QemuExits
<1>4. ASSUME NEW r \in Runs, StopHelpers(r) PROVE Placed'
  <2>1. /\ UNCHANGED <<vm, sock>> /\ pc[r] # "start" /\ pc'[r] # "start"
        /\ \A s \in Runs : s # r => pc'[s] = pc[s] /\ swtpm'[s] = swtpm[s]
    BY <1>4 DEF StopHelpers
  <2>2. QED BY <2>1
<1>5. ASSUME NEW r \in Runs, SwtpmStep(r) PROVE Placed'
  <2>1. pc[r] # "start"
    BY <1>5 DEF SwtpmStep, SwtpmListens, SwtpmDies, SwtpmAlive
  <2>2. /\ UNCHANGED <<pc, vm>> /\ \A s \in Runs : s # r => swtpm'[s] = swtpm[s]
        /\ sock' \in [Vms -> Runs \union {None}]
    BY <1>5, <2>1 DEF SwtpmStep, SwtpmListens, SwtpmDies
  <2>3. QED BY <2>1, <2>2
<1>6. CASE UNCHANGED allVars
  BY <1>6 DEF allVars
<1>7. QED BY <1>1, <1>2, <1>3, <1>4, <1>5, <1>6 DEF Next, RunningStep

(* Whose emulator a guest can be given.  A run at work on a VM is alone    *)
(* with it, so a listening emulator of another run is one that outlived    *)
(* it, and Owned says which those are.                                     *)
StrayInv == /\ qemu \in [Runs -> {"none", "starting", "booted", "exited"}]
            /\ link \in [Runs -> Runs \union {None}]
            /\ Alone
            /\ \A v \in Vms : sock[v] # None => vm[sock[v]] = v
            /\ \A r \in Runs : link[r] \notin {None, r} => pc[link[r]] = "done"
            /\ OwnTpmOrStray

(* A step that connects no QEMU, binds no socket and begins no launch.     *)
LEMMA StrayStays ==
  ASSUME Placed, StrayInv, UNCHANGED <<vm, link>>,
         qemu' \in [Runs -> {"none", "starting", "booted", "exited"}],
         \A v \in Vms : sock'[v] \in {sock[v], None},
         \A s \in Runs : /\ Busy(s)' => Busy(s)
                         /\ pc[s] = "done" => pc'[s] = pc[s] /\ outcome'[s] = outcome[s]
  PROVE  StrayInv'
<1> USE DEF StrayInv
<1>1. Alone'
  BY DEF Alone
<1>2. \A v \in Vms : sock'[v] # None => vm'[sock'[v]] = v
  OBVIOUS
<1>3. \A r \in Runs : link'[r] \notin {None, r} => pc'[link'[r]] = "done"
  OBVIOUS
<1>4. OwnTpmOrStray'
  <2> SUFFICES ASSUME NEW r \in Runs, NEW s \in Runs, link[r] = s, s # r
               PROVE  vm'[s] = vm'[r] /\ outcome'[s] \in {"HelperTimeout", "SpawnError", "Crashed"}
    BY DEF OwnTpmOrStray
  <2>1. s # None
    BY LaunchAssumption
  <2>2. pc[s] = "done"
    BY <2>1
  <2>3. QED BY <2>2 DEF OwnTpmOrStray
<1>5. QED BY <1>1, <1>2, <1>3, <1>4

LEMMA StrayStep ==
  ~Overlapping /\ LaunchInv /\ Placed /\ StrayInv /\ [Next]_allVars => StrayInv'
<1> SUFFICES ASSUME ~Overlapping, LaunchInv, Placed, StrayInv, [Next]_allVars PROVE StrayInv'
  OBVIOUS
<1> USE DEF LaunchInv, Kinds, Placed, SockType, files, processes, Goto, End
<1>1. ASSUME NEW r \in Runs, Begin(r) PROVE StrayInv'
  <2>1. PICK v \in Vms, h \in Hosts, iso_there \in BOOLEAN : BeginLaunch(r, v, h, iso_there)
    BY <1>1 DEF Begin
  <2>2. /\ vm'[r] = v /\ pc[r] = "start" /\ vm[r] = None
        /\ \A s \in Runs : s # r => vm'[s] = vm[s] /\ pc'[s] = pc[s] /\ outcome'[s] = outcome[s]
        /\ UNCHANGED <<qemu, sock, link>>
    BY <2>1 DEF BeginLaunch
  <2>3. \A s \in Runs : vm[s] = v => ~Busy(s)
    BY <2>1 DEF BeginLaunch, Idle, Busy, Active
  <2>4. \A s \in Runs : s # r => (Busy(s)' <=> Busy(s))
    BY <2>2 DEF Busy, Active, QemuAlive
  <2>5. Alone'
    BY <2>2, <2>3, <2>4 DEF Alone, StrayInv
  <2>6. \A w \in Vms : sock[w] # None => sock[w] # r
    BY <2>2, LaunchAssumption DEF StrayInv
  <2>7. \A w \in Vms : sock'[w] # None => vm'[sock'[w]] = w
    BY <2>2, <2>6 DEF StrayInv
  <2>8. \A q, s \in Runs : link[q] = s /\ s # q => s # r /\ q # r /\ pc[s] = "done"
    <3> SUFFICES ASSUME NEW q \in Runs, NEW s \in Runs, link[q] = s, s # q
                 PROVE  s # r /\ q # r /\ pc[s] = "done"
      OBVIOUS
    <3>1. s # None
      BY LaunchAssumption
    <3>2. pc[s] = "done" /\ vm[s] = vm[q]
      BY <3>1 DEF StrayInv, OwnTpmOrStray
    <3>3. vm[s] \in Vms
      BY <3>2
    <3>4. QED BY <2>2, <3>2, <3>3, LaunchAssumption
  <2>9. OwnTpmOrStray'
    BY <2>2, <2>8 DEF StrayInv, OwnTpmOrStray
  <2>10. \A q \in Runs : link'[q] \notin {None, q} => pc'[link'[q]] = "done"
    BY <2>2, <2>8 DEF StrayInv
  <2>11. QED BY <2>2, <2>5, <2>7, <2>9, <2>10 DEF StrayInv
<1>2. ASSUME NEW r \in Runs, LaunchStep(r) PROVE StrayInv'
  <2>1. CASE KeepVars(r) \/ NeedVars(r) \/ OpenVars(r) \/ CopyVars(r) \/ CopyVarsFails(r)
    BY <2>1, StrayStays DEF KeepVars, NeedVars, OpenVars, CopyVars, CopyVarsFails, StrayInv,
                            Busy, Active, QemuAlive
  <2>2. CASE TpmNotWanted(r) \/ TpmRefused(r) \/ SpawnSwtpmFails(r) \/ SpawnSwtpm(r)
    BY <2>2, StrayStays DEF TpmNotWanted, TpmRefused, SpawnSwtpmFails, SpawnSwtpm, StrayInv,
                            Busy, Active, QemuAlive
  <2>3. CASE SocketAppears(r) \/ SocketTimeout(r) \/ SpawnQemuFails(r)
    BY <2>3, StrayStays DEF SocketAppears, SocketTimeout, SpawnQemuFails, StrayInv,
                            Busy, Active, QemuAlive
  <2>4. CASE SpawnQemu(r)
    BY <2>4, StrayStays DEF SpawnQemu, StrayInv, Busy, Active, QemuAlive
  <2>5. QED BY <1>2, <2>1, <2>2, <2>3, <2>4 DEF LaunchStep
<1>3. ASSUME NEW r \in Runs, WaitReturns(r) \/ StopHelpers(r) \/ Drop(r) \/ Crash(r) PROVE StrayInv'
  BY <1>3, StrayStays DEF WaitReturns, StopHelpers, Drop, Crash, StrayInv, Busy, Active, QemuAlive
<1>4. ASSUME NEW r \in Runs, Kill(r) PROVE StrayInv'
  BY <1>4, StrayStays DEF Kill, StrayInv, Busy, Active, QemuAlive
<1>5. ASSUME NEW r \in Runs, SwtpmListens(r) PROVE StrayInv'
  <2>1. /\ vm[r] \in Vms /\ sock' = [sock EXCEPT ![vm[r]] = r]
        /\ UNCHANGED <<pc, vm, outcome, qemu, link>>
    BY <1>5 DEF SwtpmListens
  <2>2. \A v \in Vms : sock'[v] # None => vm'[sock'[v]] = v
    BY <2>1 DEF StrayInv
  <2>3. Alone' /\ OwnTpmOrStray'
    BY <2>1 DEF StrayInv, Alone, Busy, Active, QemuAlive, OwnTpmOrStray
  <2>4. QED BY <2>1, <2>2, <2>3 DEF StrayInv
<1>6. ASSUME NEW r \in Runs, SwtpmDies(r) PROVE StrayInv'
  <2>1. /\ UNCHANGED <<pc, vm, outcome, qemu, link>>
        /\ \A v \in Vms : sock'[v] \in {sock[v], None}
    BY <1>6 DEF SwtpmDies
  <2>2. QED BY <2>1, StrayStays DEF StrayInv, Busy, Active, QemuAlive
<1>7. ASSUME NEW r \in Runs, QemuBoots(r) PROVE StrayInv'
  <2>1. /\ qemu[r] = "starting" /\ qemu' = [qemu EXCEPT ![r] = "booted"]
        /\ UNCHANGED <<pc, vm, outcome, sock>>
    BY <1>7 DEF QemuBoots
  <2>2. \A s \in Runs : Busy(s)' <=> Busy(s)
    BY <2>1 DEF Busy, Active, QemuAlive, StrayInv
  <2>3. Alone'
    BY <2>1, <2>2 DEF StrayInv, Alone
  <2>4. CASE ~HasTpm(r)
    <3>1. UNCHANGED link
      BY <1>7, <2>4 DEF QemuBoots
    <3>2. QED BY <2>1, <2>3, <3>1 DEF StrayInv, OwnTpmOrStray
  <2>5. CASE HasTpm(r)
    <3>1. PICK s \in Runs : /\ sock[vm[r]] = s /\ swtpm[s] = "listening"
                           /\ link' = [link EXCEPT ![r] = s]
      BY <1>7, <2>5 DEF QemuBoots
    <3>2. vm[r] \in Vms
      BY <2>5, LaunchAssumption DEF HasTpm
    <3>3. vm[s] = vm[r] /\ s # None
      BY <3>1, <3>2, LaunchAssumption DEF StrayInv
    <3>4. s # r => ~Active(s)
      BY <2>1, <3>3 DEF StrayInv, Alone, Busy, QemuAlive
    <3>5. s # r => pc[s] = "done" /\ outcome[s] \in {"HelperTimeout", "SpawnError", "Crashed"}
      BY <3>1, <3>4 DEF Owned, SwtpmAlive, Active
    <3>6. link'[r] = s /\ \A q \in Runs : q # r => link'[q] = link[q]
      BY <3>1 DEF StrayInv
    <3>7. OwnTpmOrStray'
      BY <2>1, <3>3, <3>5, <3>6 DEF StrayInv, OwnTpmOrStray
    <3>8. \A q \in Runs : link'[q] \notin {None, q} => pc'[link'[q]] = "done"
      BY <2>1, <3>5, <3>6 DEF StrayInv
    <3>9. QED BY <2>1, <2>3, <3>1, <3>7, <3>8 DEF StrayInv
  <2>6. QED BY <2>4, <2>5
<1>8. ASSUME NEW r \in Runs, GuestWritesVars(r) \/ QemuExits(r) PROVE StrayInv'
  BY <1>8, StrayStays DEF GuestWritesVars, QemuExits, StrayInv, Busy, Active, QemuAlive
<1>9. CASE UNCHANGED allVars
  BY <1>9, StrayStays DEF allVars, StrayInv, Busy, Active, QemuAlive
<1>10. QED BY <1>1, <1>2, <1>3, <1>4, <1>5, <1>6, <1>7, <1>8, <1>9
           DEF Next, RunningStep, Caller, SwtpmStep, QemuStep

LEMMA StrayFirst == Init => StrayInv
  BY LaunchAssumption DEF Init, StrayInv, Alone, Busy, Active, QemuAlive, OwnTpmOrStray

(* When runs of one VM do not overlap, a guest's TPM is its own run's or   *)
(* one that a failed or killed launch of the VM has left.  A launch that   *)
(* found neither a socket file nor an emulator of the VM starts QEMU only  *)
(* after its own swtpm has made its socket, and that is the one it gets.   *)
THEOREM GuestGetsOwnTpm == ~Overlapping => (Spec => []OwnTpm)
<1> SUFFICES ASSUME ~Overlapping PROVE Spec => []OwnTpm
  OBVIOUS
<1>1. LaunchInv /\ [Next]_allVars => LaunchInv'
  BY LaunchNext
<1>2. LaunchInv /\ LaunchInv' /\ OwnInv /\ [Next]_allVars => OwnInv'
  BY OwnNext
<1>3. LaunchInv /\ Placed /\ StrayInv /\ [Next]_allVars => Placed' /\ StrayInv'
  BY PlacedStep, StrayStep
<1>4. OwnInv /\ StrayInv => OwnTpm
  BY DEF OwnInv, Waited, StrayInv, OwnTpm
<1>5. QED BY <1>1, <1>2, <1>3, <1>4, LaunchInit, OwnInit, PlacedFirst, StrayFirst, PTL DEF Spec

-----------------------------------------------------------------------------
(* Launch implements the safety part of GuestSession, however runs overlap *)
(* and wherever they are killed.                                           *)
Guest(r)    == Life(qemu[r] # "none", QemuAlive(r))
Emulator(r) == Life(swtpm[r] # "none", SwtpmAlive(r))
Tpm(r)      == HasTpm(r)

-----------------------------------------------------------------------------
(* What the mapping rests on: nothing is started before its turn, and a    *)
(* session is ended as over only when its guest has ended.                 *)
Turns == \A r \in Runs :
  /\ pc[r] \in {"start", "check_vars", "open_vars", "copy_vars", "tpm"} => swtpm[r] = "none"
  /\ pc[r] \notin {"running", "stop_helpers", "done"} => qemu[r] = "none"
  /\ pc[r] = "running" => qemu[r] # "none"
  /\ pc[r] = "stop_helpers" => outcome[r] \in {"Exited", "Killed", "Dropped"}
  /\ outcome[r] \in {"Exited", "Killed"} => qemu[r] = "exited"
  /\ pc[r] = "wait_socket" => swtpm[r] # "none"
  /\ pc[r] = "spawn" /\ HasTpm(r) => swtpm[r] # "none"
  /\ helper[r] => swtpm[r] # "none"

SessionInv == LaunchInv /\ qemu \in [Runs -> {"none", "starting", "booted", "exited"}] /\ Turns

LEMMA SessionInvInit == Init => SessionInv
<1> SUFFICES ASSUME Init PROVE SessionInv
  OBVIOUS
<1>1. qemu \in [Runs -> {"none", "starting", "booted", "exited"}] /\ Turns
  BY DEF Init, Turns
<1>2. QED BY <1>1, LaunchInit DEF SessionInv

LEMMA SessionInvNext == SessionInv /\ [Next]_allVars => SessionInv'
<1> SUFFICES ASSUME SessionInv, [Next]_allVars PROVE SessionInv'
  OBVIOUS
<1>0. LaunchInv'
  BY LaunchNext DEF SessionInv
<1> USE <1>0 DEF SessionInv, LaunchInv, Kinds, Turns, HasTpm, files, processes, Goto, End
<1>1. ASSUME NEW r \in Runs, Begin(r) PROVE SessionInv'
  <2>1. PICK v \in Vms, h \in Hosts, iso_there \in BOOLEAN : BeginLaunch(r, v, h, iso_there)
    BY <1>1 DEF Begin
  <2>2. LaunchError(v, h, iso_there) \notin {"Exited", "Killed"}
    BY DEF LaunchError
  <2>3. QED BY <2>1, <2>2 DEF BeginLaunch
<1>2. ASSUME NEW r \in Runs, LaunchStep(r) PROVE SessionInv'
  <2>1. CASE KeepVars(r) \/ NeedVars(r) \/ OpenVars(r) \/ CopyVars(r) \/ CopyVarsFails(r)
    BY <2>1 DEF KeepVars, NeedVars, OpenVars, CopyVars, CopyVarsFails
  <2>2. CASE TpmNotWanted(r) \/ TpmRefused(r) \/ SpawnSwtpmFails(r)
    BY <2>2 DEF TpmNotWanted, TpmRefused, TpmError, SpawnSwtpmFails
  <2>3. CASE SpawnSwtpm(r)
    BY <2>3 DEF SpawnSwtpm
  <2>4. CASE SocketAppears(r) \/ SocketTimeout(r) \/ SpawnQemuFails(r)
    BY <2>4 DEF SocketAppears, SocketTimeout, SpawnQemuFails
  <2>5. CASE SpawnQemu(r)
    BY <2>5 DEF SpawnQemu
  <2>6. QED BY <1>2, <2>1, <2>2, <2>3, <2>4, <2>5 DEF LaunchStep
<1>3. ASSUME NEW r \in Runs, WaitReturns(r) \/ Caller(r) \/ Crash(r) PROVE SessionInv'
  BY <1>3 DEF WaitReturns, Caller, Kill, Drop, Crash
<1>4. ASSUME NEW r \in Runs, StopHelpers(r) PROVE SessionInv'
  <2>1. /\ \A s \in Runs : s # r => pc'[s] = pc[s] /\ swtpm'[s] = swtpm[s]
        /\ pc'[r] = "done" /\ helper'[r] = FALSE
        /\ \A s \in Runs : s # r => helper'[s] = helper[s]
        /\ UNCHANGED <<vm, qemu, outcome>>
    BY <1>4 DEF StopHelpers
  <2>2. QED BY <2>1
<1>5. ASSUME NEW r \in Runs, SwtpmStep(r) PROVE SessionInv'
  <2>1. /\ UNCHANGED <<pc, vm, outcome, qemu, helper>>
        /\ \A s \in Runs : swtpm'[s] = "none" <=> swtpm[s] = "none"
    BY <1>5 DEF SwtpmStep, SwtpmListens, SwtpmDies, SwtpmAlive
  <2>2. QED BY <2>1
<1>6. ASSUME NEW r \in Runs, QemuStep(r) PROVE SessionInv'
  BY <1>6 DEF QemuStep, QemuBoots, GuestWritesVars, QemuExits, QemuAlive
<1>7. CASE UNCHANGED allVars
  BY <1>7 DEF allVars
<1>8. QED BY <1>1, <1>2, <1>3, <1>4, <1>5, <1>6, <1>7 DEF Next, RunningStep

-----------------------------------------------------------------------------
(* A step of one run that changes its place in the session as one of the   *)
(* session's actions does, and nobody else's, is a step of the session.    *)
SameTpm(r) == Tpm(r)' = Tpm(r)

Alike(s) == /\ Phase(s)' = Phase(s) /\ Guest(s)' = Guest(s) /\ Emulator(s)' = Emulator(s)
            /\ SameTpm(s)

Begins(r)   == /\ Phase(r) = "new" /\ Phase(r)' = "launching"
               /\ Guest(r)' = Guest(r) /\ Emulator(r)' = Emulator(r)

Emulates(r) == /\ Phase(r) = "launching" /\ Emulator(r) = "none" /\ Emulator(r)' = "on"
               /\ Phase(r)' = Phase(r) /\ Guest(r)' = Guest(r)
               /\ Tpm(r) /\ SameTpm(r)

Starts(r)   == /\ Phase(r) = "launching" /\ Phase(r)' = "up" /\ Guest(r)' = "on"
               /\ Emulator(r)' = Emulator(r)
               /\ Tpm(r) => Emulator(r) # "none"
               /\ SameTpm(r)

Refuses(r)  == /\ Phase(r) = "new" \/ (Phase(r) = "launching" /\ SameTpm(r))
               /\ Phase(r)' = "refused"
               /\ Guest(r)' = Guest(r) /\ Emulator(r)' = Emulator(r)

Ends(r)     == /\ Guest(r) = "on" /\ Guest(r)' = "off"
               /\ Phase(r)' = Phase(r) /\ Emulator(r)' = Emulator(r) /\ SameTpm(r)

Dies(r)     == /\ Emulator(r) = "on" /\ Emulator(r)' = "off"
               /\ Phase(r)' = Phase(r) /\ Guest(r)' = Guest(r) /\ SameTpm(r)

Leaves(r)   == /\ Phase(r) = "up" /\ Guest(r)' = Guest(r)
               /\ \/ Guest(r) = "off" /\ Phase(r)' = "over"
                  \/ Phase(r)' = "dropped"
               /\ Emulator(r)' = IF Emulator(r) = "on" THEN "off" ELSE Emulator(r)
               /\ SameTpm(r)

Loses(r)    == /\ Phase(r) \in {"launching", "up"} /\ Phase(r)' = "lost"
               /\ Guest(r)' = Guest(r) /\ Emulator(r)' = Emulator(r) /\ SameTpm(r)

Moves(r) == \/ Alike(r) \/ Begins(r) \/ Emulates(r) \/ Starts(r) \/ Refuses(r)
            \/ Ends(r) \/ Dies(r) \/ Leaves(r) \/ Loses(r)

LEMMA MovesAreSteps ==
  ASSUME NEW r \in Runs, Moves(r), \A s \in Runs : s # r => Alike(s)
  PROVE  [Session!Next]_(Session!session)
<1> DEFINE phase == [s \in Runs |-> Phase(s)]
           guest == [s \in Runs |-> Guest(s)]
           emulator == [s \in Runs |-> Emulator(s)]
           tpm == [s \in Runs |-> Tpm(s)]
<1>1. /\ phase' = [phase EXCEPT ![r] = Phase(r)']
      /\ guest' = [guest EXCEPT ![r] = Guest(r)']
      /\ emulator' = [emulator EXCEPT ![r] = Emulator(r)']
      /\ tpm' = [tpm EXCEPT ![r] = Tpm(r)']
  BY DEF Alike, SameTpm
<1>2. /\ phase[r] = Phase(r) /\ guest[r] = Guest(r) /\ emulator[r] = Emulator(r)
      /\ tpm[r] = Tpm(r)
  OBVIOUS
<1>3. /\ Phase(r)' = Phase(r) => phase' = phase
      /\ Guest(r)' = Guest(r) => guest' = guest
      /\ Emulator(r)' = Emulator(r) => emulator' = emulator
      /\ SameTpm(r) => tpm' = tpm
  BY DEF Alike, SameTpm
<1>0. Session!Ask(r)
  <2>1. Tpm(r)' \in BOOLEAN
    BY DEF Tpm, HasTpm
  <2>2. QED BY <1>1, <2>1 DEF Session!Ask, Tpm
<1>4. Session!session = <<phase, guest, emulator, tpm>>
  BY DEF Session!session, Guest, Emulator, Tpm
<1>5. CASE Alike(r)
  BY <1>3, <1>4, <1>5 DEF Alike, Session!session, Guest, Emulator, Tpm
<1>6. CASE Begins(r)
  <2>1. Session!Begin(r)
    BY <1>0, <1>1, <1>2, <1>3, <1>6 DEF Begins, Session!Begin, Session!Become, Guest, Emulator, Tpm
  <2>2. QED BY <2>1 DEF Session!Next
<1>7. CASE Emulates(r)
  <2>1. Session!StartEmulator(r)
    BY <1>1, <1>2, <1>3, <1>7 DEF Emulates, Session!StartEmulator, Guest, Emulator, Tpm
  <2>2. QED BY <2>1 DEF Session!Next
<1>8. CASE Starts(r)
  <2>1. Session!StartGuest(r)
    BY <1>1, <1>2, <1>3, <1>8 DEF Starts, Session!StartGuest, Session!Become, Guest, Emulator, Tpm
  <2>2. QED BY <2>1 DEF Session!Next
<1>9. CASE Refuses(r)
  <2>1. Session!Refuse(r)
    BY <1>0, <1>1, <1>2, <1>3, <1>9 DEF Refuses, Session!Refuse, Session!Become, Guest, Emulator, Tpm
  <2>2. QED BY <2>1 DEF Session!Next
<1>10. CASE Ends(r)
  <2>1. Session!GuestEnds(r)
    BY <1>1, <1>2, <1>3, <1>10 DEF Ends, Session!GuestEnds, Guest, Emulator, Tpm
  <2>2. QED BY <2>1 DEF Session!Next
<1>11. CASE Dies(r)
  <2>1. Session!EmulatorEnds(r)
    BY <1>1, <1>2, <1>3, <1>11 DEF Dies, Session!EmulatorEnds, Guest, Emulator, Tpm
  <2>2. QED BY <2>1 DEF Session!Next
<1>12. CASE Leaves(r)
  <2>1. Session!Finish(r) \/ Session!Abandon(r)
    BY <1>1, <1>2, <1>3, <1>12 DEF Leaves, Session!Finish, Session!Abandon, Session!Leave,
                                   Session!Become, Session!Stopped, Guest, Emulator, Tpm
  <2>2. QED BY <2>1 DEF Session!Next
<1>13. CASE Loses(r)
  <2>1. Session!Lose(r)
    BY <1>1, <1>2, <1>3, <1>13 DEF Loses, Session!Lose, Session!Become, Guest, Emulator, Tpm
  <2>2. QED BY <2>1 DEF Session!Next
<1>14. QED BY <1>5, <1>6, <1>7, <1>8, <1>9, <1>10, <1>11, <1>12, <1>13 DEF Moves

-----------------------------------------------------------------------------
(* Every step of Launch moves one run so, or none.                         *)
Same(s) == /\ pc'[s] = pc[s] /\ outcome'[s] = outcome[s]
           /\ qemu'[s] = qemu[s] /\ swtpm'[s] = swtpm[s]
           /\ vm'[s] = vm[s]

LEMMA SameIsAlike == ASSUME NEW s \in Runs, Same(s) PROVE Alike(s)
  BY DEF Same, Alike, Phase, PhaseDone, SameTpm, Tpm, HasTpm,
            Guest, Emulator, Life, QemuAlive, SwtpmAlive

LEMMA LaunchMoves ==
  ASSUME SessionInv, SessionInv', [Next]_allVars
  PROVE  \/ \A s \in Runs : Same(s)
         \/ \E r \in Runs : Moves(r) /\ \A s \in Runs : s # r => Same(s)
<1> DEFINE Goal == \/ \A s \in Runs : Same(s)
                   \/ \E r \in Runs : Moves(r) /\ \A s \in Runs : s # r => Same(s)
<1> USE DEF SessionInv, LaunchInv, Kinds, files, processes, Goto, End
<1>1. ASSUME NEW r \in Runs, \A s \in Runs : s # r => Same(s), Moves(r) PROVE Goal
  BY <1>1
<1>2. ASSUME \A s \in Runs : Same(s) PROVE Goal
  BY <1>2
<1> HIDE DEF Goal
<1>3. ASSUME NEW r \in Runs, Begin(r) PROVE Goal
  <2>1. PICK v \in Vms, h \in Hosts, iso_there \in BOOLEAN : BeginLaunch(r, v, h, iso_there)
    BY <1>3 DEF Begin
  <2>2. LaunchError(v, h, iso_there) \in {"none", "HostNotReady", "MissingIso", "MissingBinary"}
    BY DEF LaunchError
  <2>3. /\ pc[r] = "start"
        /\ \/ pc'[r] = "check_vars"
           \/ pc'[r] = "done" /\ outcome'[r] \in {"HostNotReady", "MissingIso", "MissingBinary"}
        /\ UNCHANGED <<qemu, swtpm>>
        /\ \A s \in Runs : s # r => Same(s)
    BY <2>1, <2>2 DEF BeginLaunch, Same
  <2>4. Begins(r) \/ Refuses(r)
    BY <2>3 DEF Begins, Refuses, Phase, PhaseDone, Guest, Emulator, Life, QemuAlive, SwtpmAlive
  <2>5. QED BY <2>3, <2>4, <1>1 DEF Moves
<1>4. ASSUME NEW r \in Runs, pc[r] \in {"check_vars", "open_vars", "copy_vars", "tpm", "wait_socket", "spawn"},
             UNCHANGED <<qemu, swtpm, vm>>, \A s \in Runs : s # r => Same(s),
             \/ /\ pc'[r] \in {"check_vars", "open_vars", "copy_vars", "tpm", "wait_socket", "spawn"}
             \/ /\ pc'[r] = "done"
                /\ outcome'[r] \in {"WriteError", "HostNotReady", "TpmUnavailable",
                                    "SocketPathTooLong", "SpawnError", "HelperTimeout"}
      PROVE  Goal
  <2>1. Alike(r) \/ Refuses(r)
    BY <1>4 DEF Alike, Refuses, Phase, PhaseDone, SameTpm, Tpm, HasTpm,
            Guest, Emulator, Life, QemuAlive, SwtpmAlive
  <2>2. QED BY <2>1, <1>1, <1>4 DEF Moves
<1>5. ASSUME NEW r \in Runs,
             KeepVars(r) \/ NeedVars(r) \/ OpenVars(r) \/ CopyVars(r) \/ CopyVarsFails(r)
      PROVE  Goal
  BY <1>4, <1>5 DEF KeepVars, NeedVars, OpenVars, CopyVars, CopyVarsFails, Same
<1>6. ASSUME NEW r \in Runs, TpmNotWanted(r) \/ TpmRefused(r) \/ SpawnSwtpmFails(r) PROVE Goal
  BY <1>4, <1>6 DEF TpmNotWanted, TpmRefused, TpmError, SpawnSwtpmFails, Same
<1>7. ASSUME NEW r \in Runs, SocketAppears(r) \/ SocketTimeout(r) \/ SpawnQemuFails(r) PROVE Goal
  BY <1>4, <1>7 DEF SocketAppears, SocketTimeout, SpawnQemuFails, Same
<1>8. ASSUME NEW r \in Runs, SpawnSwtpm(r) PROVE Goal
  <2>1. /\ pc[r] = "tpm" /\ pc'[r] = "wait_socket" /\ swtpm[r] = "none" /\ swtpm'[r] = "starting"
        /\ HasTpm(r) /\ UNCHANGED <<qemu, vm>> /\ \A s \in Runs : s # r => Same(s)
    BY <1>8 DEF SpawnSwtpm, Turns, Same
  <2>2. Emulates(r)
    BY <2>1 DEF Emulates, Phase, SameTpm, Tpm, HasTpm, Guest, Emulator, Life, QemuAlive, SwtpmAlive
  <2>3. QED BY <2>1, <2>2, <1>1 DEF Moves
<1>9. ASSUME NEW r \in Runs, SpawnQemu(r) PROVE Goal
  <2>1. /\ pc[r] = "spawn" /\ pc'[r] = "running" /\ qemu'[r] = "starting"
        /\ UNCHANGED <<swtpm, vm>> /\ \A s \in Runs : s # r => Same(s)
    BY <1>9 DEF SpawnQemu, Same
  <2>2. Starts(r)
    BY <2>1 DEF Starts, Turns, Phase, SameTpm, Tpm, HasTpm, Guest, Emulator, Life, QemuAlive, SwtpmAlive
  <2>3. QED BY <2>1, <2>2, <1>1 DEF Moves
<1>10. ASSUME NEW r \in Runs, WaitReturns(r) \/ Drop(r) PROVE Goal
  <2>1. /\ pc[r] = "running" /\ pc'[r] = "stop_helpers"
        /\ UNCHANGED <<qemu, swtpm, vm>> /\ \A s \in Runs : s # r => Same(s)
    BY <1>10 DEF WaitReturns, Drop, Same
  <2>2. Alike(r)
    BY <2>1 DEF Alike, Phase, SameTpm, Tpm, HasTpm, Guest, Emulator, Life, QemuAlive, SwtpmAlive
  <2>3. QED BY <2>1, <2>2, <1>1 DEF Moves
<1>11. ASSUME NEW r \in Runs, Kill(r) PROVE Goal
  <2>1. /\ pc[r] = "running" /\ pc'[r] = "stop_helpers" /\ qemu[r] # "none" /\ qemu'[r] = "exited"
        /\ UNCHANGED <<swtpm, vm>> /\ \A s \in Runs : s # r => Same(s)
    BY <1>11 DEF Kill, Turns, Same
  <2>2. Ends(r) \/ Alike(r)
    BY <2>1 DEF Ends, Alike, Phase, SameTpm, Tpm, HasTpm, Guest, Emulator, Life, QemuAlive, SwtpmAlive
  <2>3. QED BY <2>1, <2>2, <1>1 DEF Moves
<1>12. ASSUME NEW r \in Runs, StopHelpers(r) PROVE Goal
  <2>1. /\ pc[r] = "stop_helpers" /\ pc'[r] = "done"
        /\ UNCHANGED <<qemu, outcome, vm>> /\ \A s \in Runs : s # r => Same(s)
    BY <1>12 DEF StopHelpers, Same
  <2>2. swtpm'[r] = IF SwtpmAlive(r) THEN "dead" ELSE swtpm'[r]
    BY <1>12 DEF StopHelpers, Owned
  <2>3. swtpm'[r] \in {swtpm[r], "dead"} /\ (swtpm[r] = "none" => swtpm'[r] = "none")
    BY <1>12 DEF StopHelpers, Turns
  <2>4. Leaves(r)
    BY <2>1, <2>2, <2>3 DEF Leaves, Turns, Phase, PhaseDone, SameTpm, Tpm, HasTpm,
            Guest, Emulator, Life, QemuAlive, SwtpmAlive
  <2>5. QED BY <2>1, <2>4, <1>1 DEF Moves
<1>13. ASSUME NEW r \in Runs, Crash(r) PROVE Goal
  <2>1. /\ pc[r] \notin {"start", "done"} /\ pc'[r] = "done" /\ outcome'[r] = "Crashed"
        /\ UNCHANGED <<qemu, swtpm, vm>> /\ \A s \in Runs : s # r => Same(s)
    BY <1>13 DEF Crash, Same
  <2>2. Loses(r)
    BY <2>1 DEF Loses, Phase, PhaseDone, SameTpm, Tpm, HasTpm,
            Guest, Emulator, Life, QemuAlive, SwtpmAlive
  <2>3. QED BY <2>1, <2>2, <1>1 DEF Moves
<1>14. ASSUME NEW r \in Runs, SwtpmStep(r) PROVE Goal
  <2>1. /\ SwtpmAlive(r) /\ swtpm'[r] \in {"listening", "dead"}
        /\ UNCHANGED <<pc, outcome, qemu, vm>> /\ \A s \in Runs : s # r => Same(s)
    BY <1>14 DEF SwtpmStep, SwtpmListens, SwtpmDies, SwtpmAlive, Same
  <2>2. Dies(r) \/ Alike(r)
    BY <2>1 DEF Dies, Alike, Phase, PhaseDone, SameTpm, Tpm, HasTpm,
            Guest, Emulator, Life, QemuAlive, SwtpmAlive
  <2>3. QED BY <2>1, <2>2, <1>1 DEF Moves
<1>15. ASSUME NEW r \in Runs, QemuStep(r) PROVE Goal
  <2>1. /\ QemuAlive(r) /\ qemu'[r] \in {"booted", "exited"}
        /\ UNCHANGED <<pc, outcome, swtpm, vm>> /\ \A s \in Runs : s # r => Same(s)
    BY <1>15 DEF QemuStep, QemuBoots, GuestWritesVars, QemuExits, QemuAlive, Same
  <2>2. Ends(r) \/ Alike(r)
    BY <2>1 DEF Ends, Alike, Phase, PhaseDone, SameTpm, Tpm, HasTpm,
            Guest, Emulator, Life, QemuAlive, SwtpmAlive
  <2>3. QED BY <2>1, <2>2, <1>1 DEF Moves
<1>16. CASE UNCHANGED allVars
  BY <1>2, <1>16 DEF allVars, Same
<1>17. ASSUME NEW r \in Runs, LaunchStep(r) PROVE Goal
  BY <1>5, <1>6, <1>7, <1>8, <1>9, <1>17 DEF LaunchStep
<1>18. ASSUME NEW r \in Runs, RunningStep(r) \/ Caller(r) PROVE Goal
  BY <1>10, <1>11, <1>12, <1>18 DEF RunningStep, Caller
<1>19. ASSUME NEW r \in Runs,
              \/ Begin(r) \/ LaunchStep(r) \/ RunningStep(r)
              \/ Caller(r) \/ Crash(r) \/ SwtpmStep(r) \/ QemuStep(r)
       PROVE  Goal
  BY <1>3, <1>13, <1>14, <1>15, <1>17, <1>18, <1>19
<1>20. Next => Goal
  BY <1>19 DEF Next
<1>21. QED BY <1>16, <1>20 DEF Goal

LEMMA SessionStep == SessionInv /\ SessionInv' /\ [Next]_allVars => [Session!Next]_(Session!session)
<1> SUFFICES ASSUME SessionInv, SessionInv', [Next]_allVars PROVE [Session!Next]_(Session!session)
  OBVIOUS
<1>1. CASE \A s \in Runs : Same(s)
  <2>1. \A s \in Runs : Alike(s)
    BY <1>1, SameIsAlike
  <2>2. QED BY <2>1 DEF Alike, SameTpm, Session!session, Guest, Emulator, Tpm
<1>2. CASE \E r \in Runs : Moves(r) /\ \A s \in Runs : s # r => Same(s)
  <2>1. PICK r \in Runs : Moves(r) /\ \A s \in Runs : s # r => Same(s)
    BY <1>2
  <2>2. \A s \in Runs : s # r => Alike(s)
    BY <2>1, SameIsAlike
  <2>3. QED BY <2>1, <2>2, MovesAreSteps
<1>3. QED BY <1>1, <1>2, LaunchMoves

LEMMA SessionInit == Init => Session!Init
<1>1. ASSUME Init PROVE [r \in Runs |-> HasTpm(r)] = [r \in Runs |-> FALSE]
  <2>1. ASSUME NEW r \in Runs PROVE HasTpm(r) = FALSE
    BY <1>1, LaunchAssumption DEF Init, HasTpm
  <2>2. QED BY <2>1, Zenon
<1>2. QED BY <1>1 DEF Init, Session!Init, Phase, Life, QemuAlive, SwtpmAlive

(* Every behaviour of Launch is one the contract allows: no run is told    *)
(* that its guest is over while the guest or its emulator lives, whatever  *)
(* fails, overlaps or is killed.                                           *)
THEOREM LaunchKeepsContract == Spec => Session!SafeSpec
  BY SessionInvInit, SessionInvNext, SessionInit, SessionStep, PTL DEF Spec, Session!SafeSpec
=============================================================================
