--------------------------- MODULE LifecycleProofs ---------------------------
(***************************************************************************)
(* Proofs about VMs that come and go while they are run, for any runs, VMs *)
(* and hosts and any number of removals.                                   *)
(***************************************************************************)
EXTENDS Lifecycle, LaunchProofs

-----------------------------------------------------------------------------
(* To Launch a step of Lifecycle is a step of its own, a removal of files, *)
(* or a copy that lost its file.                                           *)
FilesGo == /\ UNCHANGED <<pc, vm, host, outcome, processes, fresh>>
           /\ \A v \in Vms : sock'[v] \in {sock[v], None}
           /\ sock' \in [Vms -> Runs \union {None}]

CopyLost(r) == /\ pc[r] = "copy_vars"
               /\ Goto(r, "tpm")
               /\ UNCHANGED <<vm, host, files, processes, fresh>>

LEMMA LifeSteps ==
  ASSUME sock \in [Vms -> Runs \union {None}], [LifeNext]_lifeVars
  PROVE  \/ [Next]_allVars
         \/ FilesGo
         \/ \E r \in Runs : CopyLost(r)
<1>1. CASE UNCHANGED lifeVars
  BY <1>1 DEF lifeVars
<1>2. ASSUME NEW v \in Vms, BeginCreate(v) \/ MakeVmDir(v) \/ Created(v) \/ CreateFails(v)
      PROVE  [Next]_allVars
  BY <1>2 DEF BeginCreate, MakeVmDir, Created, CreateFails
<1>3. ASSUME NEW v \in Vms, RemoveVm(v) PROVE FilesGo
  BY <1>3 DEF RemoveVm, FilesGo
<1>4. ASSUME NEW r \in Runs, LoadAndBegin(r) PROVE Next
  BY <1>4 DEF LoadAndBegin, Next, Begin
<1>5. ASSUME NEW r \in Runs, CopyVarsUnlinked(r) PROVE CopyLost(r)
  BY <1>5 DEF CopyVarsUnlinked, CopyLost
<1>6. ASSUME NEW r \in Runs,
             OpenVarsThere(r) \/ CopyVarsThere(r) \/ SpawnSwtpmAndDir(r) \/ SpawnSwtpmFailsWithDir(r)
               \/ BootsWithFiles(r) \/ GuestWrites(r)
      PROVE  Next
  BY <1>6 DEF OpenVarsThere, CopyVarsThere, SpawnSwtpmAndDir, SpawnSwtpmFailsWithDir,
              BootsWithFiles, GuestWrites, Next, LaunchStep, QemuStep
<1>7. ASSUME NEW r \in Runs, OtherLaunchStep(r) PROVE Next
  BY <1>7 DEF OtherLaunchStep, Next, LaunchStep, QemuStep
<1>8. ASSUME NEW r \in Runs, RunStep(r) PROVE Next \/ CopyLost(r)
  BY <1>5, <1>6, <1>7, <1>8 DEF RunStep
<1>9. QED BY <1>1, <1>2, <1>3, <1>4, <1>8 DEF LifeNext

-----------------------------------------------------------------------------
(* The launches' own invariants do not speak of files.                     *)
LEMMA PlacedInit == LifeInit => LaunchInv /\ Placed
  BY LaunchInit, PlacedFirst DEF LifeInit

LEMMA PlacedNext ==
  LaunchInv /\ Placed /\ [LifeNext]_lifeVars => LaunchInv' /\ Placed'
<1> SUFFICES ASSUME LaunchInv, Placed, [LifeNext]_lifeVars PROVE LaunchInv' /\ Placed'
  OBVIOUS
<1>1. CASE [Next]_allVars
  BY <1>1, LaunchNext, PlacedStep
<1>2. CASE FilesGo
  BY <1>2 DEF FilesGo, LaunchInv, Kinds, Checked, Owned, SwtpmAlive, HasTpm, Placed, SockType, processes
<1>3. ASSUME NEW r \in Runs, CopyLost(r) PROVE LaunchInv' /\ Placed'
  BY <1>3 DEF CopyLost, Goto, LaunchInv, Kinds, Checked, Owned, SwtpmAlive, HasTpm, Placed, SockType,
              Steps, files, processes
<1>4. QED BY <1>1, <1>2, <1>3, LifeSteps DEF Placed, SockType

(* Launch's first checks stay the last word on the host while VMs are      *)
(* created and removed beside it.                                          *)
THEOREM FirstChecksStillSuffice == LifeSpec => []ChecksSuffice
<1>1. LaunchInv => ChecksSuffice
  BY DEF LaunchInv, Checked, ChecksSuffice
<1>2. QED BY <1>1, PlacedInit, PlacedNext, PTL DEF LifeSpec

-----------------------------------------------------------------------------
(* Who takes a name.  A create is at work under a name that holds no VM.   *)
(* A run that has loaded a VM either has it still, whole as it was         *)
(* created, or was left behind by a removal.                               *)
Behind(r) == loaded[r] < removals[vm[r]]

StoreType == /\ vms \in [Vms -> {None, Claimed} \union {Config(v) : v \in Vms}]
             /\ creating \in [Vms -> BOOLEAN]
             /\ removals \in [Vms -> Nat]
             /\ loaded \in [Runs -> Nat]
             /\ failed \in [Vms -> BOOLEAN]

NamesInv == /\ StoreType
            /\ \A v \in Vms : creating[v] => vms[v] \in {None, Claimed}
            /\ \A r \in Runs : pc[r] # "start" =>
                 /\ loaded[r] <= removals[vm[r]]
                 /\ ~Behind(r) => vms[vm[r]] = Config(vm[r])
            /\ TakenNamesExplained

LEMMA NamesInit == LifeInit => NamesInv
  BY LifecycleAssumption DEF LifeInit, Init, Registry!Init, NamesInv, StoreType, TakenNamesExplained

(* A run's own steps, after it has loaded its VM, never change which VM it *)
(* works on.                                                               *)
LEMMA RunStepKeeps ==
  ASSUME Kinds, Placed, NEW r \in Runs, RunStep(r)
  PROVE  UNCHANGED <<vm, loaded>> /\ \A s \in Runs : pc'[s] = "start" <=> pc[s] = "start"
<1> USE DEF Kinds, Goto, End, files, processes
<1>1. CASE OpenVarsThere(r) \/ CopyVarsThere(r) \/ CopyVarsUnlinked(r)
  BY <1>1, RunStep(r) DEF RunStep, OpenVarsThere, CopyVarsThere, CopyVarsUnlinked, OpenVars, CopyVars
<1>2. CASE SpawnSwtpmAndDir(r) \/ SpawnSwtpmFailsWithDir(r)
  BY <1>2, RunStep(r) DEF RunStep, SpawnSwtpmAndDir, SpawnSwtpmFailsWithDir, SpawnSwtpm, SpawnSwtpmFails
<1>3. CASE BootsWithFiles(r) \/ GuestWrites(r)
  BY <1>3, RunStep(r) DEF RunStep, BootsWithFiles, GuestWrites, QemuBoots, GuestWritesVars
<1>4. CASE OtherLaunchStep(r)
  <2>1. UNCHANGED vm /\ \A s \in Runs : pc'[s] = "start" <=> pc[s] = "start"
    <3>1. CASE KeepVars(r) \/ NeedVars(r) \/ CopyVarsFails(r) \/ TpmNotWanted(r) \/ TpmRefused(r)
      BY <3>1 DEF KeepVars, NeedVars, CopyVarsFails, TpmNotWanted, TpmRefused
    <3>2. CASE SocketAppears(r) \/ SocketTimeout(r) \/ SpawnQemu(r) \/ SpawnQemuFails(r)
      BY <3>2 DEF SocketAppears, SocketTimeout, SpawnQemu, SpawnQemuFails
    <3>3. CASE RunningStep(r)
      BY <3>3 DEF RunningStep, WaitReturns, StopHelpers
    <3>4. CASE Caller(r) \/ Crash(r)
      BY <3>4 DEF Caller, Kill, Drop, Crash
    <3>5. CASE SwtpmStep(r) \/ QemuExits(r)
      BY <3>5 DEF SwtpmStep, SwtpmListens, SwtpmDies, QemuExits
    <3>6. QED BY <1>4, <3>1, <3>2, <3>3, <3>4, <3>5 DEF OtherLaunchStep
  <2>2. UNCHANGED loaded
    BY RunStep(r) DEF RunStep
  <2>3. QED BY <2>1, <2>2
<1>5. QED BY <1>1, <1>2, <1>3, <1>4, RunStep(r) DEF RunStep

LEMMA LoadsOne ==
  ASSUME NEW r \in Runs, LoadAndBegin(r)
  PROVE  \E v \in Vms, h \in Hosts, iso_there \in BOOLEAN :
           /\ Loads(v) /\ BeginLaunch(r, v, h, iso_there)
           /\ loaded' = [loaded EXCEPT ![r] = removals[v]]
  BY DEF LoadAndBegin

LEMMA NamesNext ==
  LaunchInv /\ Placed /\ NamesInv /\ [LifeNext]_lifeVars => NamesInv'
<1> SUFFICES ASSUME LaunchInv, Placed, NamesInv, [LifeNext]_lifeVars PROVE NamesInv'
  OBVIOUS
<1> USE LifecycleAssumption DEF Placed, NamesInv, StoreType, Behind, TakenNamesExplained, storeVars
<1>1. ASSUME NEW v \in Vms, BeginCreate(v) \/ MakeVmDir(v) \/ CreateFails(v) PROVE NamesInv'
  <2>1. CASE BeginCreate(v)
    <3>1. /\ vms[v] = None /\ creating' = [creating EXCEPT ![v] = TRUE]
          /\ UNCHANGED <<vms, pc, vm, removals, loaded, failed>>
      BY <2>1 DEF BeginCreate, Registry!Begin, allVars
    <3>2. QED BY <3>1
  <2>2. CASE MakeVmDir(v)
    <3>1. /\ creating[v] /\ vms[v] \in {None, Claimed} /\ vms' = [vms EXCEPT ![v] = Claimed]
          /\ UNCHANGED <<creating, pc, vm, removals, loaded, failed>>
      BY <2>2 DEF MakeVmDir, Registry!Claim, allVars
    <3>2. QED BY <3>1
  <2>3. CASE CreateFails(v)
    <3>1. /\ creating' = [creating EXCEPT ![v] = FALSE]
          /\ failed' = [failed EXCEPT ![v] = @ \/ Exists(v)]
          /\ UNCHANGED <<vms, pc, vm, removals, loaded>>
      BY <2>3 DEF CreateFails, Registry!Abandon, allVars
    <3>2. \A w \in Vms : /\ failed'[w] \in BOOLEAN
                         /\ failed[w] => failed'[w]
                         /\ creating[w] /\ vms[w] = Claimed => creating'[w] \/ failed'[w]
      BY <3>1 DEF Exists
    <3>3. QED BY <3>1, <3>2
  <2>4. QED BY <1>1, <2>1, <2>2, <2>3
<1>2. ASSUME NEW v \in Vms, Created(v) PROVE NamesInv'
  <2>1. /\ vms' = [vms EXCEPT ![v] = Config(v)]
        /\ creating' = [creating EXCEPT ![v] = FALSE]
        /\ UNCHANGED <<pc, vm, removals, loaded, failed>>
    BY <1>2 DEF Created, Registry!Publish, allVars
  <2>2. QED BY <2>1
<1>3. ASSUME NEW v \in Vms, RemoveVm(v) PROVE NamesInv'
  <2>1. /\ ~creating[v] /\ vms' = [vms EXCEPT ![v] = None]
        /\ removals' = [removals EXCEPT ![v] = @ + 1]
        /\ failed' = [failed EXCEPT ![v] = FALSE]
        /\ UNCHANGED <<pc, vm, creating, loaded>>
    BY <1>3 DEF RemoveVm, Registry!Remove
  <2>2. QED BY <2>1
<1>4. ASSUME NEW r \in Runs, LoadAndBegin(r) PROVE NamesInv'
  <2>1. PICK v \in Vms, h \in Hosts, iso_there \in BOOLEAN :
          /\ Loads(v) /\ BeginLaunch(r, v, h, iso_there)
          /\ loaded' = [loaded EXCEPT ![r] = removals[v]]
    BY <1>4, LoadsOne
  <2>2. /\ pc[r] = "start" /\ vm' = [vm EXCEPT ![r] = v] /\ vms[v] = Config(v)
        /\ \A s \in Runs : s # r => pc'[s] = pc[s]
        /\ UNCHANGED storeVars
    BY <1>4, <2>1 DEF LoadAndBegin, BeginLaunch, Loads, Goto, End, LaunchInv, Kinds
  <2>3. \A s \in Runs : s # r => vm'[s] = vm[s] /\ loaded'[s] = loaded[s]
    BY <2>1, <2>2 DEF LaunchInv, Kinds
  <2>4. vm'[r] = v /\ loaded'[r] = removals[v]
    BY <2>1, <2>2 DEF LaunchInv, Kinds
  <2>5. \A s \in Runs : s # r => (Behind(s)' <=> Behind(s))
    BY <2>2, <2>3
  <2>6. ~Behind(r)' /\ vm[r] = None
    BY <2>2, <2>4
  <2>7. TakenNamesExplained'
    BY <2>2, <2>3, <2>6, LaunchAssumption
  <2>8. QED BY <2>1, <2>2, <2>3, <2>4, <2>5, <2>7
<1>5. ASSUME NEW r \in Runs, RunStep(r) PROVE NamesInv'
  <2>1. UNCHANGED <<vm, loaded>> /\ \A s \in Runs : pc'[s] = "start" <=> pc[s] = "start"
    BY <1>5, RunStepKeeps DEF LaunchInv
  <2>2. CASE UNCHANGED storeVars
    BY <2>1, <2>2
  <2>3. CASE ~Exists(vm[r]) /\ pc[r] = "tpm" /\ vms' = [vms EXCEPT ![vm[r]] = Claimed]
               /\ UNCHANGED <<creating, removals, failed>>
    <3>1. vms[vm[r]] = None /\ vm[r] \in Vms /\ Behind(r)
      BY <2>3 DEF Exists
    <3>2. QED BY <2>1, <2>3, <3>1
  <2>4. UNCHANGED storeVars \/ /\ ~Exists(vm[r]) /\ pc[r] = "tpm"
                               /\ vms' = [vms EXCEPT ![vm[r]] = Claimed]
                               /\ UNCHANGED <<creating, removals, failed>>
    BY <1>5 DEF RunStep, OpenVarsThere, CopyVarsThere, CopyVarsUnlinked, SpawnSwtpmAndDir, SpawnSwtpm,
                SpawnSwtpmFailsWithDir, SpawnSwtpmFails, BootsWithFiles, GuestWrites, OtherLaunchStep
  <2>5. QED BY <2>2, <2>3, <2>4
<1>6. CASE UNCHANGED lifeVars
  BY <1>6 DEF lifeVars, allVars
<1>7. QED BY <1>1, <1>2, <1>3, <1>4, <1>5, <1>6 DEF LifeNext

(* Whatever creates fail or are killed and wherever VMs are removed under  *)
(* a launch, a directory that holds no VM has a create at work on it, or   *)
(* one that failed there since, or a run that loaded the VM before it was  *)
(* removed: a launch of a VM that is there never leaves a name taken.      *)
THEOREM NamesTakenForAReason == LifeSpec => []TakenNamesExplained
<1>1. NamesInv => TakenNamesExplained
  BY DEF NamesInv
<1>2. QED BY <1>1, PlacedInit, PlacedNext, NamesInit, NamesNext, PTL DEF LifeSpec

-----------------------------------------------------------------------------
LEMMA StrayNext ==
  ~Overlapping /\ LaunchInv /\ Placed /\ StrayInv /\ [LifeNext]_lifeVars => StrayInv'
<1> SUFFICES ASSUME ~Overlapping, LaunchInv, Placed, StrayInv, [LifeNext]_lifeVars PROVE StrayInv'
  OBVIOUS
<1>1. CASE [Next]_allVars
  BY <1>1, StrayStep
<1>2. CASE FilesGo
  BY <1>2, StrayStays DEF FilesGo, processes, StrayInv, Busy, Active, QemuAlive
<1>3. ASSUME NEW r \in Runs, CopyLost(r) PROVE StrayInv'
  BY <1>3, StrayStays DEF CopyLost, Goto, files, processes, StrayInv, Busy, Active, QemuAlive,
                          LaunchInv, Kinds
<1>4. QED BY <1>1, <1>2, <1>3, LifeSteps DEF Placed, SockType

(* When runs of one VM do not overlap, a guest's TPM is its own run's or   *)
(* one that a launch that failed or was killed has left, however often the *)
(* VM was removed and made anew in between.                                *)
THEOREM NoTpmOfAFinishedRun == ~Overlapping => (LifeSpec => []OwnTpmOrStray)
<1> SUFFICES ASSUME ~Overlapping PROVE LifeSpec => []OwnTpmOrStray
  OBVIOUS
<1>1. LifeInit => StrayInv
  BY StrayFirst DEF LifeInit
<1>2. LaunchInv /\ Placed /\ StrayInv /\ [LifeNext]_lifeVars => StrayInv'
  BY StrayNext
<1>3. StrayInv => OwnTpmOrStray
  BY DEF StrayInv
<1>4. QED BY <1>1, <1>2, <1>3, PlacedInit, PlacedNext, PTL DEF LifeSpec
=============================================================================
