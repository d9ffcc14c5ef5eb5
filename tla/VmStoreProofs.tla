--------------------------- MODULE VmStoreProofs ---------------------------
(***************************************************************************)
(* Proofs about VmStore, for any clients, names, requests and edits, and   *)
(* that it implements VmRegistry.                                          *)
(***************************************************************************)
EXTENDS VmStoreRegistry, TLAPS

(* A client at work on a VM knows which: its target is a name, and while   *)
(* it creates one, it has the configuration that was asked for.            *)
Bound ==
  \A c \in Clients :
    /\ pc[c] = "load" => target[c] \in Names
    /\ pc[c] \in CreateSteps => target[c] \in Names /\ want[c] \in Requested

TypeInv == TypeOK /\ Bound

-----------------------------------------------------------------------------
(* Type correctness.                                                       *)

LEMMA TypeInit == Init => TypeInv
  BY DEF Init, TypeInv, TypeOK, Bound, Contents, Steps, Results, Disks, CreateSteps

(* Each step of a create keeps the types.                                  *)
LEMMA TypeCreateStep ==
  ASSUME TypeInv, NEW c \in Clients, CreateStep(c)
  PROVE  TypeInv'
<1> USE DEF TypeInv, TypeOK, Bound, Steps, CreateSteps, Results, Refusals, Failures,
            Disks, store, listing, ghosts, Goto, Return, Fault
<1>1. CASE MakeDir(c) \/ MakeDirFails(c)
  <2>1. CASE MakeDir(c)
    BY <2>1 DEF MakeDir
  <2>2. CASE MakeDirFails(c)
    BY <2>2 DEF MakeDirFails
  <2>3. QED BY <1>1, <2>1, <2>2
<1>2. CASE FindDisk(c) \/ FindNoDisk(c)
  <2>1. CASE FindDisk(c)
    BY <2>1 DEF FindDisk
  <2>2. CASE FindNoDisk(c)
    BY <2>2 DEF FindNoDisk
  <2>3. QED BY <1>2, <2>1, <2>2
<1>3. CASE SpawnQemuImgFails(c)
  BY <1>3 DEF SpawnQemuImgFails
<1>4. CASE QemuImgTruncates(c) \/ QemuImgExits(c) \/ QemuImgFails(c)
  <2>1. disk' \in [Names -> Disks]
    BY <1>4 DEF QemuImgTruncates, QemuImgExits, QemuImgFails
  <2>2. CASE QemuImgTruncates(c)
    BY <2>1, <2>2 DEF QemuImgTruncates
  <2>3. CASE QemuImgExits(c)
    BY <2>1, <2>3 DEF QemuImgExits
  <2>4. CASE QemuImgFails(c)
    BY <2>1, <2>4 DEF QemuImgFails
  <2>5. QED BY <1>4, <2>2, <2>3, <2>4
<1>5. CASE SaveRefused(c) \/ SaveFails(c)
  <2>1. CASE SaveRefused(c)
    BY <2>1 DEF SaveRefused
  <2>2. CASE SaveFails(c)
    <3>1. pc[c] \in {"save", "write"}
      BY <2>2 DEF SaveFails
    <3>2. target[c] \in Names
      BY <3>1
    <3>3. faulted' \in [Names -> BOOLEAN]
      BY <2>2, <3>2 DEF SaveFails
    <3>4. QED BY <2>2, <3>1, <3>3 DEF SaveFails
  <2>3. QED BY <1>5, <2>1, <2>2
<1>6. CASE SaveTruncates(c)
  <2>1. EmptyFile \in Contents
    BY DEF Contents
  <2>2. QED BY <1>6, <2>1 DEF SaveTruncates
<1>7. CASE SaveWrites(c)
  <2>1. Toml(ToToml(want[c])) \in Contents
    BY <1>7 DEF SaveWrites, Contents
  <2>2. QED BY <1>7, <2>1 DEF SaveWrites
<1>8. QED BY <1>1, <1>2, <1>3, <1>4, <1>5, <1>6, <1>7 DEF CreateStep

LEMMA TypeNext == TypeInv /\ [Next]_vars => TypeInv'
<1> SUFFICES ASSUME TypeInv, [Next]_vars PROVE TypeInv'
  OBVIOUS
<1> USE DEF TypeInv, TypeOK, Bound, Steps, CreateSteps, Results, Refusals, Failures,
            Disks, store, listing, ghosts, Goto, Return, Fault
<1>1. ASSUME NEW c \in Clients, Begin(c) PROVE TypeInv'
  <2>1. CASE \E cf \in Requested, qemu_img \in BOOLEAN :
               RefuseCreate(c, cf, qemu_img) \/ AdmitCreate(c, cf, qemu_img)
    BY <2>1, StoreAssumption DEF RefuseCreate, AdmitCreate, CreateError
  <2>2. CASE \E n \in Names : NoSuchVm(c, n) \/ BeginLoad(c, n)
    <3>1. ASSUME NEW n \in Names, NoSuchVm(c, n) PROVE TypeInv'
      BY <3>1 DEF NoSuchVm
    <3>2. ASSUME NEW n \in Names, BeginLoad(c, n) PROVE TypeInv'
      BY <3>2 DEF BeginLoad
    <3>3. QED BY <2>2, <3>1, <3>2
  <2>3. CASE BeginList(c)
    BY <2>3 DEF BeginList
  <2>4. QED BY <1>1, <2>1, <2>2, <2>3 DEF Begin
<1>2. ASSUME NEW c \in Clients, CreateStep(c) PROVE TypeInv'
  BY <1>2, TypeCreateStep
<1>3. ASSUME NEW c \in Clients, ReadStep(c) PROVE TypeInv'
  <2>1. CASE ReadConfig(c)
    BY <2>1 DEF ReadConfig, LoadResult
  <2>2. CASE ListLoads(c)
    BY <2>2 DEF ListLoads
  <2>3. CASE EndList(c) \/ Report(c)
    BY <2>3 DEF EndList, Report
  <2>4. QED BY <1>3, <2>1, <2>2, <2>3 DEF ReadStep
<1>4. ASSUME NEW c \in Clients, Crash(c) PROVE TypeInv'
  <2>1. disk' \in [Names -> Disks]
    BY <1>4 DEF Crash
  <2>2. faulted' \in [Names -> BOOLEAN] /\ created' = created
    BY <1>4 DEF Crash
  <2>3. QED BY <1>4, <2>1, <2>2 DEF Crash
<1>5. CASE Outside
  <2>1. ASSUME NEW n \in Names, GuestRuns(n) PROVE TypeInv'
    BY <2>1 DEF GuestRuns
  <2>2. ASSUME NEW n \in Names, NEW content \in Edits, EditConfig(n, content) PROVE TypeInv'
    BY <2>2 DEF EditConfig, Disown, Contents
  <2>3. ASSUME NEW n \in Names, RemoveVm(n) PROVE TypeInv'
    BY <2>3 DEF RemoveVm, Disown, Contents
  <2>4. ASSUME NEW n \in Names, NEW m \in Names, CopyVm(n, m) PROVE TypeInv'
    BY <2>4 DEF CopyVm
  <2>5. QED BY <1>5, <2>1, <2>2, <2>3, <2>4 DEF Outside
<1>6. CASE UNCHANGED vars
  BY <1>6 DEF vars
<1>7. QED BY <1>1, <1>2, <1>3, <1>4, <1>5, <1>6 DEF Next

(* Every variable of the store keeps its type, whatever the clients, the   *)
(* user and the guests do: config.toml only ever holds what create writes, *)
(* what a user puts there, or nothing.                                     *)
THEOREM TypeCorrect == Spec => []TypeOK
<1>1. TypeInv => TypeOK
  BY DEF TypeInv
<1>2. QED BY <1>1, TypeInit, TypeNext, PTL DEF Spec

-----------------------------------------------------------------------------
(* The disk comes before the configuration.                                *)
(*                                                                         *)
(* As long as creates of one VM do not overlap, a create is alone at work  *)
(* on its VM, so what it found out about the disk stays true until it acts *)
(* on it, and each of its steps finds the disk the step before it left.    *)

Alone == \A c, d \in Clients :
  pc[c] \in CreateSteps /\ pc[d] \in CreateSteps /\ target[c] = target[d] => c = d

Stage == \A c \in Clients :
           /\ pc[c] = "qemu_img" => disk[target[c]] = "none"
           /\ pc[c] = "qemu_img_running" => disk[target[c]] = "partial"
           /\ pc[c] \in {"save", "write"} => disk[target[c]] = "blank"

DiskFirst == \A n \in Names : config[n] # NoFile => disk[n] \in {"blank", "guest"}

DiskInv == TypeInv /\ Alone /\ Stage /\ DiskFirst

(* One fact about file contents: what loads is a file that is there.       *)
LEMMA ReadyIsThere == \A n : Ready(n) => config[n] # NoFile
  BY DEF Ready, Loadable, NoFile

LEMMA DiskInit == Init => DiskInv
<1> SUFFICES ASSUME Init PROVE DiskInv
  OBVIOUS
<1>1. \A c \in Clients : pc[c] = "idle"
  BY DEF Init
<1>2. \A n \in Names : config[n] = NoFile
  BY DEF Init
<1>3. QED BY <1>1, <1>2, TypeInit DEF DiskInv, Alone, Stage, DiskFirst, CreateSteps

(* A call that ends with the files as they are, or a qemu-img that leaves  *)
(* its own image in any state, disturbs no other client's work.            *)
LEMMA DiskLeave ==
  ASSUME DiskInv, TypeInv', NEW c \in Clients,
         NEW step \in {"idle", "report"}, pc' = [pc EXCEPT ![c] = step],
         target' = [target EXCEPT ![c] = Absent],
         config' = config,
         \/ disk' = disk
         \/ /\ pc[c] = "qemu_img_running"
            /\ \E left \in Disks : disk' = [disk EXCEPT ![target[c]] = left]
  PROVE  DiskInv'
<1> USE DEF DiskInv, TypeInv, TypeOK
<1>1. /\ pc'[c] \notin CreateSteps
      /\ \A d \in Clients : d # c => pc'[d] = pc[d] /\ target'[d] = target[d]
  BY DEF CreateSteps
<1>2. Alone'
  BY <1>1 DEF Alone
<1>3. ASSUME NEW d \in Clients, d # c, pc[d] \in CreateSteps
      PROVE  disk'[target[d]] = disk[target[d]]
  <2>1. CASE disk' = disk
    BY <2>1
  <2>2. CASE pc[c] = "qemu_img_running"
    <3>1. target[d] # target[c] /\ target[d] \in Names
      BY <1>3, <2>2 DEF Alone, Bound, CreateSteps
    <3>2. QED BY <3>1
  <2>3. QED BY <2>1, <2>2
<1>4. Stage'
  BY <1>1, <1>3 DEF Stage, CreateSteps
<1>5. DiskFirst'
  <2>1. ASSUME pc[c] = "qemu_img_running" PROVE config[target[c]] = NoFile
    BY <2>1 DEF Stage, DiskFirst, Bound, CreateSteps
  <2>2. QED BY <2>1 DEF DiskFirst
<1>6. QED BY <1>2, <1>4, <1>5

LEMMA DiskCreateStep ==
  ASSUME DiskInv, TypeInv', NEW c \in Clients, CreateStep(c)
  PROVE  DiskInv'
<1> USE DEF DiskInv, TypeInv, TypeOK, Bound, Alone, Stage, DiskFirst, CreateSteps,
            store, listing, ghosts, Goto, Return, Fault
<1>1. CASE MakeDir(c)
  BY <1>1 DEF MakeDir
<1>2. CASE MakeDirFails(c) \/ FindDisk(c)
  BY <1>2, DiskLeave DEF MakeDirFails, FindDisk
<1>3. CASE FindNoDisk(c)
  BY <1>3 DEF FindNoDisk, Present
<1>4. CASE SpawnQemuImgFails(c)
  BY <1>4, DiskLeave DEF SpawnQemuImgFails
<1>5. CASE QemuImgTruncates(c)
  BY <1>5 DEF QemuImgTruncates
<1>6. CASE QemuImgExits(c)
  BY <1>6 DEF QemuImgExits
<1>7. CASE QemuImgFails(c)
  BY <1>7, DiskLeave DEF QemuImgFails, Disks
<1>8. CASE SaveRefused(c) \/ SaveFails(c)
  BY <1>8, DiskLeave DEF SaveRefused, SaveFails
<1>9. CASE SaveTruncates(c)
  BY <1>9 DEF SaveTruncates
<1>10. CASE SaveWrites(c)
  BY <1>10 DEF SaveWrites
<1>11. QED BY <1>1, <1>2, <1>3, <1>4, <1>5, <1>6, <1>7, <1>8, <1>9, <1>10 DEF CreateStep

LEMMA DiskNext == ~Overlapping /\ DiskInv /\ [Next]_vars => DiskInv'
<1> SUFFICES ASSUME ~Overlapping, DiskInv, [Next]_vars PROVE DiskInv'
  OBVIOUS
<1>0. TypeInv'
  BY TypeNext DEF DiskInv
<1> USE <1>0 DEF DiskInv, TypeInv, TypeOK, Bound, Alone, Stage, DiskFirst, CreateSteps,
                 Free, Creating, store, listing, ghosts, Goto, Return, Fault
<1>1. ASSUME NEW c \in Clients, Begin(c) PROVE DiskInv'
  <2>1. ASSUME NEW cf \in Requested, NEW qemu_img \in BOOLEAN,
               RefuseCreate(c, cf, qemu_img)
        PROVE  DiskInv'
    BY <2>1 DEF RefuseCreate
  <2>2. ASSUME NEW cf \in Requested, NEW qemu_img \in BOOLEAN,
               AdmitCreate(c, cf, qemu_img)
        PROVE  DiskInv'
    <3>1. \A d \in Clients : pc[d] \in CreateSteps => target[d] # cf.name
      BY <2>2 DEF AdmitCreate
    <3>2. QED BY <2>2, <3>1 DEF AdmitCreate
  <2>3. CASE \E n \in Names : NoSuchVm(c, n) \/ BeginLoad(c, n)
    BY <2>3 DEF NoSuchVm, BeginLoad
  <2>4. CASE BeginList(c)
    BY <2>4 DEF BeginList
  <2>5. QED BY <1>1, <2>1, <2>2, <2>3, <2>4 DEF Begin
<1>2. ASSUME NEW c \in Clients, CreateStep(c) PROVE DiskInv'
  BY <1>0, <1>2, DiskCreateStep
<1>3. ASSUME NEW c \in Clients, ReadStep(c) PROVE DiskInv'
  <2>1. CASE ReadConfig(c)
    BY <2>1 DEF ReadConfig, LoadResult
  <2>2. CASE ListLoads(c)
    BY <2>2 DEF ListLoads
  <2>3. CASE EndList(c)
    BY <2>3 DEF EndList
  <2>4. CASE Report(c)
    BY <2>4 DEF Report
  <2>5. QED BY <1>3, <2>1, <2>2, <2>3, <2>4 DEF ReadStep
<1>4. ASSUME NEW c \in Clients, Crash(c) PROVE DiskInv'
  <2>1. /\ pc' = [pc EXCEPT ![c] = "idle"]
        /\ target' = [target EXCEPT ![c] = Absent]
        /\ config' = config
    BY <1>4 DEF Crash
  <2>2. \/ disk' = disk
        \/ /\ pc[c] = "qemu_img_running"
           /\ \E left \in Disks : disk' = [disk EXCEPT ![target[c]] = left]
    BY <1>4 DEF Crash, Disks
  <2>3. QED BY <1>0, <2>1, <2>2, DiskLeave
<1>5. CASE Outside
  <2>1. ASSUME NEW n \in Names, GuestRuns(n) PROVE DiskInv'
    BY <2>1 DEF GuestRuns
  <2>2. ASSUME NEW n \in Names, NEW content \in Edits, EditConfig(n, content) PROVE DiskInv'
    BY <2>2 DEF EditConfig, Disown
  <2>3. ASSUME NEW n \in Names, RemoveVm(n) PROVE DiskInv'
    BY <2>3 DEF RemoveVm, Disown
  <2>4. ASSUME NEW n \in Names, NEW m \in Names, CopyVm(n, m) PROVE DiskInv'
    BY <2>4 DEF CopyVm
  <2>5. QED BY <1>5, <2>1, <2>2, <2>3, <2>4 DEF Outside
<1>6. CASE UNCHANGED vars
  BY <1>6 DEF vars
<1>7. QED BY <1>1, <1>2, <1>3, <1>4, <1>5, <1>6 DEF Next

(* When creates of one VM do not overlap, a VM that loads has a finished   *)
(* disk image, however many clients there are and wherever they die.       *)
THEOREM LoadedVmHasDisk == ~Overlapping => (Spec => []ReadyHasDisk)
<1> SUFFICES ASSUME ~Overlapping PROVE Spec => []ReadyHasDisk
  OBVIOUS
<1>1. DiskInv => ReadyHasDisk
  BY ReadyIsThere DEF DiskInv, DiskFirst, ReadyHasDisk
<1>2. DiskInv /\ [Next]_vars => DiskInv'
  BY DiskNext
<1>3. QED BY <1>1, <1>2, DiskInit, PTL DEF Spec

-----------------------------------------------------------------------------
(* A guest's disk is never overwritten.                                    *)

(* Images are only found in directories, and a create past mkdir has its   *)
(* directory: nobody removes a VM that is being created.                   *)
Housed == /\ \A n \in Names : disk[n] # "none" => dir[n]
          /\ \A c \in Clients : pc[c] \in CreateSteps \ {"mkdir"} => dir[target[c]]

LEMMA HousedInit == Init => Housed
  BY DEF Init, Housed, CreateSteps

LEMMA HousedNext == TypeInv /\ Housed /\ [Next]_vars => Housed'
<1> SUFFICES ASSUME TypeInv, Housed, [Next]_vars PROVE Housed'
  OBVIOUS
<1> USE DEF TypeInv, TypeOK, Bound, Housed, CreateSteps, Creating,
            store, listing, ghosts, Goto, Return, Fault
<1>1. ASSUME NEW c \in Clients, Begin(c) PROVE Housed'
  BY <1>1 DEF Begin, RefuseCreate, AdmitCreate, NoSuchVm, BeginLoad, BeginList
<1>2. ASSUME NEW c \in Clients, CreateStep(c) PROVE Housed'
  <2>1. CASE MakeDir(c) \/ MakeDirFails(c) \/ FindDisk(c) \/ FindNoDisk(c)
    BY <2>1 DEF MakeDir, MakeDirFails, FindDisk, FindNoDisk
  <2>2. CASE SpawnQemuImgFails(c) \/ QemuImgTruncates(c) \/ QemuImgExits(c)
    BY <2>2 DEF SpawnQemuImgFails, QemuImgTruncates, QemuImgExits
  <2>3. CASE QemuImgFails(c)
    BY <2>3 DEF QemuImgFails
  <2>4. CASE SaveRefused(c) \/ SaveTruncates(c) \/ SaveWrites(c) \/ SaveFails(c)
    BY <2>4 DEF SaveRefused, SaveTruncates, SaveWrites, SaveFails
  <2>5. QED BY <1>2, <2>1, <2>2, <2>3, <2>4 DEF CreateStep
<1>3. ASSUME NEW c \in Clients, ReadStep(c) PROVE Housed'
  BY <1>3 DEF ReadStep, ReadConfig, ListLoads, EndList, Report
<1>4. ASSUME NEW c \in Clients, Crash(c) PROVE Housed'
  BY <1>4 DEF Crash
<1>5. CASE Outside
  <2>1. ASSUME NEW n \in Names, GuestRuns(n) PROVE Housed'
    BY <2>1 DEF GuestRuns
  <2>2. ASSUME NEW n \in Names, NEW content \in Edits, EditConfig(n, content) PROVE Housed'
    BY <2>2 DEF EditConfig
  <2>3. ASSUME NEW n \in Names, RemoveVm(n) PROVE Housed'
    BY <2>3 DEF RemoveVm
  <2>4. ASSUME NEW n \in Names, NEW m \in Names, CopyVm(n, m) PROVE Housed'
    BY <2>4 DEF CopyVm
  <2>5. QED BY <1>5, <2>1, <2>2, <2>3, <2>4 DEF Outside
<1>6. CASE UNCHANGED vars
  BY <1>6 DEF vars
<1>7. QED BY <1>1, <1>2, <1>3, <1>4, <1>5, <1>6 DEF Next

(* The step: whoever changes an image found no guest's disk there.         *)
Kept == \A n \in Names : disk[n] = "guest" => disk'[n] = "guest" \/ ~dir'[n]

LEMMA DiskKept == DiskInv /\ Housed /\ [Next]_vars => Kept
<1> SUFFICES ASSUME DiskInv, Housed, [Next]_vars PROVE Kept
  OBVIOUS
<1> USE DEF DiskInv, TypeInv, TypeOK, Bound, Housed, Kept, store
<1>1. ASSUME NEW c \in Clients, Begin(c) PROVE Kept
  BY <1>1 DEF Begin, RefuseCreate, AdmitCreate, NoSuchVm, BeginLoad, BeginList
<1>2. ASSUME NEW c \in Clients, CreateStep(c) PROVE Kept
  <2>1. CASE QemuImgTruncates(c) \/ QemuImgExits(c) \/ QemuImgFails(c)
    <3>1. target[c] \in Names /\ disk[target[c]] # "guest"
      BY <2>1 DEF QemuImgTruncates, QemuImgExits, QemuImgFails, Stage, CreateSteps
    <3>2. \A n \in Names : n # target[c] => disk'[n] = disk[n]
      BY <2>1, <3>1 DEF QemuImgTruncates, QemuImgExits, QemuImgFails
    <3>3. QED BY <3>1, <3>2
  <2>2. CASE MakeDir(c) \/ MakeDirFails(c) \/ FindDisk(c) \/ FindNoDisk(c)
    BY <2>2 DEF MakeDir, MakeDirFails, FindDisk, FindNoDisk
  <2>3. CASE SpawnQemuImgFails(c) \/ SaveRefused(c) \/ SaveTruncates(c)
             \/ SaveWrites(c) \/ SaveFails(c)
    BY <2>3 DEF SpawnQemuImgFails, SaveRefused, SaveTruncates, SaveWrites, SaveFails
  <2>4. QED BY <1>2, <2>1, <2>2, <2>3 DEF CreateStep
<1>3. ASSUME NEW c \in Clients, ReadStep(c) PROVE Kept
  BY <1>3 DEF ReadStep, ReadConfig, ListLoads, EndList, Report
<1>4. ASSUME NEW c \in Clients, Crash(c) PROVE Kept
  BY <1>4 DEF Crash, Stage, CreateSteps
<1>5. CASE Outside
  BY <1>5 DEF Outside, GuestRuns, EditConfig, RemoveVm, CopyVm
<1>6. CASE UNCHANGED vars
  BY <1>6 DEF vars
<1>7. QED BY <1>1, <1>2, <1>3, <1>4, <1>5, <1>6 DEF Next

(* When creates of one VM do not overlap, no create lets qemu-img truncate *)
(* a disk that a guest has written to.                                     *)
THEOREM GuestDiskKept == ~Overlapping => (Spec => DiskNeverOverwritten)
<1> SUFFICES ASSUME ~Overlapping PROVE Spec => DiskNeverOverwritten
  OBVIOUS
<1>1. DiskInv /\ Housed => TypeInv
  BY DEF DiskInv
<1>2. DiskInv /\ [Next]_vars => DiskInv'
  BY DiskNext
<1>3. DiskInv /\ Housed /\ [Next]_vars
        => [\A n \in Names : disk[n] = "guest" => disk'[n] = "guest" \/ ~dir'[n]]_vars
  BY DiskKept DEF Kept
<1>4. QED BY <1>1, <1>2, <1>3, DiskInit, HousedInit, HousedNext, PTL
          DEF Spec, DiskNeverOverwritten
-----------------------------------------------------------------------------
(* A promise is kept.                                                      *)

(* Writing a configuration and reading it back changes nothing: the only   *)
(* field that is left out is the one whose default says there is none      *)
(* (to_toml, from_toml).                                                   *)
THEOREM RoundTrip ==
  ASSUME NEW cf \in VmConfigs
  PROVE  Parsed(ToToml(cf)) = cf
<1>1. \A f \in Fields : Parsed(ToToml(cf))[f] = cf[f]
  BY DEF Parsed, ToToml, Written, Fields, Defaults, VmConfigs
<1>2. DOMAIN cf = Fields /\ cf = [f \in Fields |-> cf[f]]
  BY DEF VmConfigs, Fields
<1>3. Parsed(ToToml(cf)) = [f \in Fields |-> Parsed(ToToml(cf))[f]]
  BY DEF Parsed
<1>4. QED BY <1>1, <1>2, <1>3

LEMMA WrittenLoads ==
  ASSUME NEW cf \in VmConfigs, Valid(cf)
  PROVE  Loadable(Toml(ToToml(cf)))
<1>1. "name" \in DOMAIN ToToml(cf)
  BY DEF ToToml, Written, Fields
<1>2. QED BY <1>1, RoundTrip DEF Loadable, Toml

(* A promise is only made of a directory, and the file that carries it is  *)
(* the one create wrote.  A create at work has checked its configuration,  *)
(* and its VM is promised to nobody: its directory was not there.          *)
Promise ==
  /\ \A n \in Names : created[n] # Absent =>
       /\ dir[n]
       /\ Valid(created[n])
       /\ config[n] = Toml(ToToml(created[n]))
  /\ \A c \in Clients : pc[c] \in CreateSteps =>
       created[target[c]] = Absent /\ Valid(want[c])

LEMMA PromiseInit == Init => Promise
  BY DEF Init, Promise, CreateSteps

LEMMA PromiseCreateStep ==
  ASSUME TypeInv, Alone, Housed, Promise, NEW c \in Clients, CreateStep(c)
  PROVE  Promise'
<1> USE DEF TypeInv, TypeOK, Bound, Alone, Promise, CreateSteps,
            store, listing, ghosts, Goto, Return, Fault
<1>1. CASE MakeDir(c) \/ MakeDirFails(c)
  BY <1>1 DEF MakeDir, MakeDirFails
<1>2. CASE FindDisk(c) \/ FindNoDisk(c)
  BY <1>2 DEF FindDisk, FindNoDisk
<1>3. CASE SpawnQemuImgFails(c) \/ QemuImgTruncates(c) \/ QemuImgExits(c)
  BY <1>3 DEF SpawnQemuImgFails, QemuImgTruncates, QemuImgExits
<1>4. CASE QemuImgFails(c)
  BY <1>4 DEF QemuImgFails
<1>5. CASE SaveRefused(c) \/ SaveFails(c)
  BY <1>5 DEF SaveRefused, SaveFails
<1>6. CASE SaveTruncates(c)
  BY <1>6 DEF SaveTruncates
<1>7. CASE SaveWrites(c)
  <2>1. target[c] \in Names /\ dir[target[c]] /\ Valid(want[c])
    BY <1>7 DEF SaveWrites, Housed
  <2>2. \A n \in Names : n # target[c] =>
          created'[n] = created[n] /\ config'[n] = config[n] /\ dir'[n] = dir[n]
    BY <1>7, <2>1 DEF SaveWrites
  <2>3. \A n \in Names : created'[n] # Absent =>
          /\ dir'[n]
          /\ Valid(created'[n])
          /\ config'[n] = Toml(ToToml(created'[n]))
    BY <1>7, <2>1, <2>2 DEF SaveWrites
  <2>4. ASSUME NEW d \in Clients, pc'[d] \in CreateSteps
        PROVE  created'[target'[d]] = Absent /\ Valid(want'[d])
    <3>1. d # c /\ pc[d] \in CreateSteps /\ target'[d] = target[d] /\ want'[d] = want[d]
      BY <1>7, <2>4 DEF SaveWrites
    <3>2. target[d] # target[c] /\ target[d] \in Names
      BY <1>7, <3>1 DEF SaveWrites
    <3>3. QED BY <2>2, <3>1, <3>2
  <2>5. QED BY <2>3, <2>4
<1>8. QED BY <1>1, <1>2, <1>3, <1>4, <1>5, <1>6, <1>7 DEF CreateStep

LEMMA PromiseNext ==
  ~Overlapping /\ DiskInv /\ Housed /\ Promise /\ [Next]_vars => Promise'
<1> SUFFICES ASSUME ~Overlapping, DiskInv, Housed, Promise, [Next]_vars PROVE Promise'
  OBVIOUS
<1> USE DEF DiskInv, TypeInv, TypeOK, Bound, Alone, Promise, CreateSteps,
            Free, Creating, store, listing, ghosts, Goto, Return, Fault
<1>1. ASSUME NEW c \in Clients, Begin(c) PROVE Promise'
  <2>1. ASSUME NEW cf \in Requested, NEW qemu_img \in BOOLEAN,
               RefuseCreate(c, cf, qemu_img)
        PROVE  Promise'
    BY <2>1 DEF RefuseCreate
  <2>2. ASSUME NEW cf \in Requested, NEW qemu_img \in BOOLEAN,
               AdmitCreate(c, cf, qemu_img)
        PROVE  Promise'
    <3>1. Valid(cf) /\ ~dir[cf.name] /\ cf.name \in Names
      BY <2>2, StoreAssumption DEF AdmitCreate, CreateError, Present
    <3>2. created[cf.name] = Absent
      BY <3>1
    <3>3. QED BY <2>2, <3>1, <3>2 DEF AdmitCreate
  <2>3. CASE \E n \in Names : NoSuchVm(c, n) \/ BeginLoad(c, n)
    BY <2>3 DEF NoSuchVm, BeginLoad
  <2>4. CASE BeginList(c)
    BY <2>4 DEF BeginList
  <2>5. QED BY <1>1, <2>1, <2>2, <2>3, <2>4 DEF Begin
<1>2. ASSUME NEW c \in Clients, CreateStep(c) PROVE Promise'
  BY <1>2, PromiseCreateStep
<1>3. ASSUME NEW c \in Clients, ReadStep(c) PROVE Promise'
  BY <1>3 DEF ReadStep, ReadConfig, LoadResult, ListLoads, EndList, Report
<1>4. ASSUME NEW c \in Clients, Crash(c) PROVE Promise'
  BY <1>4 DEF Crash
<1>5. CASE Outside
  <2>1. ASSUME NEW n \in Names, GuestRuns(n) PROVE Promise'
    BY <2>1 DEF GuestRuns
  <2>2. ASSUME NEW n \in Names, NEW content \in Edits, EditConfig(n, content) PROVE Promise'
    BY <2>2 DEF EditConfig, Disown
  <2>3. ASSUME NEW n \in Names, RemoveVm(n) PROVE Promise'
    BY <2>3 DEF RemoveVm, Disown
  <2>4. ASSUME NEW n \in Names, NEW m \in Names, CopyVm(n, m) PROVE Promise'
    BY <2>4 DEF CopyVm
  <2>5. QED BY <1>5, <2>1, <2>2, <2>3, <2>4 DEF Outside
<1>6. CASE UNCHANGED vars
  BY <1>6 DEF vars
<1>7. QED BY <1>1, <1>2, <1>3, <1>4, <1>5, <1>6 DEF Next

LEMMA PromisedLoads ==
  ASSUME TypeInv, Promise, NEW n \in Names, created[n] # Absent
  PROVE  Ready(n) /\ Parsed(config[n].doc) = created[n]
<1>1. created[n] \in VmConfigs /\ Valid(created[n])
  BY StoreAssumption DEF TypeInv, TypeOK, Promise
<1>2. config[n] = Toml(ToToml(created[n]))
  BY DEF Promise
<1>3. QED BY <1>1, <1>2, RoundTrip, WrittenLoads DEF Ready, Toml

(* When creates of one VM do not overlap, what create promised is what     *)
(* every later load returns, field by field, until the user edits or       *)
(* removes the VM: through copies, crashes, other creates and guests.      *)
THEOREM PromiseKept == ~Overlapping => (Spec => []LoadsAsCreated)
<1> SUFFICES ASSUME ~Overlapping PROVE Spec => []LoadsAsCreated
  OBVIOUS
<1>1. DiskInv /\ Promise => LoadsAsCreated
  BY PromisedLoads DEF DiskInv, LoadsAsCreated
<1>2. DiskInv /\ [Next]_vars => DiskInv'
  BY DiskNext
<1>3. DiskInv /\ Housed /\ [Next]_vars => Housed'
  BY HousedNext DEF DiskInv
<1>4. DiskInv /\ Housed /\ Promise /\ [Next]_vars => Promise'
  BY PromiseNext
<1>5. QED BY <1>1, <1>2, <1>3, <1>4, DiskInit, HousedInit, PromiseInit, PTL DEF Spec

-----------------------------------------------------------------------------
(* A list leaves no promised VM out.                                       *)

(* What a list still owes is promised, so it loads, and nobody but the     *)
(* list itself takes a name from what it has still to load.                *)
Owed == \A c \in Clients : pc[c] = "list" =>
          /\ \A n \in owed[c] : n \in Names /\ created[n] # Absent
          /\ owed[c] \subseteq shown[c] \union todo[c]

LEMMA OwedInit == Init => Owed
  BY DEF Init, Owed

LEMMA OwedNext ==
  DiskInv /\ Promise /\ Owed /\ [Next]_vars => Owed'
<1> SUFFICES ASSUME DiskInv, Promise, Owed, [Next]_vars PROVE Owed'
  OBVIOUS
<1>0. TypeInv
  BY DEF DiskInv
<1> USE DEF Owed, TypeInv, TypeOK, Bound, CreateSteps,
            store, listing, ghosts, Goto, Return, Fault
<1>1. ASSUME NEW c \in Clients, Begin(c) PROVE Owed'
  <2>1. CASE \E cf \in Requested, qemu_img \in BOOLEAN :
               RefuseCreate(c, cf, qemu_img) \/ AdmitCreate(c, cf, qemu_img)
    BY <1>0, <2>1 DEF RefuseCreate, AdmitCreate
  <2>2. CASE \E n \in Names : NoSuchVm(c, n) \/ BeginLoad(c, n)
    BY <1>0, <2>2 DEF NoSuchVm, BeginLoad
  <2>3. CASE BeginList(c)
    BY <1>0, <2>3 DEF BeginList, Promise
  <2>4. QED BY <1>1, <2>1, <2>2, <2>3 DEF Begin
<1>2. ASSUME NEW c \in Clients, CreateStep(c) PROVE Owed'
  <2>1. CASE MakeDir(c) \/ MakeDirFails(c) \/ FindDisk(c) \/ FindNoDisk(c)
    BY <1>0, <2>1 DEF MakeDir, MakeDirFails, FindDisk, FindNoDisk
  <2>2. CASE SpawnQemuImgFails(c) \/ QemuImgTruncates(c) \/ QemuImgExits(c)
    BY <1>0, <2>2 DEF SpawnQemuImgFails, QemuImgTruncates, QemuImgExits
  <2>3. CASE QemuImgFails(c)
    BY <1>0, <2>3 DEF QemuImgFails
  <2>4. CASE SaveRefused(c) \/ SaveTruncates(c) \/ SaveFails(c)
    BY <1>0, <2>4 DEF SaveRefused, SaveTruncates, SaveFails
  <2>5. CASE SaveWrites(c)
    <3>1. want[c] # Absent
      BY <1>0, <2>5, StoreAssumption DEF SaveWrites
    <3>2. QED BY <1>0, <2>5, <3>1 DEF SaveWrites
  <2>6. QED BY <1>2, <2>1, <2>2, <2>3, <2>4, <2>5 DEF CreateStep
<1>3. ASSUME NEW c \in Clients, ReadStep(c) PROVE Owed'
  <2>1. CASE ListLoads(c)
    <3>1. \A n \in owed[c] : Present(dir[n]) /\ LoadResult(n) = "Loaded"
      <4>1. ASSUME NEW n \in owed[c] PROVE Present(dir[n]) /\ LoadResult(n) = "Loaded"
        <5>1. n \in Names /\ created[n] # Absent
          BY <2>1 DEF ListLoads
        <5>2. Ready(n) /\ dir[n]
          BY <1>0, <5>1, PromisedLoads DEF Promise
        <5>3. config[n] # NoFile
          BY <5>2, ReadyIsThere, <5>1
        <5>4. QED BY <5>2, <5>3 DEF Present, LoadResult
      <4>2. QED BY <4>1
    <3>2. QED BY <1>0, <2>1, <3>1 DEF ListLoads
  <2>2. CASE ReadConfig(c) \/ EndList(c) \/ Report(c)
    BY <1>0, <2>2 DEF ReadConfig, LoadResult, EndList, Report
  <2>3. QED BY <1>3, <2>1, <2>2 DEF ReadStep
<1>4. ASSUME NEW c \in Clients, Crash(c) PROVE Owed'
  BY <1>0, <1>4 DEF Crash
<1>5. CASE Outside
  <2>1. ASSUME NEW n \in Names, GuestRuns(n) PROVE Owed'
    BY <1>0, <2>1 DEF GuestRuns
  <2>2. ASSUME NEW n \in Names, NEW content \in Edits, EditConfig(n, content) PROVE Owed'
    BY <1>0, <2>2 DEF EditConfig, Disown
  <2>3. ASSUME NEW n \in Names, RemoveVm(n) PROVE Owed'
    BY <1>0, <2>3 DEF RemoveVm, Disown
  <2>4. ASSUME NEW n \in Names, NEW m \in Names, CopyVm(n, m) PROVE Owed'
    <3>1. \A k \in Names : created[k] # Absent => created'[k] # Absent
      BY <1>0, <2>4 DEF CopyVm, Promise
    <3>2. QED BY <2>4, <3>1 DEF CopyVm
  <2>5. QED BY <1>5, <2>1, <2>2, <2>3, <2>4 DEF Outside
<1>6. CASE UNCHANGED vars
  BY <1>6 DEF vars
<1>7. QED BY <1>1, <1>2, <1>3, <1>4, <1>5, <1>6 DEF Next

(* list prints every VM whose create had succeeded when it began and that  *)
(* nobody touched since, whatever is created, launched or copied meanwhile *)
(* and however many directories beside it do not load.                     *)
THEOREM ListComplete == ~Overlapping => (Spec => []ListMissesNone)
<1> SUFFICES ASSUME ~Overlapping PROVE Spec => []ListMissesNone
  OBVIOUS
<1>1. Owed => ListMissesNone
  BY DEF Owed, ListMissesNone
<1>2. DiskInv /\ [Next]_vars => DiskInv'
  BY DiskNext
<1>3. DiskInv /\ Housed /\ [Next]_vars => Housed'
  BY HousedNext DEF DiskInv
<1>4. DiskInv /\ Housed /\ Promise /\ [Next]_vars => Promise'
  BY PromiseNext
<1>5. QED BY <1>1, <1>2, <1>3, <1>4, DiskInit, HousedInit, PromiseInit, OwedInit,
          OwedNext, PTL DEF Spec

-----------------------------------------------------------------------------
(* What an ordinary end of create leaves behind, for creates of one VM     *)
(* that overlap as they like.                                              *)

(* What HalfCreatedNeedsFault takes: every configuration that validates    *)
(* can be written as TOML.  The code does not see to it (run               *)
(* store_unsavable), so it is a condition of the theorem.                  *)
Savable == \A cf \in Requested : Valid(cf) => Serializable(cf)

-----------------------------------------------------------------------------
(* The invariant: a VM directory that does not load has a create past its  *)
(* mkdir, and one with an image has a create past its qemu-img, unless     *)
(* something failed.  The second part is what FindDisk needs: the create   *)
(* that gives up because an image is there is never the last one.          *)

PastMkdir   == CreateSteps \ {"mkdir"}
PastQemuImg == {"qemu_img_running", "save", "write"}

At(steps, n) == \E c \in Clients : pc[c] \in steps /\ target[c] = n

Wanted == \A c \in Clients :
  pc[c] \in CreateSteps => Valid(want[c]) /\ want[c].name = target[c]

DirOwned == \A n \in Names : dir[n] => Ready(n) \/ faulted[n] \/ At(PastMkdir, n)

DiskOwned == \A n \in Names :
  disk[n] # "none" => Ready(n) \/ faulted[n] \/ At(PastQemuImg, n)

HalfInv == TypeInv /\ Wanted /\ DirOwned /\ DiskOwned

-----------------------------------------------------------------------------
LEMMA HalfInit == Init => HalfInv
<1> SUFFICES ASSUME Init PROVE HalfInv
  OBVIOUS
<1>1. \A c \in Clients : pc[c] \notin CreateSteps
  BY DEF Init, CreateSteps
<1>2. QED BY <1>1, TypeInit DEF Init, HalfInv, Wanted, DirOwned, DiskOwned

(* A step of a create changes nothing about other clients and other VMs,   *)
(* so what is owned there stays owned.                                     *)
LEMMA OthersUntouched ==
  ASSUME TypeInv, TypeInv', NEW c \in Clients, CreateStep(c),
         NEW m \in Names, m # target[c]
  PROVE  /\ dir'[m] = dir[m] /\ disk'[m] = disk[m]
         /\ Ready(m)' <=> Ready(m)
         /\ faulted'[m] = faulted[m]
         /\ \A steps : At(steps, m) => At(steps, m)'
<1> USE DEF TypeInv, TypeOK, Bound, CreateSteps
<1>1. /\ dir'[m] = dir[m] /\ disk'[m] = disk[m]
      /\ config'[m] = config[m] /\ faulted'[m] = faulted[m]
      /\ \A d \in Clients : d # c => pc'[d] = pc[d] /\ target'[d] = target[d]
  <2> USE DEF Goto, Return, Fault, store, ghosts
  <2>1. CASE MakeDir(c) \/ MakeDirFails(c) \/ FindDisk(c) \/ FindNoDisk(c)
    BY <2>1 DEF MakeDir, MakeDirFails, FindDisk, FindNoDisk
  <2>2. CASE SpawnQemuImgFails(c) \/ QemuImgTruncates(c) \/ QemuImgExits(c)
    BY <2>2 DEF SpawnQemuImgFails, QemuImgTruncates, QemuImgExits
  <2>3. CASE QemuImgFails(c)
    BY <2>3 DEF QemuImgFails
  <2>4. CASE SaveRefused(c) \/ SaveTruncates(c) \/ SaveWrites(c) \/ SaveFails(c)
    BY <2>4 DEF SaveRefused, SaveTruncates, SaveWrites, SaveFails
  <2>5. QED BY <2>1, <2>2, <2>3, <2>4 DEF CreateStep
<1>2. ASSUME NEW steps, At(steps, m) PROVE At(steps, m)'
  <2>1. PICK d \in Clients : pc[d] \in steps /\ target[d] = m
    BY <1>2 DEF At
  <2>2. pc'[d] \in steps /\ target'[d] = m
    BY <1>1, <2>1
  <2>3. QED BY <2>2 DEF At
<1>3. QED BY <1>1, <1>2 DEF Ready

(* On its own VM, a create that goes on keeps it owned, one that ends well *)
(* has made it ready, and one that fails has marked it.                    *)
LEMMA OwnVm ==
  ASSUME Savable, HalfInv, TypeInv', NEW c \in Clients, CreateStep(c),
         NEW n \in Names, n = target[c]
  PROVE  /\ dir'[n] => Ready(n)' \/ faulted'[n] \/ At(PastMkdir, n)'
         /\ disk'[n] # "none" => Ready(n)' \/ faulted'[n] \/ At(PastQemuImg, n)'
<1> USE DEF HalfInv, TypeInv, TypeOK, CreateSteps, Goto, Return, Fault, store, ghosts
<1>1. /\ pc[c] \in CreateSteps => want[c] \in Requested /\ Valid(want[c])
      /\ pc[c] \in PastMkdir => pc[c] \in CreateSteps
  BY DEF Bound, Wanted, PastMkdir
<1>2. ASSUME pc'[c] \in PastQemuImg, target'[c] = n
      PROVE  At(PastMkdir, n)' /\ At(PastQemuImg, n)'
  BY <1>2 DEF At, PastMkdir, PastQemuImg
<1>3. CASE MakeDir(c) \/ FindNoDisk(c)
  <2>1. At(PastMkdir, n)'
    BY <1>3 DEF MakeDir, FindNoDisk, At, PastMkdir
  <2>2. At(PastQemuImg, n) => At(PastQemuImg, n)'
    BY <1>3 DEF MakeDir, FindNoDisk, At, PastQemuImg
  <2>3. Ready(n)' = Ready(n) /\ faulted' = faulted /\ disk' = disk
    BY <1>3 DEF MakeDir, FindNoDisk, Ready
  <2>4. QED BY <2>1, <2>2, <2>3 DEF DiskOwned
<1>4. CASE MakeDirFails(c)
  <2>1. ~dir'[n]
    BY <1>4 DEF MakeDirFails
  <2>2. At(PastQemuImg, n) => At(PastQemuImg, n)'
    BY <1>4 DEF MakeDirFails, At, PastQemuImg
  <2>3. Ready(n)' = Ready(n) /\ faulted' = faulted /\ disk' = disk
    BY <1>4 DEF MakeDirFails, Ready
  <2>4. QED BY <2>1, <2>2, <2>3 DEF DiskOwned
<1>5. CASE FindDisk(c)
  <2>1. At(PastQemuImg, n) => At(PastQemuImg, n)'
    BY <1>5 DEF FindDisk, At, PastQemuImg
  <2>2. At(PastQemuImg, n)' => At(PastMkdir, n)'
    BY DEF At, PastMkdir, PastQemuImg
  <2>3. Ready(n)' = Ready(n) /\ faulted' = faulted /\ disk' = disk
    BY <1>5 DEF FindDisk, Ready
  <2>4. disk[n] # "none"
    BY <1>5 DEF FindDisk, Present
  <2>5. QED BY <2>1, <2>2, <2>3, <2>4 DEF DiskOwned
<1>6. CASE SpawnQemuImgFails(c) \/ QemuImgFails(c) \/ SaveFails(c)
  BY <1>6 DEF SpawnQemuImgFails, QemuImgFails, SaveFails
<1>7. CASE QemuImgTruncates(c) \/ QemuImgExits(c) \/ SaveTruncates(c)
  <2>1. pc'[c] \in PastQemuImg /\ target'[c] = n
    BY <1>7 DEF QemuImgTruncates, QemuImgExits, SaveTruncates, PastQemuImg
  <2>2. QED BY <1>2, <2>1
<1>8. CASE SaveRefused(c)
  BY <1>1, <1>8 DEF SaveRefused, Savable
<1>9. CASE SaveWrites(c)
  <2>1. config'[n] = Toml(ToToml(want[c]))
    BY <1>9 DEF SaveWrites
  <2>2. want[c] \in VmConfigs /\ Valid(want[c])
    BY <1>1, <1>9, StoreAssumption DEF SaveWrites
  <2>3. Ready(n)'
    BY <2>1, <2>2, WrittenLoads DEF Ready
  <2>4. QED BY <2>3
<1>10. QED BY <1>3, <1>4, <1>5, <1>6, <1>7, <1>8, <1>9 DEF CreateStep

LEMMA HalfCreateStep ==
  ASSUME Savable, HalfInv, TypeInv', NEW c \in Clients, CreateStep(c)
  PROVE  HalfInv'
<1>1. target[c] \in Names
  BY DEF HalfInv, TypeInv, Bound, CreateSteps, CreateStep, MakeDir, MakeDirFails,
         FindDisk, FindNoDisk, SpawnQemuImgFails, QemuImgTruncates, QemuImgExits,
         QemuImgFails, SaveRefused, SaveTruncates, SaveWrites, SaveFails
<1>2. Wanted'
  <2> USE DEF HalfInv, TypeInv, TypeOK, Wanted, CreateSteps, Goto, Return
  <2>1. CASE MakeDir(c) \/ MakeDirFails(c) \/ FindDisk(c) \/ FindNoDisk(c)
    BY <2>1 DEF MakeDir, MakeDirFails, FindDisk, FindNoDisk
  <2>2. CASE SpawnQemuImgFails(c) \/ QemuImgTruncates(c) \/ QemuImgExits(c) \/ QemuImgFails(c)
    BY <2>2 DEF SpawnQemuImgFails, QemuImgTruncates, QemuImgExits, QemuImgFails
  <2>3. CASE SaveRefused(c) \/ SaveTruncates(c) \/ SaveWrites(c) \/ SaveFails(c)
    BY <2>3 DEF SaveRefused, SaveTruncates, SaveWrites, SaveFails
  <2>4. QED BY <2>1, <2>2, <2>3 DEF CreateStep
<1>3. ASSUME NEW n \in Names
      PROVE  /\ dir'[n] => Ready(n)' \/ faulted'[n] \/ At(PastMkdir, n)'
             /\ disk'[n] # "none" => Ready(n)' \/ faulted'[n] \/ At(PastQemuImg, n)'
  <2>1. CASE n = target[c]
    BY <2>1, OwnVm
  <2>2. CASE n # target[c]
    <3>1. /\ dir[n] => Ready(n) \/ faulted[n] \/ At(PastMkdir, n)
          /\ disk[n] # "none" => Ready(n) \/ faulted[n] \/ At(PastQemuImg, n)
      BY DEF HalfInv, DirOwned, DiskOwned
    <3>2. QED BY <2>2, <3>1, OthersUntouched DEF HalfInv
  <2>3. QED BY <2>1, <2>2
<1>4. DirOwned' /\ DiskOwned'
  BY <1>3 DEF DirOwned, DiskOwned
<1>5. QED BY <1>2, <1>4 DEF HalfInv

(* Steps of other kinds.  Outside changes a VM only while no create is at  *)
(* work on it, or marks it.                                                *)
LEMMA HalfOutside == HalfInv /\ TypeInv' /\ Outside => HalfInv'
<1> SUFFICES ASSUME HalfInv, TypeInv', Outside PROVE HalfInv'
  OBVIOUS
<1> USE DEF HalfInv, TypeInv, TypeOK
<1>1. UNCHANGED <<pc, target, want>>
  BY DEF Outside, GuestRuns, EditConfig, RemoveVm, CopyVm
<1>2. Wanted'
  BY <1>1 DEF Wanted
<1>3. \A steps, n : At(steps, n)' <=> At(steps, n)
  BY <1>1 DEF At
<1>4. ASSUME NEW n \in Names,
             \/ /\ Ready(n) /\ UNCHANGED <<dir, config, faulted>>
                /\ \A m \in Names : m # n => disk'[m] = disk[m]
             \/ /\ (~dir'[n] /\ disk'[n] = "none") \/ faulted'[n]
                /\ \A m \in Names : m # n => /\ dir'[m] = dir[m] /\ disk'[m] = disk[m]
                                             /\ config'[m] = config[m]
                                             /\ faulted'[m] = faulted[m]
      PROVE  HalfInv'
  BY <1>2, <1>3, <1>4 DEF DirOwned, DiskOwned, Ready
<1>5. ASSUME NEW n \in Names, GuestRuns(n) PROVE HalfInv'
  BY <1>4, <1>5 DEF GuestRuns, ghosts
<1>6. ASSUME NEW n \in Names, NEW content \in Edits, EditConfig(n, content) PROVE HalfInv'
  BY <1>4, <1>6 DEF EditConfig
<1>7. ASSUME NEW n \in Names, RemoveVm(n) PROVE HalfInv'
  BY <1>4, <1>7 DEF RemoveVm
<1>8. ASSUME NEW n \in Names, NEW m \in Names, CopyVm(n, m) PROVE HalfInv'
  <2>1. ~At(PastMkdir, n) /\ ~At(PastQemuImg, n)
    BY <1>8 DEF CopyVm, Creating, At, PastMkdir, PastQemuImg, CreateSteps
  <2>2. /\ dir'[m] => Ready(m)' \/ faulted'[m]
        /\ disk'[m] # "none" => Ready(m)' \/ faulted'[m]
    BY <1>8, <2>1 DEF CopyVm, DirOwned, DiskOwned, Ready
  <2>3. \A k \in Names : k # m => /\ dir'[k] = dir[k] /\ disk'[k] = disk[k]
                                  /\ config'[k] = config[k] /\ faulted'[k] = faulted[k]
    BY <1>8 DEF CopyVm
  <2>4. DirOwned' /\ DiskOwned'
    BY <1>3, <2>2, <2>3 DEF DirOwned, DiskOwned, Ready
  <2>5. QED BY <1>2, <2>4
<1>9. QED BY <1>5, <1>6, <1>7, <1>8 DEF Outside

LEMMA HalfNext == Savable /\ HalfInv /\ [Next]_vars => HalfInv'
<1> SUFFICES ASSUME Savable, HalfInv, [Next]_vars PROVE HalfInv'
  OBVIOUS
<1>0. TypeInv'
  BY TypeNext DEF HalfInv
<1>1. ASSUME NEW c \in Clients, pc[c] \notin PastMkdir,
             UNCHANGED <<store, faulted>>,
             \A d \in Clients : d # c => /\ pc'[d] = pc[d] /\ target'[d] = target[d]
                                         /\ want'[d] = want[d],
             pc'[c] \in CreateSteps => Valid(want'[c]) /\ want'[c].name = target'[c]
      PROVE  HalfInv'
  <2>1. Wanted'
    BY <1>1 DEF HalfInv, Wanted
  <2>2. \A n : /\ At(PastMkdir, n) => At(PastMkdir, n)'
               /\ At(PastQemuImg, n) => At(PastQemuImg, n)'
    BY <1>1 DEF At, PastMkdir, PastQemuImg, CreateSteps
  <2>3. DirOwned' /\ DiskOwned'
    BY <1>1, <2>2 DEF HalfInv, DirOwned, DiskOwned, Ready, store
  <2>4. QED BY <1>0, <2>1, <2>3 DEF HalfInv
<1> USE DEF TypeInv, TypeOK, CreateSteps, PastMkdir, store, ghosts, Goto, Return
<1>2. ASSUME NEW c \in Clients, Begin(c) PROVE HalfInv'
  <2>1. ASSUME NEW cf \in Requested, NEW qemu_img \in BOOLEAN,
               RefuseCreate(c, cf, qemu_img)
        PROVE  HalfInv'
    BY <1>1, <2>1 DEF RefuseCreate, HalfInv
  <2>2. ASSUME NEW cf \in Requested, NEW qemu_img \in BOOLEAN,
               AdmitCreate(c, cf, qemu_img)
        PROVE  HalfInv'
    BY <1>1, <2>2 DEF AdmitCreate, CreateError, HalfInv
  <2>3. CASE \E n \in Names : NoSuchVm(c, n) \/ BeginLoad(c, n)
    BY <1>1, <2>3 DEF NoSuchVm, BeginLoad, HalfInv
  <2>4. CASE BeginList(c)
    BY <1>1, <2>4 DEF BeginList, HalfInv
  <2>5. QED BY <1>2, <2>1, <2>2, <2>3, <2>4 DEF Begin
<1>3. ASSUME NEW c \in Clients, CreateStep(c) PROVE HalfInv'
  BY <1>0, <1>3, HalfCreateStep
<1>4. ASSUME NEW c \in Clients, ReadStep(c) PROVE HalfInv'
  BY <1>1, <1>4 DEF ReadStep, ReadConfig, LoadResult, ListLoads, EndList, Report, HalfInv
<1>5. ASSUME NEW c \in Clients, Crash(c) PROVE HalfInv'
  <2>1. CASE pc[c] \notin PastMkdir
    BY <1>1, <1>5, <2>1 DEF Crash, HalfInv
  <2>2. CASE pc[c] \in PastMkdir
    <3>1. /\ target[c] \in Names /\ faulted'[target[c]]
          /\ pc'[c] \notin CreateSteps
          /\ \A d \in Clients : d # c => /\ pc'[d] = pc[d] /\ target'[d] = target[d]
                                         /\ want'[d] = want[d]
      BY <1>5, <2>2 DEF Crash, Fault, Bound, HalfInv
    <3>2. \A n \in Names : n # target[c] =>
            /\ dir'[n] = dir[n] /\ disk'[n] = disk[n]
            /\ config'[n] = config[n] /\ faulted'[n] = faulted[n]
            /\ At(PastMkdir, n) => At(PastMkdir, n)'
            /\ At(PastQemuImg, n) => At(PastQemuImg, n)'
      BY <1>5, <2>2, <3>1 DEF Crash, Fault, HalfInv, At
    <3>3. Wanted'
      BY <3>1 DEF HalfInv, Wanted
    <3>4. DirOwned' /\ DiskOwned'
      BY <3>1, <3>2 DEF HalfInv, DirOwned, DiskOwned, Ready
    <3>5. QED BY <1>0, <3>3, <3>4 DEF HalfInv
  <2>3. QED BY <2>1, <2>2
<1>6. CASE Outside
  BY <1>0, <1>6, HalfOutside
<1>7. CASE UNCHANGED vars
  BY <1>7 DEF vars, HalfInv, Wanted, DirOwned, DiskOwned, At, Ready, TypeInv, TypeOK, Bound
<1>8. QED BY <1>2, <1>3, <1>4, <1>5, <1>6, <1>7 DEF Next

(* However creates of one VM overlap and whatever fails or dies, as long   *)
(* as every configuration that validates can be saved, a directory that is *)
(* no loadable VM has a create at work on it or a failure behind it.       *)
THEOREM OnlyFaultsLeaveHalf == Savable => (Spec => []HalfCreatedNeedsFault)
<1> SUFFICES ASSUME Savable PROVE Spec => []HalfCreatedNeedsFault
  OBVIOUS
<1>1. HalfInv => HalfCreatedNeedsFault
  BY DEF HalfInv, DirOwned, HalfCreatedNeedsFault, At, PastMkdir, Creating
<1>2. HalfInv /\ [Next]_vars => HalfInv'
  BY HalfNext
<1>3. QED BY <1>1, <1>2, HalfInit, PTL DEF Spec

-----------------------------------------------------------------------------
(* VmStore implements VmRegistry.                                          *)

(* The files are left to the program: creates of one VM do not overlap,    *)
(* and nobody edits or copies one.  A user who does may put under a name   *)
(* what nobody asked for, and the registry says nothing of that.           *)
LeftAlone == ~Overlapping /\ ~Copying /\ Edits = {}

-----------------------------------------------------------------------------
(* The invariant: a file belongs to a directory; it is whole and the one   *)
(* that was asked for under its name, or as empty as a create that was cut *)
(* off left it; and while a create is at work there is no whole one.       *)

Unwritten(n) == config[n] \in {NoFile, EmptyFile}

AsAsked(n, cf) == /\ cf \in Requested
                  /\ cf.name = n
                  /\ Valid(cf)
                  /\ config[n] = Toml(ToToml(cf))

Whole == \A n \in Names : Unwritten(n) \/ \E cf \in Requested : AsAsked(n, cf)

FilesHoused == \A n \in Names : config[n] # NoFile => dir[n]

AtWork == \A c \in Clients : pc[c] \in CreateSteps =>
            /\ Unwritten(target[c])
            /\ want[c].name = target[c]
            /\ Valid(want[c])

RegInv == Whole /\ FilesHoused /\ AtWork

LEMMA RegInit == Init => RegInv
<1> SUFFICES ASSUME Init PROVE RegInv
  OBVIOUS
<1>1. \A c \in Clients : pc[c] \notin CreateSteps
  BY DEF Init, CreateSteps
<1>2. QED BY <1>1 DEF Init, RegInv, Whole, FilesHoused, AtWork, Unwritten

(* Who touches no file and starts no create keeps the invariant.           *)
LEMMA RegStill ==
  ASSUME RegInv, UNCHANGED <<dir, config>>,
         \A c \in Clients : pc'[c] \in CreateSteps =>
           pc[c] \in CreateSteps /\ target'[c] = target[c] /\ want'[c] = want[c]
  PROVE  RegInv'
<1>1. Whole' /\ FilesHoused'
  BY DEF RegInv, Whole, FilesHoused, Unwritten, AsAsked
<1>2. AtWork'
  BY DEF RegInv, AtWork, Unwritten
<1>3. QED BY <1>1, <1>2 DEF RegInv

LEMMA RegCreateStep ==
  ASSUME TypeInv, Alone, Housed, RegInv, NEW c \in Clients, CreateStep(c)
  PROVE  RegInv'
<1> USE DEF TypeInv, TypeOK, Bound, CreateSteps, store, listing, ghosts, Goto, Return, Fault
<1>1. CASE MakeDir(c)
  BY <1>1 DEF MakeDir, RegInv, Whole, FilesHoused, AtWork, Unwritten, AsAsked
<1>2. CASE MakeDirFails(c) \/ FindDisk(c) \/ FindNoDisk(c)
  BY <1>2, RegStill DEF MakeDirFails, FindDisk, FindNoDisk
<1>3. CASE SpawnQemuImgFails(c) \/ QemuImgTruncates(c) \/ QemuImgExits(c)
  BY <1>3, RegStill DEF SpawnQemuImgFails, QemuImgTruncates, QemuImgExits
<1>4. CASE QemuImgFails(c)
  BY <1>4, RegStill DEF QemuImgFails
<1>5. CASE SaveRefused(c) \/ SaveFails(c)
  BY <1>5, RegStill DEF SaveRefused, SaveFails
<1>6. CASE SaveTruncates(c)
  <2>1. target[c] \in Names /\ dir[target[c]]
    BY <1>6 DEF SaveTruncates, Housed
  <2>2. \A n \in Names : n # target[c] => config'[n] = config[n]
    BY <1>6 DEF SaveTruncates
  <2>3. Whole' /\ FilesHoused'
    BY <1>6, <2>1, <2>2 DEF SaveTruncates, RegInv, Whole, FilesHoused, Unwritten, AsAsked
  <2>4. AtWork'
    BY <1>6, <2>1, <2>2 DEF SaveTruncates, RegInv, AtWork, Unwritten
  <2>5. QED BY <2>3, <2>4 DEF RegInv
<1>7. CASE SaveWrites(c)
  <2>1. /\ target[c] \in Names /\ dir[target[c]]
        /\ want[c] \in Requested /\ want[c].name = target[c] /\ Valid(want[c])
    BY <1>7 DEF SaveWrites, Housed, RegInv, AtWork
  <2>2. /\ config'[target[c]] = Toml(ToToml(want[c]))
        /\ \A n \in Names : n # target[c] => config'[n] = config[n]
    BY <1>7, <2>1 DEF SaveWrites
  <2>3. Whole' /\ FilesHoused'
    BY <1>7, <2>1, <2>2 DEF SaveWrites, RegInv, Whole, FilesHoused, Unwritten, AsAsked
  <2>4. ASSUME NEW d \in Clients, pc'[d] \in CreateSteps
        PROVE  Unwritten(target[d])' /\ want'[d].name = target'[d] /\ Valid(want'[d])
    <3>1. d # c /\ pc[d] \in CreateSteps /\ target'[d] = target[d] /\ want'[d] = want[d]
      BY <1>7, <2>4 DEF SaveWrites
    <3>2. target[d] # target[c] /\ target[d] \in Names
      BY <1>7, <3>1 DEF SaveWrites, Alone
    <3>3. QED BY <2>2, <3>1, <3>2 DEF RegInv, AtWork, Unwritten
  <2>5. AtWork'
    BY <2>4 DEF AtWork
  <2>6. QED BY <2>3, <2>5 DEF RegInv
<1>8. QED BY <1>1, <1>2, <1>3, <1>4, <1>5, <1>6, <1>7 DEF CreateStep

LEMMA RegNext ==
  LeftAlone /\ DiskInv /\ Housed /\ RegInv /\ [Next]_vars => RegInv'
<1> SUFFICES ASSUME LeftAlone, DiskInv, Housed, RegInv, [Next]_vars PROVE RegInv'
  OBVIOUS
<1> USE DEF DiskInv, TypeInv, TypeOK, CreateSteps, store, listing, ghosts, Goto, Return
<1>1. ASSUME NEW c \in Clients, Begin(c) PROVE RegInv'
  <2>1. ASSUME NEW cf \in Requested, NEW qemu_img \in BOOLEAN,
               RefuseCreate(c, cf, qemu_img)
        PROVE  RegInv'
    BY <2>1, RegStill DEF RefuseCreate
  <2>2. ASSUME NEW cf \in Requested, NEW qemu_img \in BOOLEAN,
               AdmitCreate(c, cf, qemu_img)
        PROVE  RegInv'
    <3>1. Valid(cf) /\ ~dir[cf.name] /\ cf.name \in Names
      BY <2>2, StoreAssumption DEF AdmitCreate, CreateError, Present
    <3>2. config[cf.name] = NoFile
      BY <3>1 DEF RegInv, FilesHoused
    <3>3. Whole' /\ FilesHoused'
      BY <2>2 DEF AdmitCreate, RegInv, Whole, FilesHoused, Unwritten, AsAsked
    <3>4. AtWork'
      BY <2>2, <3>1, <3>2 DEF AdmitCreate, RegInv, AtWork, Unwritten
    <3>5. QED BY <3>3, <3>4 DEF RegInv
  <2>3. CASE \E n \in Names : NoSuchVm(c, n) \/ BeginLoad(c, n)
    BY <2>3, RegStill DEF NoSuchVm, BeginLoad
  <2>4. CASE BeginList(c)
    BY <2>4, RegStill DEF BeginList
  <2>5. QED BY <1>1, <2>1, <2>2, <2>3, <2>4 DEF Begin
<1>2. ASSUME NEW c \in Clients, CreateStep(c) PROVE RegInv'
  BY <1>2, RegCreateStep
<1>3. ASSUME NEW c \in Clients, ReadStep(c) PROVE RegInv'
  BY <1>3, RegStill DEF ReadStep, ReadConfig, LoadResult, ListLoads, EndList, Report
<1>4. ASSUME NEW c \in Clients, Crash(c) PROVE RegInv'
  BY <1>4, RegStill DEF Crash
<1>5. CASE Outside
  <2>1. ASSUME NEW n \in Names, GuestRuns(n) PROVE RegInv'
    BY <2>1, RegStill DEF GuestRuns
  <2>2. ASSUME NEW n \in Names, RemoveVm(n) PROVE RegInv'
    <3>1. /\ \A c \in Clients : pc[c] \in CreateSteps => target[c] # n
          /\ UNCHANGED <<pc, target, want>>
          /\ \A m \in Names : config'[m] = IF m = n THEN NoFile ELSE config[m]
          /\ \A m \in Names : m # n => dir'[m] = dir[m]
      BY <2>2 DEF RemoveVm, Creating
    <3>2. Whole' /\ FilesHoused'
      BY <3>1 DEF RegInv, Whole, FilesHoused, Unwritten, AsAsked
    <3>3. AtWork'
      BY <3>1 DEF RegInv, AtWork, Unwritten, Bound
    <3>4. QED BY <3>2, <3>3 DEF RegInv
  <2>3. QED BY <1>5, <2>1, <2>2 DEF Outside, LeftAlone, CopyVm
<1>6. CASE UNCHANGED vars
  BY <1>6, RegStill DEF vars
<1>7. QED BY <1>1, <1>2, <1>3, <1>4, <1>5, <1>6 DEF Next

-----------------------------------------------------------------------------
(* What the mapping makes of a file: an unwritten one is a claim, a whole  *)
(* one stands for what was asked for.                                      *)
LEMMA NothingToLoad == ~Loadable(NoFile) /\ ~Loadable(EmptyFile)
  BY DEF Loadable, NoFile, EmptyFile, Toml

LEMMA UnwrittenIsClaim ==
  ASSUME NEW n \in Names, dir[n], Unwritten(n)
  PROVE  Vms[n] = Claimed
  BY NothingToLoad DEF Vms, Ready, Unwritten

LEMMA WholeIsAsked ==
  ASSUME NEW n \in Names, NEW cf, dir[n], AsAsked(n, cf)
  PROVE  Vms[n] = cf
<1>1. cf \in VmConfigs /\ Valid(cf) /\ config[n] = Toml(ToToml(cf))
  BY StoreAssumption DEF AsAsked
<1>2. Ready(n)
  BY <1>1, WrittenLoads DEF Ready
<1>3. Parsed(config[n].doc) = cf
  BY <1>1, RoundTrip DEF Toml
<1>4. QED BY <1>2, <1>3 DEF Vms

(* A directory is never free in the registry's eyes.                       *)
LEMMA DirIsTaken ==
  ASSUME RegInv, NEW n \in Names, dir[n]
  PROVE  Vms[n] # Absent
<1>1. CASE Unwritten(n)
  BY <1>1, UnwrittenIsClaim, ClaimedAssumption
<1>2. CASE \E cf \in Requested : AsAsked(n, cf)
  BY <1>2, WholeIsAsked, StoreAssumption
<1>3. QED BY <1>1, <1>2 DEF RegInv, Whole

(* What the files say stays as long as no directory or configuration does  *)
(* otherwise, and a create is in progress until its client returns.        *)
LEMMA StillVms == UNCHANGED <<dir, config>> => UNCHANGED Vms
  BY DEF Vms, Ready

LEMMA VmsChange ==
  ASSUME NEW n \in Names, NEW v, Vms'[n] = v, \A m \in Names : m # n => Vms'[m] = Vms[m]
  PROVE  Vms' = [Vms EXCEPT ![n] = v]
  BY DEF Vms

LEMMA StillInProgress ==
  ASSUME \A d \in Clients : /\ pc'[d] \in CreateSteps <=> pc[d] \in CreateSteps
                            /\ pc[d] \in CreateSteps => target'[d] = target[d]
  PROVE  UNCHANGED InProgress
<1>1. ASSUME NEW n \in Names PROVE Creating(n)' = Creating(n)
  BY DEF Creating
<1>2. QED BY <1>1, Zenon DEF InProgress

LEMMA CreateIsInProgress ==
  ASSUME TypeInv, NEW c \in Clients, pc[c] \in CreateSteps
  PROVE  target[c] \in Names /\ InProgress[target[c]]
  BY DEF TypeInv, Bound, InProgress, Creating

(* Nobody else is creating the VM, so with the client the create ends.     *)
LEMMA CreateEnds ==
  ASSUME TypeInv, Alone, NEW c \in Clients, pc[c] \in CreateSteps, pc'[c] \notin CreateSteps,
         \A d \in Clients : d # c => pc'[d] = pc[d] /\ target'[d] = target[d]
  PROVE  InProgress' = [InProgress EXCEPT ![target[c]] = FALSE]
<1>1. target[c] \in Names
  BY DEF TypeInv, Bound
<1>2. ASSUME NEW n \in Names, n = target[c] PROVE Creating(n)' = FALSE
  BY <1>2 DEF Creating, Alone
<1>3. ASSUME NEW n \in Names, n # target[c] PROVE Creating(n)' = Creating(n)
  BY <1>3 DEF Creating
<1>4. ASSUME NEW n \in Names
      PROVE  Creating(n)' = IF n = target[c] THEN FALSE ELSE InProgress[n]
  BY <1>2, <1>3, Zenon DEF InProgress
<1>5. QED BY <1>4, Zenon DEF InProgress

(* Five kinds of step move the registry.                                   *)
LEMMA AdmitCreateBegins ==
  ASSUME ~Overlapping, TypeInv, NEW c \in Clients, NEW cf \in Requested, NEW qemu_img \in BOOLEAN,
         AdmitCreate(c, cf, qemu_img)
  PROVE  Registry!Next
<1> DEFINE n == cf.name
<1>1. /\ n \in Names /\ ~dir[n] /\ ~Creating(n)
      /\ UNCHANGED <<dir, config>>
  BY StoreAssumption DEF AdmitCreate, CreateError, Present, Free, store
<1>2. /\ pc[c] \notin CreateSteps /\ pc'[c] \in CreateSteps /\ target'[c] = n
      /\ \A d \in Clients : d # c => pc'[d] = pc[d] /\ target'[d] = target[d]
  BY DEF AdmitCreate, CreateSteps, TypeInv, TypeOK
<1>3. Creating(n)' = TRUE /\ \A m \in Names : m # n => Creating(m)' = Creating(m)
  BY <1>2 DEF Creating
<1>4. InProgress' = [InProgress EXCEPT ![n] = TRUE] /\ ~InProgress[n]
  <2>1. \A m \in Names : Creating(m)' = IF m = n THEN TRUE ELSE InProgress[m]
    BY <1>3, Zenon DEF InProgress
  <2>2. QED BY <1>1, <2>1, Zenon DEF InProgress
<1>5. Vms[n] = Absent /\ UNCHANGED Vms
  BY <1>1, StillVms DEF Vms
<1>6. QED BY <1>1, <1>4, <1>5 DEF Registry!Next, Registry!Begin

LEMMA MakeDirClaims ==
  ASSUME TypeInv, RegInv, NEW c \in Clients, MakeDir(c)
  PROVE  Registry!Next
<1> DEFINE n == target[c]
<1>1. /\ n \in Names /\ Unwritten(n) /\ dir \in [Names -> BOOLEAN]
      /\ InProgress[n]
  BY CreateIsInProgress DEF MakeDir, TypeInv, TypeOK, CreateSteps, RegInv, AtWork
<1>2. dir' = [dir EXCEPT ![n] = TRUE] /\ config' = config
  BY DEF MakeDir
<1>3. UNCHANGED InProgress
  BY StillInProgress DEF MakeDir, Goto, CreateSteps, TypeInv, TypeOK
<1>4. Vms[n] \in {Absent, Claimed}
  BY <1>1, UnwrittenIsClaim DEF Vms
<1>5. Vms'[n] = Claimed
  BY <1>1, <1>2, NothingToLoad DEF Vms, Ready, Unwritten
<1>6. \A m \in Names : m # n => Vms'[m] = Vms[m]
  BY <1>1, <1>2 DEF Vms, Ready
<1>7. Vms' = [Vms EXCEPT ![n] = Claimed]
  BY <1>1, <1>5, <1>6, VmsChange
<1>8. QED BY <1>1, <1>3, <1>4, <1>7 DEF Registry!Next, Registry!Claim

LEMMA SaveWritesPublishes ==
  ASSUME TypeInv, Alone, Housed, RegInv, NEW c \in Clients, SaveWrites(c)
  PROVE  Registry!Next
<1> DEFINE n == target[c]
           cf == want[c]
<1>1. /\ n \in Names /\ dir[n] /\ Unwritten(n)
      /\ cf \in Requested /\ cf.name = n /\ Valid(cf)
  BY DEF SaveWrites, TypeInv, TypeOK, Bound, CreateSteps, Housed, RegInv, AtWork
<1>2. /\ dir' = dir
      /\ config'[n] = Toml(ToToml(cf))
      /\ \A m \in Names : m # n => config'[m] = config[m]
  BY <1>1 DEF SaveWrites, TypeInv, TypeOK
<1>3. Vms[n] = Claimed
  BY <1>1, UnwrittenIsClaim
<1>4. Vms'[n] = cf
  <2>1. cf \in VmConfigs
    BY <1>1, StoreAssumption
  <2>2. Loadable(config'[n])
    BY <1>1, <1>2, <2>1, WrittenLoads
  <2>3. Parsed(config'[n].doc) = cf
    BY <1>2, <2>1, RoundTrip DEF Toml
  <2>4. QED BY <1>1, <1>2, <2>2, <2>3 DEF Vms, Ready
<1>5. \A m \in Names : m # n => Vms'[m] = Vms[m]
  BY <1>2 DEF Vms, Ready
<1>6. Vms' = [Vms EXCEPT ![n] = cf]
  BY <1>1, <1>4, <1>5, VmsChange
<1>7. InProgress[n] /\ InProgress' = [InProgress EXCEPT ![n] = FALSE]
  BY CreateIsInProgress, CreateEnds DEF SaveWrites, Return, CreateSteps, TypeInv, TypeOK
<1>8. QED BY <1>1, <1>3, <1>6, <1>7 DEF Registry!Next, Registry!Publish

(* A create that returns an error or is killed touches no directory and no *)
(* configuration.                                                          *)
LEMMA EndingAbandons ==
  ASSUME TypeInv, Alone, NEW c \in Clients, pc[c] \in CreateSteps, pc'[c] \notin CreateSteps,
         UNCHANGED <<dir, config>>,
         \A d \in Clients : d # c => pc'[d] = pc[d] /\ target'[d] = target[d]
  PROVE  Registry!Next
  BY StillVms, CreateIsInProgress, CreateEnds DEF Registry!Next, Registry!Abandon

LEMMA RemoveVmRemoves ==
  ASSUME TypeInv, RegInv, NEW n \in Names, RemoveVm(n)
  PROVE  Registry!Next
<1>1. /\ dir[n] /\ ~dir'[n] /\ ~Creating(n)
      /\ \A m \in Names : m # n => dir'[m] = dir[m] /\ config'[m] = config[m]
  BY DEF RemoveVm, TypeInv, TypeOK
<1>2. Vms[n] # Absent /\ ~InProgress[n]
  BY <1>1, DirIsTaken DEF InProgress
<1>3. Vms'[n] = Absent
  BY <1>1 DEF Vms
<1>4. \A m \in Names : m # n => Vms'[m] = Vms[m]
  BY <1>1 DEF Vms, Ready
<1>5. Vms' = [Vms EXCEPT ![n] = Absent]
  BY <1>3, <1>4, VmsChange
<1>6. UNCHANGED InProgress
  BY StillInProgress DEF RemoveVm
<1>7. QED BY <1>2, <1>5, <1>6 DEF Registry!Next, Registry!Remove

(* And every step of the store is one of them, or the registry stays.      *)
LEMMA RegStep ==
  LeftAlone /\ DiskInv /\ Housed /\ RegInv /\ [Next]_vars => [Registry!Next]_(Registry!registry)
<1> SUFFICES ASSUME LeftAlone, DiskInv, Housed, RegInv, [Next]_vars
             PROVE  Registry!Next \/ UNCHANGED <<Vms, InProgress>>
  BY DEF Registry!registry
<1> USE DEF store, DiskInv, TypeInv, TypeOK, CreateSteps
<1>1. ASSUME NEW c \in Clients, Begin(c)
      PROVE  Registry!Next \/ UNCHANGED <<Vms, InProgress>>
  <2>1. CASE \E cf \in Requested, qemu_img \in BOOLEAN : AdmitCreate(c, cf, qemu_img)
    BY <2>1, AdmitCreateBegins DEF LeftAlone
  <2>2. CASE \E cf \in Requested, qemu_img \in BOOLEAN : RefuseCreate(c, cf, qemu_img)
    BY <2>2, StillVms, StillInProgress DEF RefuseCreate, Return
  <2>3. CASE (\E n \in Names : NoSuchVm(c, n) \/ BeginLoad(c, n)) \/ BeginList(c)
    BY <2>3, StillVms, StillInProgress DEF NoSuchVm, BeginLoad, BeginList, Return, Goto
  <2>4. QED BY <1>1, <2>1, <2>2, <2>3 DEF Begin
<1>2. ASSUME NEW c \in Clients, CreateStep(c)
      PROVE  Registry!Next \/ UNCHANGED <<Vms, InProgress>>
  <2>1. CASE MakeDir(c)
    BY <2>1, MakeDirClaims
  <2>2. CASE SaveWrites(c)
    BY <2>2, SaveWritesPublishes
  <2>3. CASE SaveTruncates(c)
    <3>1. target[c] \in Names /\ Unwritten(target[c])
      BY <2>3 DEF SaveTruncates, Bound, RegInv, AtWork
    <3>2. /\ dir' = dir
          /\ config'[target[c]] = EmptyFile
          /\ \A m \in Names : m # target[c] => config'[m] = config[m]
      BY <2>3, <3>1 DEF SaveTruncates
    <3>3. \A m \in Names : Vms'[m] = Vms[m]
      BY <3>1, <3>2, NothingToLoad DEF Vms, Ready, Unwritten
    <3>4. UNCHANGED Vms
      BY <3>3 DEF Vms
    <3>5. UNCHANGED InProgress
      BY <2>3, StillInProgress DEF SaveTruncates, Goto
    <3>6. QED BY <3>4, <3>5
  <2>4. CASE FindNoDisk(c) \/ QemuImgTruncates(c) \/ QemuImgExits(c)
    BY <2>4, StillVms, StillInProgress DEF FindNoDisk, QemuImgTruncates, QemuImgExits, Goto
  <2>5. CASE MakeDirFails(c) \/ FindDisk(c) \/ SpawnQemuImgFails(c) \/ QemuImgFails(c)
             \/ SaveRefused(c) \/ SaveFails(c)
    BY <2>5, EndingAbandons DEF MakeDirFails, FindDisk, SpawnQemuImgFails, QemuImgFails,
                                SaveRefused, SaveFails, Return
  <2>6. QED BY <1>2, <2>1, <2>2, <2>3, <2>4, <2>5 DEF CreateStep
<1>3. ASSUME NEW c \in Clients, ReadStep(c) PROVE UNCHANGED <<Vms, InProgress>>
  BY <1>3, StillVms, StillInProgress DEF ReadStep, ReadConfig, LoadResult, ListLoads, EndList, Report, Return
<1>4. ASSUME NEW c \in Clients, Crash(c)
      PROVE  Registry!Next \/ UNCHANGED <<Vms, InProgress>>
  <2>1. /\ UNCHANGED <<dir, config>>
        /\ pc'[c] \notin CreateSteps
        /\ \A d \in Clients : d # c => pc'[d] = pc[d] /\ target'[d] = target[d]
    BY <1>4 DEF Crash, Return
  <2>2. CASE pc[c] \in CreateSteps
    BY <2>1, <2>2, EndingAbandons
  <2>3. CASE pc[c] \notin CreateSteps
    BY <2>1, <2>3, StillVms, StillInProgress
  <2>4. QED BY <2>2, <2>3
<1>5. CASE Outside
  <2>1. ASSUME NEW n \in Names, GuestRuns(n) PROVE UNCHANGED <<Vms, InProgress>>
    BY <2>1, StillVms, StillInProgress DEF GuestRuns
  <2>2. ASSUME NEW n \in Names, RemoveVm(n) PROVE Registry!Next
    BY <2>2, RemoveVmRemoves
  <2>3. QED BY <1>5, <2>1, <2>2 DEF Outside, LeftAlone, CopyVm
<1>6. CASE UNCHANGED vars
  BY <1>6, StillVms, StillInProgress DEF vars
<1>7. QED BY <1>1, <1>2, <1>3, <1>4, <1>5, <1>6 DEF Next

LEMMA RegistryInit == Init => Registry!Init
  BY DEF Init, Registry!Init, Vms, InProgress, Creating, CreateSteps

(* The store behaves like the registry: whatever fails and whoever is      *)
(* killed, a configuration appears under a name at once and complete, only *)
(* one that was asked for under that name, and stays until it is removed;  *)
(* and a create that does not get there leaves a claim at most.            *)
THEOREM StoreImplementsRegistry == LeftAlone => (Spec => ImplementsRegistry)
<1> SUFFICES ASSUME LeftAlone PROVE Spec => ImplementsRegistry
  OBVIOUS
<1>1. DiskInv /\ [Next]_vars => DiskInv'
  BY DiskNext DEF LeftAlone
<1>2. DiskInv /\ Housed /\ [Next]_vars => Housed'
  BY HousedNext DEF DiskInv
<1>3. DiskInv /\ Housed /\ RegInv /\ [Next]_vars
        => RegInv' /\ [Registry!Next]_(Registry!registry)
  BY RegNext, RegStep
<1>4. QED BY <1>1, <1>2, <1>3, DiskInit, HousedInit, RegInit, RegistryInit, PTL
          DEF Spec, ImplementsRegistry, Registry!Spec
=============================================================================
