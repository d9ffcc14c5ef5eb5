------------------------------- MODULE VmStore -------------------------------
(***************************************************************************)
(* The virtual machines on disk, and the operations that create, load and  *)
(* list them (vm.rs, disk.rs, paths.rs; called by create, run and list of  *)
(* the CLI's main.rs).                                                     *)
(*                                                                         *)
(* A client is one run of the program.  Each call it makes on the file     *)
(* system, and each step of the qemu-img it starts, is a step of its own:  *)
(* other clients, the user and the guests act in between.  Nothing in the  *)
(* code locks a VM's directory.                                            *)
(***************************************************************************)
EXTENDS VmConfig

CONSTANTS Clients,      \* program runs that may overlap
          Names,        \* VM names, numbered in their sort order
          Requested,    \* the configurations `create` is called with
          Edits,        \* what a user may save over an existing config.toml
          Copying,      \* may the user copy a VM's directory to another name?
          Overlapping,  \* may something else write to a VM's directory
                        \* while it is being created?
          Absent        \* in place of a VM or a configuration: there is none

ASSUME StoreAssumption ==
  /\ Names \subseteq Nat
  /\ Requested \subseteq VmConfigs
  /\ \A cf \in Requested : cf.name \in Names
  /\ Copying \in BOOLEAN
  /\ Overlapping \in BOOLEAN
  /\ Absent \notin Requested /\ Absent \notin Names

VARIABLES
  dir,      \* dir[n]: vms/<n>/ is a directory
  disk,     \* disk[n]: its disk image: none, cut short, blank, or a guest's
  config,   \* config[n]: the content of its config.toml
  pc,       \* pc[c]: the call client c makes next
  target,   \* target[c]: the VM that c's call is about
  want,     \* want[c]: the configuration c is creating a VM from
  todo,     \* todo[c]: the names `list` has still to load
  shown,    \* shown[c]: the VMs that `list` has loaded and will print
  result,   \* result[c]: how c's call ended, until c has reported it
  created,  \* ghost: the configuration the last Ok of create promised for n
  faulted,  \* ghost: has a call on n failed or died, or the user edited it?
  owed      \* ghost: VMs whose create succeeded before c's `list` began and
            \* that nobody edited or removed since

store == <<dir, disk, config>>
listing == <<todo, shown, owed>>
ghosts == <<created, faulted>>
vars == <<dir, disk, config, pc, target, want, todo, shown, result,
          created, faulted, owed>>

-----------------------------------------------------------------------------
Disks == {"none", "partial", "blank", "guest"}

CreateSteps == {"mkdir", "disk_exists", "qemu_img", "qemu_img_running",
                "save", "write"}
Steps == {"idle", "load", "list", "report"} \union CreateSteps

Refusals == {"InvalidConfig", "VmExists", "MissingBinary", "DiskExists",
             "ConfigSerialize", "NoSuchVm"}
Failures == {"WriteError", "SpawnError", "CommandFailed", "ReadError",
             "ConfigSyntax"}
Results == {"none", "Created", "Loaded", "Listed"} \union Refusals \union Failures

(* The file contents that can occur: what create writes, what a user puts  *)
(* there, and a file that was opened for writing and not written.          *)
Contents == {NoFile, EmptyFile} \union Edits \union {Toml(ToToml(cf)) : cf \in Requested}

TypeOK == /\ dir \in [Names -> BOOLEAN]
          /\ disk \in [Names -> Disks]
          /\ config \in [Names -> Contents]
          /\ pc \in [Clients -> Steps]
          /\ target \in [Clients -> Names \union {Absent}]
          /\ want \in [Clients -> Requested \union {Absent}]
          /\ todo \in [Clients -> SUBSET Names]
          /\ shown \in [Clients -> SUBSET Names]
          /\ result \in [Clients -> Results]
          /\ created \in [Names -> Requested \union {Absent}]
          /\ faulted \in [Names -> BOOLEAN]
          /\ owed \in [Clients -> SUBSET Names]

(* A create past its checks is at work on n: it may write.                 *)
Creating(n) == \E c \in Clients : pc[c] \in CreateSteps /\ target[c] = n

(* Without Overlapping, nothing else writes to a VM that is being created. *)
Free(n) == Overlapping \/ ~Creating(n)

Ready(n) == Loadable(config[n])

Init == /\ dir = [n \in Names |-> FALSE]
        /\ disk = [n \in Names |-> "none"]
        /\ config = [n \in Names |-> NoFile]
        /\ pc = [c \in Clients |-> "idle"]
        /\ target = [c \in Clients |-> Absent]
        /\ want = [c \in Clients |-> Absent]
        /\ todo = [c \in Clients |-> {}]
        /\ shown = [c \in Clients |-> {}]
        /\ result = [c \in Clients |-> "none"]
        /\ created = [n \in Names |-> Absent]
        /\ faulted = [n \in Names |-> FALSE]
        /\ owed = [c \in Clients |-> {}]

-----------------------------------------------------------------------------
(* Path::exists and Path::is_dir, the tests behind VmPaths::exists and     *)
(* disk::create.                                                           *)
PresentUnseen(there) == FALSE   \* mutant: what cannot be read is not there

Present(there) == there

(* Client c's call returns r; killed, it returns nothing.                  *)
Return(c, r) == /\ pc' = [pc EXCEPT ![c] = IF r = "none" THEN "idle" ELSE "report"]
                /\ target' = [target EXCEPT ![c] = Absent]
                /\ want' = [want EXCEPT ![c] = Absent]
                /\ result' = [result EXCEPT ![c] = r]

Goto(c, step) == /\ pc' = [pc EXCEPT ![c] = step]
                 /\ UNCHANGED <<target, want, result>>

(* A call on n failed in a way no argument of it explains.                 *)
Fault(n) == faulted' = [faulted EXCEPT ![n] = TRUE] /\ UNCHANGED created

-----------------------------------------------------------------------------
(* Vm::create.  Its checks read one thing others can change, the           *)
(* directory, so they are one step.                                        *)

CreateErrorUnvalidated(cf, qemu_img) ==   \* mutant: validate is not called
  IF Present(dir[cf.name]) THEN "VmExists"
  ELSE IF ~qemu_img THEN "MissingBinary"
  ELSE "none"

CreateError(cf, qemu_img) ==
  IF ~Valid(cf) THEN "InvalidConfig"
  ELSE IF Present(dir[cf.name]) THEN "VmExists"
  ELSE IF ~qemu_img THEN "MissingBinary"
  ELSE "none"

(* qemu_img says whether preflight found the tool.                         *)
RefuseCreate(c, cf, qemu_img) ==
  /\ pc[c] = "idle"
  /\ CreateError(cf, qemu_img) # "none"
  /\ Return(c, CreateError(cf, qemu_img))
  /\ UNCHANGED <<store, listing, ghosts>>

AdmitCreate(c, cf, qemu_img) ==
  /\ pc[c] = "idle"
  /\ Free(cf.name)
  /\ CreateError(cf, qemu_img) = "none"
  /\ pc' = [pc EXCEPT ![c] = "mkdir"]
  /\ target' = [target EXCEPT ![c] = cf.name]
  /\ want' = [want EXCEPT ![c] = cf]
  /\ UNCHANGED <<store, result, listing, ghosts>>

(* create_dir_all does not mind a directory that is there already.         *)
MakeDir(c) ==
  /\ pc[c] = "mkdir"
  /\ dir' = [dir EXCEPT ![target[c]] = TRUE]
  /\ Goto(c, "disk_exists")
  /\ UNCHANGED <<disk, config, listing, ghosts>>

MakeDirFails(c) ==
  /\ pc[c] = "mkdir"
  /\ ~dir[target[c]]
  /\ Return(c, "WriteError")
  /\ UNCHANGED <<store, listing, ghosts>>

(* disk::create looks for the image before it runs qemu-img, which         *)
(* truncates without asking.                                               *)
FindDisk(c) ==
  /\ pc[c] = "disk_exists"
  /\ Present(disk[target[c]] # "none")
  /\ Return(c, "DiskExists")
  /\ UNCHANGED <<store, listing, ghosts>>

FindNoDisk(c) ==
  /\ pc[c] = "disk_exists"
  /\ ~Present(disk[target[c]] # "none")
  /\ Goto(c, "qemu_img")
  /\ UNCHANGED <<store, listing, ghosts>>

(* qemu-img is another process: it opens and truncates the image, and      *)
(* later exits.  One that fails may leave what it wrote or remove it.      *)
SpawnQemuImgFails(c) ==
  /\ pc[c] = "qemu_img"
  /\ Return(c, "SpawnError")
  /\ Fault(target[c])
  /\ UNCHANGED <<store, listing>>

QemuImgTruncates(c) ==
  /\ pc[c] = "qemu_img"
  /\ disk' = [disk EXCEPT ![target[c]] = "partial"]
  /\ Goto(c, "qemu_img_running")
  /\ UNCHANGED <<dir, config, listing, ghosts>>

QemuImgExits(c) ==
  /\ pc[c] = "qemu_img_running"
  /\ disk' = [disk EXCEPT ![target[c]] = "blank"]
  /\ Goto(c, "save")
  /\ UNCHANGED <<dir, config, listing, ghosts>>

QemuImgFailureIgnored(c) ==   \* mutant: the exit status is not looked at
  /\ pc[c] = "qemu_img_running"
  /\ \E left \in {"partial", "none"} : disk' = [disk EXCEPT ![target[c]] = left]
  /\ Goto(c, "save")
  /\ UNCHANGED <<dir, config, listing, ghosts>>

QemuImgRetried(c) ==   \* mutant: a failing qemu-img is run again
  /\ pc[c] = "qemu_img_running"
  /\ disk' = [disk EXCEPT ![target[c]] = "none"]
  /\ Goto(c, "qemu_img")
  /\ UNCHANGED <<dir, config, listing, ghosts>>

QemuImgFails(c) ==
  /\ pc[c] = "qemu_img_running"
  /\ \E left \in {"partial", "none"} : disk' = [disk EXCEPT ![target[c]] = left]
  /\ Return(c, "CommandFailed")
  /\ Fault(target[c])
  /\ UNCHANGED <<dir, config, listing>>

(* Vm::save.  The text is made before the file is opened; fs::write opens  *)
(* with truncation and then writes.                                        *)
SaveRefused(c) ==
  /\ pc[c] = "save"
  /\ ~Serializable(want[c])
  /\ Return(c, "ConfigSerialize")
  /\ UNCHANGED <<store, listing, ghosts>>

SaveTruncates(c) ==
  /\ pc[c] = "save"
  /\ Serializable(want[c])
  /\ config' = [config EXCEPT ![target[c]] = EmptyFile]
  /\ Goto(c, "write")
  /\ UNCHANGED <<dir, disk, listing, ghosts>>

SaveWritesShort(c) ==   \* mutant: only the first line is written
  /\ pc[c] = "write"
  /\ config' = [config EXCEPT ![target[c]] = Toml([f \in {"name"} |-> target[c]])]
  /\ Return(c, "Created")
  /\ created' = [created EXCEPT ![target[c]] = want[c]]
  /\ UNCHANGED <<dir, disk, listing, faulted>>

SaveWrites(c) ==
  /\ pc[c] = "write"
  /\ config' = [config EXCEPT ![target[c]] = Toml(ToToml(want[c]))]
  /\ Return(c, "Created")
  /\ created' = [created EXCEPT ![target[c]] = want[c]]
  /\ UNCHANGED <<dir, disk, listing, faulted>>

SaveFails(c) ==
  /\ \/ pc[c] = "save" /\ Serializable(want[c])
     \/ pc[c] = "write"
  /\ Return(c, "WriteError")
  /\ Fault(target[c])
  /\ UNCHANGED <<store, listing>>

-----------------------------------------------------------------------------
(* Vm::load: the directory, then the file.  Between the two the VM may     *)
(* change or go.                                                           *)

NoSuchVm(c, n) ==
  /\ pc[c] = "idle"
  /\ ~Present(dir[n])
  /\ Return(c, "NoSuchVm")
  /\ UNCHANGED <<store, listing, ghosts>>

BeginLoad(c, n) ==
  /\ pc[c] = "idle"
  /\ Present(dir[n])
  /\ pc' = [pc EXCEPT ![c] = "load"]
  /\ target' = [target EXCEPT ![c] = n]
  /\ UNCHANGED <<store, want, result, listing, ghosts>>

LoadResult(n) == IF config[n] = NoFile THEN "ReadError"
                 ELSE IF Ready(n) THEN "Loaded" ELSE "ConfigSyntax"

ReadConfig(c) ==
  /\ pc[c] = "load"
  /\ Return(c, LoadResult(target[c]))
  /\ UNCHANGED <<store, listing, ghosts>>

(* Paths::list reads the names at once, and `list` then loads them in      *)
(* order, leaving out the ones that do not load.                           *)
BeginList(c) ==
  /\ pc[c] = "idle"
  /\ todo' = [todo EXCEPT ![c] = {n \in Names : dir[n]}]
  /\ owed' = [owed EXCEPT ![c] = {n \in Names : created[n] # Absent}]
  /\ Goto(c, "list")
  /\ UNCHANGED <<store, shown, ghosts>>

ListLoadsUntilError(c) ==   \* mutant: the first VM that does not load ends the list
  /\ pc[c] = "list"
  /\ \E n \in todo[c] :
       /\ \A m \in todo[c] : n <= m
       /\ IF LoadResult(n) = "Loaded"
          THEN /\ todo' = [todo EXCEPT ![c] = @ \ {n}]
               /\ shown' = [shown EXCEPT ![c] = @ \union {n}]
          ELSE /\ todo' = [todo EXCEPT ![c] = {}]
               /\ UNCHANGED shown
  /\ UNCHANGED <<store, pc, target, want, result, owed, ghosts>>

ListLoads(c) ==
  /\ pc[c] = "list"
  /\ \E n \in todo[c] :
       /\ \A m \in todo[c] : n <= m
       /\ todo' = [todo EXCEPT ![c] = @ \ {n}]
       /\ shown' = [shown EXCEPT ![c] =
                      IF Present(dir[n]) /\ LoadResult(n) = "Loaded"
                      THEN @ \union {n} ELSE @]
  /\ UNCHANGED <<store, pc, target, want, result, owed, ghosts>>

EndList(c) ==
  /\ pc[c] = "list"
  /\ todo[c] = {}
  /\ Return(c, "Listed")
  /\ shown' = [shown EXCEPT ![c] = {}]
  /\ owed' = [owed EXCEPT ![c] = {}]
  /\ UNCHANGED <<store, todo, ghosts>>

-----------------------------------------------------------------------------
(* The CLI prints the outcome and exits; another run of it may begin.      *)
Report(c) == /\ pc[c] = "report"
             /\ pc' = [pc EXCEPT ![c] = "idle"]
             /\ result' = [result EXCEPT ![c] = "none"]
             /\ UNCHANGED <<store, target, want, listing, ghosts>>

(* What happens to a client or a VM from outside.                          *)

(* The program is killed.  A qemu-img it was waiting for lives on and may  *)
(* get as far as it likes.                                                 *)
Crash(c) ==
  /\ pc[c] \notin {"idle", "report"}
  /\ \/ pc[c] = "qemu_img_running"
        /\ \E left \in {"none", "partial", "blank"} :
             disk' = [disk EXCEPT ![target[c]] = left]
     \/ UNCHANGED disk
  /\ Return(c, "none")
  /\ todo' = [todo EXCEPT ![c] = {}]
  /\ shown' = [shown EXCEPT ![c] = {}]
  /\ owed' = [owed EXCEPT ![c] = {}]
  /\ IF pc[c] \in CreateSteps \ {"mkdir"} THEN Fault(target[c]) ELSE UNCHANGED ghosts
  /\ UNCHANGED <<dir, config>>

(* A VM that loads and has its disk is launched, and the guest installs.   *)
GuestRuns(n) ==
  /\ Free(n)
  /\ Ready(n)
  /\ disk[n] = "blank"
  /\ disk' = [disk EXCEPT ![n] = "guest"]
  /\ UNCHANGED <<dir, config, pc, target, want, listing, result, ghosts>>

Disown(n) == owed' = [c \in Clients |-> owed[c] \ {n}]

(* config.toml is the user's to edit (an edited one promises nothing).     *)
EditConfig(n, content) ==
  /\ Free(n)
  /\ config[n] # NoFile
  /\ config' = [config EXCEPT ![n] = content]
  /\ created' = [created EXCEPT ![n] = Absent]
  /\ faulted' = [faulted EXCEPT ![n] = TRUE]
  /\ Disown(n)
  /\ UNCHANGED <<dir, disk, pc, target, want, todo, shown, result>>

(* A VM is one directory: deleted as one, and copied as one.               *)
RemoveVm(n) ==
  /\ ~Creating(n)
  /\ dir[n]
  /\ dir' = [dir EXCEPT ![n] = FALSE]
  /\ disk' = [disk EXCEPT ![n] = "none"]
  /\ config' = [config EXCEPT ![n] = NoFile]
  /\ created' = [created EXCEPT ![n] = Absent]
  /\ faulted' = [faulted EXCEPT ![n] = FALSE]
  /\ Disown(n)
  /\ UNCHANGED <<pc, target, want, todo, shown, result>>

CopyVm(n, m) ==
  /\ Copying
  /\ ~Creating(n) /\ ~Creating(m)
  /\ dir[n] /\ ~dir[m]
  /\ dir' = [dir EXCEPT ![m] = TRUE]
  /\ disk' = [disk EXCEPT ![m] = disk[n]]
  /\ config' = [config EXCEPT ![m] = config[n]]
  /\ created' = [created EXCEPT ![m] = created[n]]
  /\ faulted' = [faulted EXCEPT ![m] = faulted[n]]
  /\ UNCHANGED <<pc, target, want, listing, result>>

-----------------------------------------------------------------------------
CreateStep(c) ==
  \/ MakeDir(c) \/ MakeDirFails(c)
  \/ FindDisk(c) \/ FindNoDisk(c)
  \/ SpawnQemuImgFails(c) \/ QemuImgTruncates(c) \/ QemuImgExits(c) \/ QemuImgFails(c)
  \/ SaveRefused(c) \/ SaveTruncates(c) \/ SaveWrites(c) \/ SaveFails(c)

ReadStep(c) == ReadConfig(c) \/ ListLoads(c) \/ EndList(c) \/ Report(c)

Begin(c) == \/ \E cf \in Requested, qemu_img \in BOOLEAN :
                 RefuseCreate(c, cf, qemu_img) \/ AdmitCreate(c, cf, qemu_img)
            \/ \E n \in Names : NoSuchVm(c, n) \/ BeginLoad(c, n)
            \/ BeginList(c)

Outside == \E n \in Names : \/ GuestRuns(n)
                            \/ \E content \in Edits : EditConfig(n, content)
                            \/ RemoveVm(n)
                            \/ \E m \in Names : CopyVm(n, m)

Next == \/ \E c \in Clients : Begin(c) \/ CreateStep(c) \/ ReadStep(c) \/ Crash(c)
        \/ Outside

Spec == Init /\ [][Next]_vars

(* Every call and every qemu-img run ends, one way or the other.           *)
Fairness == \A c \in Clients : WF_vars(CreateStep(c)) /\ WF_vars(ReadStep(c))

FairSpec == Spec /\ Fairness

-----------------------------------------------------------------------------
(* Properties.                                                             *)

(* A VM that loads has a finished disk image: create makes the disk before *)
(* it saves the configuration, and gives up when qemu-img reports failure. *)
(* What `list` shows and `run` boots is therefore never half made.         *)
ReadyHasDisk == \A n \in Names : Ready(n) => disk[n] \in {"blank", "guest"}

(* Once a guest has written to its disk, that disk is kept for as long as  *)
(* the VM's directory is: no create, of any client and however it ends,    *)
(* lets qemu-img truncate it.                                              *)
DiskNeverOverwritten ==
  [][\A n \in Names : disk[n] = "guest" => disk'[n] = "guest" \/ ~dir'[n]]_vars

(* A directory that is no loadable VM, which create refuses to replace and *)
(* list leaves out, is explained: a create is still at work on it, or a    *)
(* call on it failed, was killed, or the user edited it.  An ordinary      *)
(* refusal by create leaves none behind.                                   *)
HalfCreatedNeedsFault ==
  \A n \in Names : dir[n] /\ ~Ready(n) => Creating(n) \/ faulted[n]

(* What a successful create promised is what every later load of the VM    *)
(* returns, field by field, until the user edits or removes it.            *)
LoadsAsCreated ==
  \A n \in Names : created[n] # Absent => /\ Ready(n)
                                          /\ Parsed(config[n].doc) = created[n]

(* list prints every VM whose create had succeeded when it began and that  *)
(* nobody has edited or removed since, whatever is created meanwhile.      *)
ListMissesNone == \A c \in Clients : pc[c] = "list" => owed[c] \subseteq shown[c] \union todo[c]

(* Every call returns: no client waits for ever, whatever fails.           *)
CallsReturn == \A c \in Clients : pc[c] # "idle" ~> pc[c] = "idle"
=============================================================================
