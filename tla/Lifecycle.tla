----------------------------- MODULE Lifecycle -----------------------------
(***************************************************************************)
(* VMs that come and go while they are run.  Creates and removals are the  *)
(* actions of VmRegistry, which VmStore implements: a create succeeds, or  *)
(* it fails or is killed at any point and leaves what it has made.  A run  *)
(* loads its VM once and works on the VM's directory by name from then on; *)
(* a VM may be created, removed and created anew between any two of its    *)
(* steps.  What launch does to the directory is added to its steps here:   *)
(* the copy needs one, start_tpm makes one.                                *)
(***************************************************************************)
EXTENDS Launch, Naturals

CONSTANTS Claimed,      \* the mark of a VM directory without a configuration
          MaxRemovals   \* how often a VM is removed (a bound of the model)

VARIABLES
  vms,        \* vms[v]: what the store holds under v's name
  creating,   \* creating[v]: is a create of v going on?
  removals,   \* removals[v]: how often v's directory has been removed
  loaded,     \* loaded[r]: removals of r's VM when r loaded it
  failed      \* ghost: has a create of v failed or died in v's directory
              \* since that was last removed?

storeVars == <<vms, creating, removals, failed>>
lifeVars == <<allVars, vms, creating, removals, loaded, failed>>

Config(v) == [name |-> v]

ASSUME LifecycleAssumption ==
  /\ MaxRemovals \in Nat
  /\ Claimed # None
  /\ \A v \in Vms : Config(v) \notin {None, Claimed}

Registry == INSTANCE VmRegistry WITH
              Names <- Vms, Configs <- {Config(v) : v \in Vms}, NoVm <- None

LifeTypeOK == /\ TypeOK
              /\ vms \in [Vms -> {None, Claimed} \union {Config(v) : v \in Vms}]
              /\ creating \in [Vms -> BOOLEAN]
              /\ removals \in [Vms -> 0..MaxRemovals]
              /\ loaded \in [Runs -> 0..MaxRemovals]
              /\ failed \in [Vms -> BOOLEAN]

Exists(v) == vms[v] # None

Loads(v) == vms[v] = Config(v)

LifeInit == /\ Init
            /\ Registry!Init
            /\ removals = [v \in Vms |-> 0]
            /\ loaded = [r \in Runs |-> 0]
            /\ failed = [v \in Vms |-> FALSE]

-----------------------------------------------------------------------------
(* Vm::create: past its checks, its directory, and either way it ends.     *)
BeginCreate(v) == /\ Registry!Begin(v)
                  /\ UNCHANGED <<allVars, removals, loaded, failed>>

MakeVmDir(v) == /\ Registry!Claim(v)
                /\ UNCHANGED <<allVars, removals, loaded, failed>>

Created(v) == /\ Registry!Publish(v, Config(v))
              /\ UNCHANGED <<allVars, removals, loaded, failed>>

(* The directory, the image or config.toml cannot be made (vm.rs 50, 52,   *)
(* 58), or the program is killed.  Nothing is taken back.                  *)
CreateFails(v) == /\ Registry!Abandon(v)
                  /\ failed' = [failed EXCEPT ![v] = @ \/ Exists(v)]
                  /\ UNCHANGED <<allVars, removals, loaded>>

(* The user deletes the directory while no create and no guest is at work  *)
(* in it; a launch may be.  The socket goes along when it lies there.      *)
RemoveVm(v) ==
  /\ \A r \in Runs : vm[r] = v => ~QemuAlive(r)
  /\ removals[v] < MaxRemovals
  /\ Registry!Remove(v)
  /\ removals' = [removals EXCEPT ![v] = @ + 1]
  /\ failed' = [failed EXCEPT ![v] = FALSE]
  /\ vars' = [vars EXCEPT ![v] = None]
  /\ \/ UNCHANGED sock
     \/ sock' = [sock EXCEPT ![v] = None]
  /\ UNCHANGED <<pc, vm, host, outcome, processes, fresh, loaded>>

-----------------------------------------------------------------------------
(* Vm::load, and launch with the VM it gave.                               *)
LoadAndBegin(r) ==
  /\ \E v \in Vms, h \in Hosts, iso_there \in BOOLEAN :
       /\ Loads(v)
       /\ BeginLaunch(r, v, h, iso_there)
       /\ loaded' = [loaded EXCEPT ![r] = removals[v]]
  /\ UNCHANGED storeVars

(* fs::copy does not make the directory of its target; once open, the file *)
(* can be unlinked under it.                                               *)
OpenVarsThere(r) == OpenVars(r) /\ Exists(vm[r]) /\ UNCHANGED storeVars

CopyVarsThere(r) == CopyVars(r) /\ vars[vm[r]] # None /\ UNCHANGED storeVars

CopyVarsUnlinked(r) == /\ pc[r] = "copy_vars"
                       /\ vars[vm[r]] = None
                       /\ Goto(r, "tpm")
                       /\ UNCHANGED <<vm, host, files, processes, fresh, storeVars>>

(* create_dir_all makes the VM's directory with its tpm/, if it is gone.   *)
SpawnSwtpmAfresh(r) ==   \* mutant: the VM's directory goes with an old tpm/
  /\ SpawnSwtpm(r)
  /\ vms' = [vms EXCEPT ![vm[r]] = Claimed]
  /\ UNCHANGED <<creating, removals, failed>>

SpawnSwtpmAndDir(r) ==
  /\ SpawnSwtpm(r)
  /\ vms' = IF Exists(vm[r]) THEN vms ELSE [vms EXCEPT ![vm[r]] = Claimed]
  /\ UNCHANGED <<creating, removals, failed>>

SpawnSwtpmFailsWithDir(r) ==
  /\ SpawnSwtpmFails(r)
  /\ \/ UNCHANGED vms
     \/ ~Exists(vm[r]) /\ vms' = [vms EXCEPT ![vm[r]] = Claimed]
  /\ UNCHANGED <<creating, removals, failed>>

OtherLaunchStep(r) ==
  /\ \/ KeepVars(r) \/ NeedVars(r) \/ CopyVarsFails(r)
     \/ TpmNotWanted(r) \/ TpmRefused(r)
     \/ SocketAppears(r) \/ SocketTimeout(r)
     \/ SpawnQemu(r) \/ SpawnQemuFails(r)
     \/ RunningStep(r) \/ Caller(r) \/ Crash(r)
     \/ SwtpmStep(r) \/ QemuExits(r)
  /\ UNCHANGED storeVars

(* QEMU opens the VM's files by name; a guest whose files are gone writes  *)
(* to no file of the store.                                                *)
BootsWithFiles(r) ==
  /\ QemuBoots(r)
  /\ Loads(vm[r]) /\ vars[vm[r]] # None
  /\ UNCHANGED storeVars

GuestWrites(r) == /\ qemu[r] = "booted" /\ vars[vm[r]] # None
                  /\ GuestWritesVars(r)
                  /\ UNCHANGED storeVars

RunStep(r) ==
  /\ \/ OpenVarsThere(r) \/ CopyVarsThere(r) \/ CopyVarsUnlinked(r)
     \/ SpawnSwtpmAndDir(r) \/ SpawnSwtpmFailsWithDir(r)
     \/ BootsWithFiles(r) \/ GuestWrites(r) \/ OtherLaunchStep(r)
  /\ UNCHANGED loaded

LifeNext == \/ \E v \in Vms : \/ BeginCreate(v) \/ MakeVmDir(v)
                             \/ Created(v) \/ CreateFails(v)
                             \/ RemoveVm(v)
            \/ \E r \in Runs : LoadAndBegin(r) \/ RunStep(r)

LifeSpec == LifeInit /\ [][LifeNext]_lifeVars

-----------------------------------------------------------------------------
(* Properties.                                                             *)

(* A directory that holds no VM, which create refuses and list leaves out, *)
(* has one of three reasons: a create is at work on it; a create of it     *)
(* failed or was killed there and nobody has removed it since; or a run    *)
(* that loaded the VM before it was removed has made the directory again.  *)
(* A launch of a VM that is there never leaves a name taken.               *)
TakenNamesExplained == \A v \in Vms :
  vms[v] = Claimed =>
    creating[v] \/ failed[v] \/ \E r \in Runs : vm[r] = v /\ loaded[r] < removals[v]
=============================================================================
