------------------------------- MODULE Launch -------------------------------
(***************************************************************************)
(* Booting VMs: Vm::launch and the three processes it leads to.            *)
(*                                                                         *)
(* A run is one `daholyvm run`: it checks the host, gives the VM its       *)
(* variable store, starts swtpm and waits for its socket, starts QEMU, and *)
(* then owns both until the guest ends (vm.rs, tpm.rs, qemu/runtime.rs,    *)
(* run of main.rs).  swtpm and QEMU are processes of their own and take    *)
(* their steps when they please; a run may be killed between any two of    *)
(* its own.  A run's number stands for the run, its swtpm and its QEMU.    *)
(***************************************************************************)
EXTENDS Preflight

CONSTANTS Runs,         \* program runs, each for one launch
          Vms,          \* the VMs they boot
          Hosts,        \* the states of the host that preflight may find
          TpmVms,       \* the VMs configured with a TPM
          IsoVms,       \* the VMs configured with an installation medium
          LongSocket,   \* the VMs whose socket path exceeds MAX_SOCKET_PATH
          Overlapping,  \* may a VM be run while a run of it is going on?
          Failing,      \* may the program be killed, or a copy be cut short?
          None          \* no run, no VM, no host, no file

ASSUME LaunchAssumption ==
  /\ TpmVms \subseteq Vms /\ IsoVms \subseteq Vms /\ LongSocket \subseteq Vms
  /\ Overlapping \in BOOLEAN /\ Failing \in BOOLEAN
  /\ None \notin Runs /\ None \notin Vms /\ None \notin Hosts

VARIABLES
  pc,       \* pc[r]: what r does next
  vm,       \* vm[r]: the VM r boots
  host,     \* host[r]: the preflight report r works from
  outcome,  \* outcome[r]: how r ended
  vars,     \* vars[v]: the VM's OVMF_VARS.fd: whose template, and how much of it
  sock,     \* sock[v]: the run whose swtpm made the socket file
  swtpm,    \* swtpm[r]: the state of r's swtpm process
  qemu,     \* qemu[r]: the state of r's QEMU process
  link,     \* link[r]: the run whose swtpm r's QEMU is connected to
  helper,   \* helper[r]: has Running adopted r's swtpm?
  fresh     \* ghost: was there neither a socket file nor another swtpm of
            \* the VM when r started its own?

files == <<vars, sock>>
processes == <<swtpm, qemu, link, helper>>
allVars == <<pc, vm, host, outcome, vars, sock, swtpm, qemu, link, helper, fresh>>

-----------------------------------------------------------------------------
Steps == {"start", "check_vars", "open_vars", "copy_vars", "tpm", "wait_socket",
          "spawn", "running", "stop_helpers", "done"}

Outcomes == {"none", "HostNotReady", "MissingIso", "MissingBinary", "WriteError",
             "TpmUnavailable", "SocketPathTooLong", "SpawnError", "HelperTimeout",
             "Exited", "Killed", "Dropped", "Crashed"}

Templates == {CANDIDATES[i].vars : i \in DOMAIN CANDIDATES}

(* A variable store: cut short, a fresh copy, or written to by the guest.  *)
VarsFiles == [template : Templates, content : {"partial", "copy", "guest"}]

ASSUME NoFileAssumption == None \notin VarsFiles

TypeOK == /\ pc \in [Runs -> Steps]
          /\ vm \in [Runs -> Vms \union {None}]
          /\ host \in [Runs -> Hosts \union {None}]
          /\ outcome \in [Runs -> Outcomes]
          /\ vars \in [Vms -> VarsFiles \union {None}]
          /\ sock \in [Vms -> Runs \union {None}]
          /\ swtpm \in [Runs -> {"none", "starting", "listening", "dead"}]
          /\ qemu \in [Runs -> {"none", "starting", "booted", "exited"}]
          /\ link \in [Runs -> Runs \union {None}]
          /\ helper \in [Runs -> BOOLEAN]
          /\ fresh \in [Runs -> BOOLEAN]

SwtpmAlive(r) == swtpm[r] \in {"starting", "listening"}
QemuAlive(r) == qemu[r] \in {"starting", "booted"}
HasTpm(r) == vm[r] \in TpmVms

(* Without Overlapping, a VM is only run when no other run and no QEMU     *)
(* works on it.  A stray swtpm is not noticed.                             *)
Idle(v) == \A r \in Runs : vm[r] = v => pc[r] = "done" /\ ~QemuAlive(r)

Init == /\ pc = [r \in Runs |-> "start"]
        /\ vm = [r \in Runs |-> None]
        /\ host = [r \in Runs |-> None]
        /\ outcome = [r \in Runs |-> "none"]
        /\ vars = [v \in Vms |-> None]
        /\ sock = [v \in Vms |-> None]
        /\ swtpm = [r \in Runs |-> "none"]
        /\ qemu = [r \in Runs |-> "none"]
        /\ link = [r \in Runs |-> None]
        /\ helper = [r \in Runs |-> FALSE]
        /\ fresh = [r \in Runs |-> FALSE]

-----------------------------------------------------------------------------
Goto(r, step) == pc' = [pc EXCEPT ![r] = step] /\ UNCHANGED outcome

End(r, how) == /\ pc' = [pc EXCEPT ![r] = "done"]
               /\ outcome' = [outcome EXCEPT ![r] = how]

(* The checks at the head of launch, in their order; iso_there says        *)
(* whether the installation medium is a file just now.                     *)
LaunchError(v, h, iso_there) ==
  IF ~CanLaunch(h) THEN "HostNotReady"
  ELSE IF v \in IsoVms /\ ~iso_there THEN "MissingIso"
  ELSE IF ~h.system.found THEN "MissingBinary"
  ELSE "none"

(* Preflight, Vm::load (see VmStore) and the checks.                       *)
BeginLaunch(r, v, h, iso_there) ==
  /\ pc[r] = "start"
  /\ Overlapping \/ Idle(v)
  /\ vm' = [vm EXCEPT ![r] = v]
  /\ host' = [host EXCEPT ![r] = h]
  /\ LET error == LaunchError(v, h, iso_there)
     IN IF error = "none" THEN Goto(r, "check_vars") ELSE End(r, error)
  /\ UNCHANGED <<files, processes, fresh>>

-----------------------------------------------------------------------------
(* Vm::provision_vars: a store that exists is left alone, whatever it is.  *)
KeepVars(r) ==
  /\ pc[r] = "check_vars"
  /\ vars[vm[r]] # None
  /\ Goto(r, "tpm")
  /\ UNCHANGED <<vm, host, files, processes, fresh>>

NeedVarsAlways(r) ==   \* mutant: the store is provisioned at every launch
  /\ pc[r] = "check_vars"
  /\ IF HasFirmware(host[r].files) THEN Goto(r, "open_vars") ELSE End(r, "HostNotReady")
  /\ UNCHANGED <<vm, host, files, processes, fresh>>

NeedVarsForgotten(r) ==   \* mutant: nothing is copied
  /\ pc[r] = "check_vars"
  /\ vars[vm[r]] = None
  /\ Goto(r, "tpm")
  /\ UNCHANGED <<vm, host, files, processes, fresh>>

NeedVars(r) ==
  /\ pc[r] = "check_vars"
  /\ vars[vm[r]] = None
  /\ IF HasFirmware(host[r].files) THEN Goto(r, "open_vars") ELSE End(r, "HostNotReady")
  /\ UNCHANGED <<vm, host, files, processes, fresh>>

(* fs::copy opens the target, truncating it, and then copies.  It removes  *)
(* nothing when it fails.                                                  *)
OpenVarsFromCode(r) ==   \* mutant: the code image is taken for the template
  /\ pc[r] = "open_vars"
  /\ vars' = [vars EXCEPT ![vm[r]] =
               [template |-> Best(host[r].files).code, content |-> "partial"]]
  /\ Goto(r, "copy_vars")
  /\ UNCHANGED <<vm, host, sock, processes, fresh>>

OpenVars(r) ==
  /\ pc[r] = "open_vars"
  /\ vars' = [vars EXCEPT ![vm[r]] =
               [template |-> Best(host[r].files).vars, content |-> "partial"]]
  /\ Goto(r, "copy_vars")
  /\ UNCHANGED <<vm, host, sock, processes, fresh>>

CopyVars(r) ==
  /\ pc[r] = "copy_vars"
  /\ vars' = [vars EXCEPT ![vm[r]] =
               [template |-> Best(host[r].files).vars, content |-> "copy"]]
  /\ Goto(r, "tpm")
  /\ UNCHANGED <<vm, host, sock, processes, fresh>>

CopyVarsFails(r) ==
  /\ \/ pc[r] = "open_vars"
     \/ pc[r] = "copy_vars" /\ Failing
  /\ End(r, "WriteError")
  /\ UNCHANGED <<vm, host, files, processes, fresh>>

-----------------------------------------------------------------------------
(* Vm::start_tpm, up to the spawn; its Child is a local of launch.         *)
TpmNotWanted(r) ==
  /\ pc[r] = "tpm"
  /\ ~HasTpm(r)
  /\ Goto(r, "spawn")
  /\ UNCHANGED <<vm, host, files, processes, fresh>>

TpmError(r) == IF ~host[r].swtpm THEN "TpmUnavailable"
               ELSE IF vm[r] \in LongSocket THEN "SocketPathTooLong"
               ELSE "none"

TpmRefused(r) ==
  /\ pc[r] = "tpm"
  /\ HasTpm(r)
  /\ TpmError(r) # "none"
  /\ End(r, TpmError(r))
  /\ UNCHANGED <<vm, host, files, processes, fresh>>

(* A directory cannot be made, or swtpm cannot be executed.                *)
SpawnSwtpmFails(r) ==
  /\ pc[r] = "tpm"
  /\ HasTpm(r)
  /\ TpmError(r) = "none"
  /\ \E error \in {"WriteError", "SpawnError"} : End(r, error)
  /\ UNCHANGED <<vm, host, files, processes, fresh>>

SpawnSwtpm(r) ==
  /\ pc[r] = "tpm"
  /\ HasTpm(r)
  /\ TpmError(r) = "none"
  /\ swtpm' = [swtpm EXCEPT ![r] = "starting"]
  /\ fresh' = [fresh EXCEPT ![r] =
                /\ sock[vm[r]] = None
                /\ \A s \in Runs : vm[s] = vm[r] => ~SwtpmAlive(s)]
  /\ Goto(r, "wait_socket")
  /\ UNCHANGED <<vm, host, files, qemu, link, helper>>

(* tpm::wait_for_socket asks for the file, not for who made it.            *)
SocketAssumed(v) == TRUE   \* mutant: no waiting

SocketThere(v) == sock[v] # None

SocketAppears(r) ==
  /\ pc[r] = "wait_socket"
  /\ SocketThere(vm[r])
  /\ Goto(r, "spawn")
  /\ UNCHANGED <<vm, host, files, processes, fresh>>

(* The deadline may pass before the file is looked for again.  The error   *)
(* drops the Child, which ends no process.                                 *)
SocketTimeoutOnceThere(r) ==   \* mutant: the deadline is looked at in the wrong branch
  /\ pc[r] = "wait_socket"
  /\ SocketThere(vm[r])
  /\ End(r, "HelperTimeout")
  /\ UNCHANGED <<vm, host, files, processes, fresh>>

SocketTimeout(r) ==
  /\ pc[r] = "wait_socket"
  /\ End(r, "HelperTimeout")
  /\ UNCHANGED <<vm, host, files, processes, fresh>>

-----------------------------------------------------------------------------
(* args::build, runtime::spawn, and adopt on success.  On failure launch   *)
(* returns and drops the swtpm Child that nothing has adopted.             *)
SpawnQemuUnadopted(r) ==   \* mutant: adopt is not called
  /\ pc[r] = "spawn"
  /\ HasFirmware(host[r].files)
  /\ qemu' = [qemu EXCEPT ![r] = "starting"]
  /\ Goto(r, "running")
  /\ UNCHANGED <<vm, host, files, swtpm, link, helper, fresh>>

SpawnQemu(r) ==
  /\ pc[r] = "spawn"
  /\ HasFirmware(host[r].files)
  /\ qemu' = [qemu EXCEPT ![r] = "starting"]
  /\ helper' = [helper EXCEPT ![r] = HasTpm(r)]
  /\ Goto(r, "running")
  /\ UNCHANGED <<vm, host, files, swtpm, link, fresh>>

SpawnQemuFails(r) ==
  /\ pc[r] = "spawn"
  /\ End(r, IF HasFirmware(host[r].files) THEN "SpawnError" ELSE "HostNotReady")
  /\ UNCHANGED <<vm, host, files, processes, fresh>>

(* Running::wait returns when QEMU has exited; Running::kill ends QEMU     *)
(* first; dropping a Running leaves QEMU alone.  All three stop the helper *)
(* next, with SIGKILL.                                                     *)
WaitReturns(r) ==
  /\ pc[r] = "running"
  /\ qemu[r] = "exited"
  /\ pc' = [pc EXCEPT ![r] = "stop_helpers"]
  /\ outcome' = [outcome EXCEPT ![r] = "Exited"]
  /\ UNCHANGED <<vm, host, files, processes, fresh>>

Kill(r) ==
  /\ pc[r] = "running"
  /\ qemu' = [qemu EXCEPT ![r] = "exited"]
  /\ pc' = [pc EXCEPT ![r] = "stop_helpers"]
  /\ outcome' = [outcome EXCEPT ![r] = "Killed"]
  /\ UNCHANGED <<vm, host, files, swtpm, link, helper, fresh>>

Drop(r) ==
  /\ pc[r] = "running"
  /\ pc' = [pc EXCEPT ![r] = "stop_helpers"]
  /\ outcome' = [outcome EXCEPT ![r] = "Dropped"]
  /\ UNCHANGED <<vm, host, files, processes, fresh>>

StopHelpersForgets(r) ==   \* mutant: the list is cleared, nothing is killed
  /\ pc[r] = "stop_helpers"
  /\ helper' = [helper EXCEPT ![r] = FALSE]
  /\ Goto(r, "done")
  /\ UNCHANGED <<vm, host, files, swtpm, qemu, link, fresh>>

StopHelpers(r) ==
  /\ pc[r] = "stop_helpers"
  /\ swtpm' = IF helper[r] THEN [swtpm EXCEPT ![r] = "dead"] ELSE swtpm
  /\ helper' = [helper EXCEPT ![r] = FALSE]
  /\ Goto(r, "done")
  /\ UNCHANGED <<vm, host, files, qemu, link, fresh>>

(* The program is killed: no destructor runs.                              *)
Crash(r) ==
  /\ Failing
  /\ pc[r] \notin {"start", "done"}
  /\ End(r, "Crashed")
  /\ UNCHANGED <<vm, host, files, processes, fresh>>

-----------------------------------------------------------------------------
(* swtpm: binds the socket, taking the path over from a file that is       *)
(* there; a signal or an error of its own ends it, with or without         *)
(* removing the file.                                                      *)
SwtpmListens(r) ==
  /\ swtpm[r] = "starting"
  /\ swtpm' = [swtpm EXCEPT ![r] = "listening"]
  /\ sock' = [sock EXCEPT ![vm[r]] = r]
  /\ UNCHANGED <<pc, vm, host, outcome, vars, qemu, link, helper, fresh>>

SwtpmDies(r) ==
  /\ SwtpmAlive(r)
  /\ swtpm' = [swtpm EXCEPT ![r] = "dead"]
  /\ \/ UNCHANGED sock
     \/ sock[vm[r]] = r /\ sock' = [sock EXCEPT ![vm[r]] = None]
  /\ UNCHANGED <<pc, vm, host, outcome, vars, qemu, link, helper, fresh>>

(* QEMU: locks the disk, connects to the emulator and boots, or exits; a   *)
(* running guest writes its variable store.                                *)
Locked(v) == \E r \in Runs : vm[r] = v /\ qemu[r] = "booted"

QemuBoots(r) ==
  /\ qemu[r] = "starting"
  /\ ~Locked(vm[r])
  /\ IF HasTpm(r)
     THEN \E s \in Runs : /\ sock[vm[r]] = s
                          /\ swtpm[s] = "listening"
                          /\ link' = [link EXCEPT ![r] = s]
     ELSE UNCHANGED link
  /\ qemu' = [qemu EXCEPT ![r] = "booted"]
  /\ UNCHANGED <<pc, vm, host, outcome, files, swtpm, helper, fresh>>

GuestWritesVars(r) ==
  /\ qemu[r] = "booted"
  /\ vars[vm[r]].content # "partial"
  /\ vars' = [vars EXCEPT ![vm[r]].content = "guest"]
  /\ UNCHANGED <<pc, vm, host, outcome, sock, processes, fresh>>

QemuExits(r) ==
  /\ QemuAlive(r)
  /\ qemu' = [qemu EXCEPT ![r] = "exited"]
  /\ UNCHANGED <<pc, vm, host, outcome, files, swtpm, link, helper, fresh>>

-----------------------------------------------------------------------------
Begin(r) == \E v \in Vms, h \in Hosts, iso_there \in BOOLEAN :
              BeginLaunch(r, v, h, iso_there)

LaunchStep(r) ==
  \/ KeepVars(r) \/ NeedVars(r) \/ OpenVars(r) \/ CopyVars(r) \/ CopyVarsFails(r)
  \/ TpmNotWanted(r) \/ TpmRefused(r) \/ SpawnSwtpmFails(r) \/ SpawnSwtpm(r)
  \/ SocketAppears(r) \/ SocketTimeout(r)
  \/ SpawnQemu(r) \/ SpawnQemuFails(r)

RunningStep(r) == WaitReturns(r) \/ StopHelpers(r)

Caller(r) == Kill(r) \/ Drop(r)

SwtpmStep(r) == SwtpmListens(r) \/ SwtpmDies(r)

QemuStep(r) == QemuBoots(r) \/ GuestWritesVars(r) \/ QemuExits(r)

Next == \E r \in Runs : \/ Begin(r) \/ LaunchStep(r) \/ RunningStep(r)
                        \/ Caller(r) \/ Crash(r)
                        \/ SwtpmStep(r) \/ QemuStep(r)

Spec == Init /\ [][Next]_allVars

(* A run that is not killed takes its next step; nothing is assumed of     *)
(* swtpm, QEMU or the guest.                                               *)
Fairness == \A r \in Runs : WF_allVars(LaunchStep(r)) /\ WF_allVars(RunningStep(r))

FairSpec == Spec /\ Fairness

-----------------------------------------------------------------------------
(* Properties.                                                             *)

(* A guest's TPM is an emulator of its own VM: the one its own run started *)
(* or one that a launch that failed or was killed has left; never one that *)
(* a run which ended as it should left behind.                             *)
OwnTpmOrStray == \A r, s \in Runs :
  link[r] = s /\ s # r =>
    vm[s] = vm[r] /\ outcome[s] \in {"HelperTimeout", "SpawnError", "Crashed"}

(* Moreover, a run that found neither a socket file nor another emulator   *)
(* of the VM starts QEMU only after its own swtpm has made its socket, and *)
(* the guest gets no other: waiting for the file is enough to order the    *)
(* two processes.                                                          *)
OwnTpm ==
  /\ OwnTpmOrStray
  /\ \A r \in Runs :
       HasTpm(r) /\ fresh[r] /\ qemu[r] # "none"
          => swtpm[r] \in {"listening", "dead"} /\ link[r] \in {None, r}

(* The emulator outlives its run only when launch failed between starting  *)
(* it and adopting it, or when the program was killed: a guest that ran,   *)
(* however it ended, and a launch refused earlier leave none.              *)
StrayOnlyIfLaunchFailed == \A r \in Runs :
  pc[r] = "done" /\ SwtpmAlive(r)
     => outcome[r] \in {"HelperTimeout", "SpawnError", "Crashed"}

(* A finished variable store is never copied over again, by whatever later *)
(* launch and whatever firmware that finds: only the guest changes it.     *)
VarsMadeOnce ==
  [][\A v \in Vms :
       vars[v] # None /\ vars[v].content # "partial"
         => vars'[v] \in {vars[v], [vars[v] EXCEPT !.content = "guest"]}]_allVars

(* The checks launch makes are the last word on the host: past them, no    *)
(* step finds a binary or a firmware pair missing in the same report.      *)
ChecksSuffice == \A r \in Runs :
  /\ outcome[r] # "MissingBinary"
  /\ outcome[r] = "HostNotReady" => ~CanLaunch(host[r])

(* QEMU never gets a missing variable store, and one that is cut short     *)
(* only if a run of the VM failed or was killed while copying it, or, when *)
(* runs overlap, is copying it just now.                                   *)
CutOnlyIfFailed == \A r \in Runs : qemu[r] # "none" =>
  /\ vars[vm[r]] # None
  /\ vars[vm[r]].content = "partial" =>
       \E s \in Runs : /\ vm[s] = vm[r]
                        /\ \/ outcome[s] \in {"WriteError", "Crashed"}
                           \/ Overlapping /\ pc[s] = "copy_vars"

(* swtpm is listening, or has been, when QEMU is started.                  *)
ListeningBeforeQemu == \A r \in Runs :
  HasTpm(r) /\ qemu[r] # "none" => swtpm[r] # "starting"

(* A run that has ended has left no emulator running.                      *)
NothingLeftRunning == \A r \in Runs : pc[r] = "done" => ~SwtpmAlive(r)

(* A launch comes to an answer: the guest is started or an error returned, *)
(* even when swtpm never makes its socket.                                 *)
LaunchDecides == \A r \in Runs :
  pc[r] # "start" ~> pc[r] \in {"running", "stop_helpers", "done"}

(* When the guest ends, by itself or killed, its emulator is stopped soon  *)
(* after, unless the program was killed before it could.                   *)
EmulatorFollowsGuest == \A r \in Runs :
  helper[r] /\ qemu[r] = "exited" ~> ~SwtpmAlive(r) \/ outcome[r] = "Crashed"
=============================================================================
