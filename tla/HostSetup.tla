------------------------------ MODULE HostSetup ------------------------------
(***************************************************************************)
(* A host while its owner sets it up: packages come and go in any order,   *)
(* modules are loaded, groups are joined, and `daholyvm doctor` is asked   *)
(* again after each change.  The steps are the host's, outside the         *)
(* program; Preflight is what the program makes of every state they reach. *)
(***************************************************************************)
EXTENDS Preflight

CONSTANTS Versions,   \* the QEMU versions that can be installed
          Rows        \* the rows of CANDIDATES whose files can be installed

ASSUME SetupAssumption == Rows \subseteq DOMAIN CANDIDATES

VARIABLE host

Binaries == {NotFound} \union {Found(v) : v \in Versions \union {NoVersion}}

RowFiles(i) == {CANDIDATES[i].code, CANDIDATES[i].vars}

(* A fresh Linux installation.                                             *)
Init == \E x86_64, virt \in BOOLEAN :
          host = [is_linux |-> TRUE, x86_64 |-> x86_64, virt |-> virt,
                  kvm |-> "device_missing", system |-> NotFound,
                  img |-> NotFound, files |-> {}, swtpm |-> FALSE]

(* /dev/kvm appears, is opened to this user, or is taken by another        *)
(* hypervisor; without CPU extensions there is none.                       *)
KvmChanges == /\ host.virt
              /\ \E kvm \in KvmStates : host' = [host EXCEPT !.kvm = kvm]

VirtEnabled == ~host.virt /\ host' = [host EXCEPT !.virt = TRUE]

(* A QEMU package brings both binaries; an SDK may shadow either with one  *)
(* of another version.                                                     *)
InstallQemu(v) == host' = [host EXCEPT !.system = Found(v), !.img = Found(v)]
ShadowSystem(b) == host.system.found /\ host' = [host EXCEPT !.system = b]
ShadowImg(b) == host' = [host EXCEPT !.img = b]
RemoveQemu == host' = [host EXCEPT !.system = NotFound, !.img = NotFound]

(* Packages put their firmware files in place, and take them away, whole.  *)
InstallFirmware(i) == host' = [host EXCEPT !.files = @ \union RowFiles(i)]
RemoveFirmware(i)  == host' = [host EXCEPT !.files = @ \ RowFiles(i)]

InstallSwtpm == host' = [host EXCEPT !.swtpm = TRUE]
RemoveSwtpm  == host' = [host EXCEPT !.swtpm = FALSE]

Install == \/ \E v \in Versions : InstallQemu(v)
           \/ \E i \in Rows : InstallFirmware(i)
           \/ InstallSwtpm

Next == \/ Install
        \/ KvmChanges \/ VirtEnabled
        \/ \E b \in Binaries \ {NotFound} : ShadowSystem(b) \/ ShadowImg(b)
        \/ RemoveQemu
        \/ \E i \in Rows : RemoveFirmware(i)
        \/ RemoveSwtpm

Spec == Init /\ [][Next]_host

-----------------------------------------------------------------------------
(* What making a VM without a TPM and booting it takes from the host:      *)
(* create needs qemu-img; launch the system emulator and a firmware pair.  *)
Equipped == /\ host.system.found
            /\ host.img.found
            /\ \E i \in Rows : RowFiles(i) \subseteq host.files

(* A host is only called ready when it is equipped, and one that is has no *)
(* other reason to be refused: not its version of QEMU, its KVM or a       *)
(* missing swtpm.  Being ready does not promise a VM with a TPM its        *)
(* launch, which refuses without swtpm.  Whether an equipped host without  *)
(* CPU extensions is ready is left open: the documentation has them block, *)
(* the code warns.                                                         *)
VerdictFitsUse == /\ CanLaunch(host) => Equipped
                  /\ Equipped /\ host.virt => CanLaunch(host)

(* Following the report's advice never makes a host that could launch one  *)
(* that cannot, whatever was installed before and in whatever order.       *)
InstallingNeverBlocks == [][Install /\ CanLaunch(host) => CanLaunch(host)']_host

(* A package that brings a Secure Boot pair and a plain one is never used  *)
(* for its plain one, whatever else is installed and in whatever order.    *)
BestOfItsPackage ==
  HasFirmware(host.files) /\ ~Best(host.files).secure_boot =>
    \A i \in Installed(host.files) :
      CANDIDATES[i].origin = Best(host.files).origin => ~CANDIDATES[i].secure_boot

(* A plain pair is only used when no Secure Boot pair is installed, as the *)
(* comment on the table has it.                                            *)
SecureBootFirst ==
  HasFirmware(host.files) /\ ~Best(host.files).secure_boot =>
    \A i \in Installed(host.files) : ~CANDIDATES[i].secure_boot
=============================================================================
