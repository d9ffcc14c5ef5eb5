-------------------------- MODULE HostSetupProofs --------------------------
(***************************************************************************)
(* Proofs about HostSetup, for any QEMU versions and any rows of the       *)
(* firmware table.                                                         *)
(***************************************************************************)
EXTENDS HostSetup, TLAPS

(* The files on the host are those of rows that can be installed, and the  *)
(* program runs on Linux.                                                  *)
HostInv == /\ DOMAIN host = {"is_linux", "x86_64", "virt", "kvm", "system",
                             "img", "files", "swtpm"}
           /\ host.is_linux = TRUE
           /\ host.files \subseteq UNION {RowFiles(i) : i \in Rows}

LEMMA RowsOfTable == Rows \subseteq 1..10 /\ DOMAIN CANDIDATES = 1..10
  BY SetupAssumption DEF CANDIDATES

LEMMA HostInit == Init => HostInv
  BY DEF Init, HostInv

LEMMA HostNext == HostInv /\ [Next]_host => HostInv'
<1> SUFFICES ASSUME HostInv, [Next]_host PROVE HostInv'
  OBVIOUS
<1> USE DEF HostInv
<1>1. CASE Install
  <2>1. ASSUME NEW v \in Versions, InstallQemu(v) PROVE HostInv'
    BY <2>1 DEF InstallQemu
  <2>2. ASSUME NEW i \in Rows, InstallFirmware(i) PROVE HostInv'
    <3>1. RowFiles(i) \subseteq UNION {RowFiles(j) : j \in Rows}
      OBVIOUS
    <3>2. QED BY <2>2, <3>1 DEF InstallFirmware
  <2>3. CASE InstallSwtpm
    BY <2>3 DEF InstallSwtpm
  <2>4. QED BY <1>1, <2>1, <2>2, <2>3 DEF Install
<1>2. CASE KvmChanges \/ VirtEnabled
  BY <1>2 DEF KvmChanges, VirtEnabled
<1>3. ASSUME NEW b \in Binaries, ShadowSystem(b) \/ ShadowImg(b) PROVE HostInv'
  BY <1>3 DEF ShadowSystem, ShadowImg
<1>4. CASE RemoveQemu \/ RemoveSwtpm
  BY <1>4 DEF RemoveQemu, RemoveSwtpm
<1>5. ASSUME NEW i \in Rows, RemoveFirmware(i) PROVE HostInv'
  BY <1>5 DEF RemoveFirmware
<1>6. CASE UNCHANGED host
  BY <1>6
<1>7. QED BY <1>1, <1>2, <1>3, <1>4, <1>5, <1>6 DEF Next

(* On Linux only QEMU, qemu-img and the firmware can block: the other      *)
(* requirements never get worse than a warning.                            *)
LEMMA WhatBlocks ==
  ASSUME NEW h, h.is_linux = TRUE
  PROVE  CanLaunch(h) <=> h.system.found /\ h.img.found /\ HasFirmware(h.files)
<1>1. /\ PlatformStatus(h) # Missing /\ CpuStatus(h) # Missing
      /\ KvmStatus(h) # Missing /\ TpmStatus(h) # Missing
  BY DEF PlatformStatus, CpuStatus, KvmStatus, TpmStatus, Ok, Warn, Missing
<1>2. \A b : BinaryStatus(b) # Missing <=> b.found
  BY DEF BinaryStatus, Ok, Warn, Missing
<1>3. FirmwareStatus(h.files) # Missing <=> HasFirmware(h.files)
  BY DEF FirmwareStatus, Ok, Warn, Missing
<1>4. DOMAIN Requirements(h) = 1..7
  BY DEF Requirements
<1>5. CanLaunch(h) <=>
        /\ Requirements(h)[1] # Missing /\ Requirements(h)[2] # Missing
        /\ Requirements(h)[3] # Missing /\ Requirements(h)[4] # Missing
        /\ Requirements(h)[5] # Missing /\ Requirements(h)[6] # Missing
        /\ Requirements(h)[7] # Missing
  BY <1>4 DEF CanLaunch
<1>6. QED BY <1>1, <1>2, <1>3, <1>5 DEF Requirements

(* A whole pair is on the host only if a row that can be installed put it  *)
(* there: no two rows name the same code image.                            *)
LEMMA CodeOfOneRow ==
  \A i, j \in 1..10 : CANDIDATES[i].code \in RowFiles(j) => i = j
  BY DEF CANDIDATES, Candidate, RowFiles

LEMMA InstalledRows ==
  ASSUME HostInv
  PROVE  HasFirmware(host.files) <=> \E i \in Rows : RowFiles(i) \subseteq host.files
<1>1. ASSUME NEW i \in Installed(host.files) PROVE i \in Rows
  <2>1. i \in 1..10 /\ CANDIDATES[i].code \in host.files
    BY RowsOfTable DEF Installed
  <2>2. PICK j \in Rows : CANDIDATES[i].code \in RowFiles(j)
    BY <2>1 DEF HostInv
  <2>3. QED BY <2>1, <2>2, RowsOfTable, CodeOfOneRow
<1>2. \A i \in DOMAIN CANDIDATES :
        i \in Installed(host.files) <=> RowFiles(i) \subseteq host.files
  BY DEF Installed, RowFiles
<1>3. Installed(host.files) \subseteq DOMAIN CANDIDATES
  BY DEF Installed
<1>4. QED BY <1>1, <1>2, <1>3, SetupAssumption DEF HasFirmware

(* Whatever the owner installs, shadows and removes, in whatever order, a  *)
(* host is called ready only with both binaries and a whole pair, and with *)
(* these and CPU extensions it is.                                         *)
THEOREM VerdictRight == Spec => []VerdictFitsUse
<1>1. HostInv => VerdictFitsUse
  BY WhatBlocks, InstalledRows DEF VerdictFitsUse, Equipped, HostInv
<1>2. QED BY <1>1, HostInit, HostNext, PTL DEF Spec

(* Installing anything leaves a host that could launch one that can.       *)
LEMMA InstallKeeps == HostInv /\ Install /\ CanLaunch(host) => CanLaunch(host)'
<1> SUFFICES ASSUME HostInv, Install, CanLaunch(host) PROVE CanLaunch(host')
  OBVIOUS
<1>1. host'.is_linux = TRUE
  BY HostNext DEF Next, HostInv
<1>2. host.system.found /\ host.img.found /\ HasFirmware(host.files)
  BY WhatBlocks DEF HostInv
<1>3. host'.system.found /\ host'.img.found /\ host.files \subseteq host'.files
  <2> USE <1>2 DEF HostInv
  <2>1. CASE \E v \in Versions : InstallQemu(v)
    BY <2>1 DEF InstallQemu, Found
  <2>2. CASE \E i \in Rows : InstallFirmware(i)
    BY <2>2 DEF InstallFirmware
  <2>3. CASE InstallSwtpm
    BY <2>3 DEF InstallSwtpm
  <2>4. QED BY <2>1, <2>2, <2>3 DEF Install
<1>4. HasFirmware(host'.files)
  BY <1>2, <1>3 DEF HasFirmware, Installed
<1>5. QED BY <1>1, <1>3, <1>4, WhatBlocks

(* Following the report's advice, in whatever order, never takes a host's  *)
(* being ready away.                                                       *)
THEOREM AdviceNeverBlocks == Spec => InstallingNeverBlocks
<1>1. HostInv /\ [Next]_host => [Install /\ CanLaunch(host) => CanLaunch(host)']_host
  BY InstallKeeps
<1>2. QED BY <1>1, HostInit, HostNext, PTL DEF Spec, InstallingNeverBlocks

-----------------------------------------------------------------------------
(* The pair that is used.                                                  *)

(* A row that can be used is one of ten, and of any of them one comes      *)
(* first.                                                                  *)
LEMMA FirstInstalled ==
  ASSUME NEW files, HasFirmware(files)
  PROVE  \E i \in Installed(files) :
           Best(files) = CANDIDATES[i] /\ \A j \in Installed(files) : i <= j
<1> DEFINE S == Installed(files)
<1>1. S \subseteq 1..10 /\ S # {}
  BY RowsOfTable DEF Installed, HasFirmware
<1>2. \E i \in S : \A j \in S : i <= j
  <2> HIDE DEF S
  <2>1. PICK i \in S : TRUE
    BY <1>1
  <2>2. QED BY <1>1
<1>3. QED BY <1>2 DEF Best

(* The table lists the Secure Boot pair of a package before its plain one. *)
LEMMA SecureBootListedFirst ==
  \A i, j \in 1..10 :
    CANDIDATES[i].origin = CANDIDATES[j].origin
      /\ CANDIDATES[i].secure_boot /\ ~CANDIDATES[j].secure_boot => i < j
  BY DEF CANDIDATES, Candidate

(* Whatever is installed, a plain pair is used only when its own package   *)
(* brought no Secure Boot pair, whichever other packages are there.        *)
THEOREM PackageServedBest == Spec => []BestOfItsPackage
<1>1. BestOfItsPackage
  <2> SUFFICES ASSUME HasFirmware(host.files), ~Best(host.files).secure_boot,
                      NEW j \in Installed(host.files),
                      CANDIDATES[j].origin = Best(host.files).origin
               PROVE  ~CANDIDATES[j].secure_boot
    BY DEF BestOfItsPackage
  <2>1. PICK i \in Installed(host.files) :
          Best(host.files) = CANDIDATES[i] /\ \A k \in Installed(host.files) : i <= k
    BY FirstInstalled
  <2>2. i \in 1..10 /\ j \in 1..10 /\ i <= j
    BY <2>1, RowsOfTable DEF Installed
  <2>3. QED BY <2>1, <2>2, SecureBootListedFirst
<1>2. QED BY <1>1, PTL
=============================================================================
