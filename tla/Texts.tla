------------------------------- MODULE Texts -------------------------------
(***************************************************************************)
(* The texts that reach DA-HOLY-VM and leave it, while they change: a VM's *)
(* configuration, host and environment are edited one setting at a time,   *)
(* the files preflight reads grow line by line, a name is typed.  The      *)
(* steps are the user's and the system's; Args, Layout and Parsers are     *)
(* what the program makes of every text they reach.                        *)
(***************************************************************************)
EXTENDS Args, Parsers

CONSTANTS Names, Isos, Kvms, FirmwareSets, DataHomes, Homes, RuntimeDirs,
          NamePieces, MaxPieces,
          CpuLines, GroupLines, MemLines, OsAssignments, Versions, PlainWords,
          PathEntries, MaxLines, MaxAssignments

(* Whatever the lines of /proc/cpuinfo are, each has words.                *)
ASSUME CpuLinesAssumption == \A line \in CpuLines : line.words \in Seq(ToSet(line.words))

(* What a binary prints before its version is no version, and the parts of *)
(* one are numbers of up to two digits, which is how Printed writes them.  *)
ASSUME PlainWordsAssumption == \A word \in PlainWords : VersionFromToken(word) = NoVersionAt
ASSUME VersionsAssumption ==
  \A v \in Versions : /\ v = <<v[1], v[2], v[3]>>
                      /\ \A i \in 1..3 : v[i] \in 0..99 /\ v[i] <= NumMax

(* The names of distributions are words without blanks or quotes.          *)
ASSUME OsAssignmentsAssumption ==
  \A a \in OsAssignments :
    /\ a.ids \in Seq(ToSet(a.ids))
    /\ \A id \in ToSet(a.ids) : /\ id \in Seq(ToSet(id)) /\ id # <<>>
                               /\ ToSet(id) \intersect ({Blank} \union Quotes) = {}

(* A VM is asked for by a name that is valid, and every path is a text.    *)
ASSUME NamesAssumption == \A name \in Names : ValidName(name)
ASSUME PathsAssumption ==
  \A text \in Names \union Isos \union DataHomes \union Homes \union RuntimeDirs :
    text \in Seq(ToSet(text))

(* What is typed has a length, and so has a runtime directory.             *)
ASSUME PiecesAssumption == NamePieces \subseteq DOMAIN ByteLen
ASSUME RunAssumption ==
  /\ {"run", "user", "4294967295"} \subseteq DOMAIN ByteLen
  /\ ByteLen["run"] = 3 /\ ByteLen["user"] = 4 /\ ByteLen["4294967295"] = 10

VARIABLE input

(* What the command line of a VM is built from.  The name in config.toml   *)
(* is another than the directory's when the user has copied the directory. *)
Vm(directory, name, iso, tpm, kvm, files, env) ==
  [kind |-> "vm", directory |-> directory,
   config |-> [name |-> name, cpus |-> "cpus", memory_mib |-> "memory", iso |-> iso, tpm |-> tpm],
   host |-> [kvm |-> kvm, files |-> files],
   env |-> env]

Envs == [xdg_data_home : DataHomes, home : Homes, xdg_runtime_dir : RuntimeDirs]

Init ==
  \/ \E directory, name \in Names, files \in FirmwareSets, env \in Envs :
       input = Vm(directory, name, NoIso, TRUE, "device_missing", files, env)
  \/ input = [kind |-> "name", text |-> <<>>]
  \/ \E kind \in {"cpuinfo", "group", "meminfo", "version", "path"} :
       input = [kind |-> kind, lines |-> <<>>]
  \/ input = [kind |-> "os_release", lines |-> <<>>, meant |-> NoOsRelease]

EditConfig == \/ \E iso \in Isos : input' = [input EXCEPT !.config.iso = iso]
              \/ \E tpm \in BOOLEAN : input' = [input EXCEPT !.config.tpm = tpm]

EditHost == \/ \E kvm \in Kvms : input' = [input EXCEPT !.host.kvm = kvm]
            \/ \E files \in FirmwareSets : input' = [input EXCEPT !.host.files = files]

Edit == input.kind = "vm" /\ (EditConfig \/ EditHost)

Type == /\ input.kind = "name"
        /\ Len(input.text) < MaxPieces
        /\ \E piece \in NamePieces : input' = [input EXCEPT !.text = Append(@, piece)]

LinesOf(kind) == CASE kind = "cpuinfo" -> CpuLines
                   [] kind = "group"   -> GroupLines
                   [] kind = "meminfo" -> MemLines
                   [] kind = "version" -> PlainWords
                   [] kind = "path"    -> PathEntries

Grow == /\ input.kind \in {"cpuinfo", "group", "meminfo", "version", "path"}
        /\ Len(input.lines) < MaxLines
        /\ \E line \in LinesOf(input.kind) : input' = [input EXCEPT !.lines = Append(@, line)]

(* A distribution writes an assignment, quoted as it likes; its last one   *)
(* for a key is what it means.                                             *)
NoQuote == ""

Quoted(quote, text) == IF quote = NoQuote THEN text ELSE <<quote>> \o text \o <<quote>>

Joined(ids) == FlattenSeq([i \in DOMAIN ids |-> IF i = 1 THEN ids[i] ELSE <<Blank>> \o ids[i]])

Assign == /\ input.kind = "os_release"
          /\ Len(input.lines) < MaxAssignments
          /\ \E a \in OsAssignments, quote \in Quotes \union {NoQuote}, comment \in BOOLEAN :
               input' = [input EXCEPT
                 !.lines = Append(@, [comment |-> comment, key |-> a.key,
                                      value |-> Quoted(quote, Joined(a.ids))]),
                 !.meant = CASE comment -> @
                             [] ~comment /\ a.key = "ID" -> [@ EXCEPT !.id = <<Joined(a.ids)>>]
                             [] ~comment /\ a.key = "ID_LIKE" -> [@ EXCEPT !.id_like = a.ids]
                             [] OTHER -> @]

Next == Edit \/ Type \/ Grow \/ Assign

Spec == Init /\ [][Next]_input

-----------------------------------------------------------------------------
(* The command line of the VM in the input, when it has one.               *)
HasArgv == /\ input.kind = "vm"
           /\ HasFirmware(input.host.files)
           /\ ~NoHome(input.env)

Paths == LoadedPaths(input.env, input.directory, input.config)
Argv == Build(input.config, input.host, Paths)

Drives(argv) == {QemuReads(v) : v \in Values(argv, "-drive")}
FilesOf(drives) == UNION {Valued(d, "file=") : d \in drives}
Writable(drives) == {d \in drives : <<"readonly=", "on">> \notin d}

DriveKeys == {"if=", "format=", "unit=", "readonly=", "id=", "media=", "file="}

(* QEMU takes every path for what it is, whatever the data directory, the  *)
(* VM and the medium are called: each drive has the one file it should     *)
(* have and no option nobody wrote, the socket path arrives whole, and the *)
(* disk is opened in the format it is created in.                          *)
PathsReadBack == HasArgv =>
  LET argv == Argv
      drives == Drives(argv)
      iso == IF input.config.iso = NoIso THEN {} ELSE {input.config.iso}
      chardevs == {QemuReads(v) : v \in Values(argv, "-chardev")}
      image == Values(CreateArgs(Paths.disk), "image")
  IN /\ FilesOf(drives) = {<<Best(input.host.files).code>>, Paths.vars, Paths.disk} \union iso
     /\ \A d \in drives : /\ Cardinality(Valued(d, "file=")) = 1
                                /\ \A option \in d : option[1] \in DriveKeys
     /\ UNION {Valued(c, "path=") : c \in chardevs} =
          (IF input.config.tpm THEN {Paths.tpm_socket} ELSE {})
     /\ \A d \in drives : Valued(d, "file=") = image =>
          Valued(d, "format=") = Values(CreateArgs(Paths.disk), "-f")

(* Every device finds what it names, one backend each: no dangling         *)
(* reference, no backend left over, no two devices on one port, and the    *)
(* boot order speaks of a medium exactly when there is one.                *)
Wired == HasArgv =>
  LET argv == Argv
      read == [i \in DOMAIN argv |-> QemuReads(argv[i].value)]
      ValuesOf(flag, key) == UNION {Valued(read[i], key) : i \in {j \in DOMAIN argv : argv[j].flag = flag}}
      ports == [i \in {j \in DOMAIN argv : Valued(read[j], "bus=") # {}} |-> Valued(read[i], "bus=")]
  IN /\ ValuesOf("-device", "drive=") = ValuesOf("-drive", "id=")
     /\ ValuesOf("-device", "netdev=") = ValuesOf("-netdev", "id=")
     /\ ValuesOf("-device", "tpmdev=") = ValuesOf("-tpmdev", "id=")
     /\ ValuesOf("-tpmdev", "chardev=") = ValuesOf("-chardev", "id=")
     /\ {<<port[1]>> : port \in ValuesOf("-device", "bus=")} = ValuesOf("-device", "id=")
     /\ IsInjective(ports)
     /\ <<"dc">> \in ValuesOf("-boot", "order=") <=> <<"cd">> \in ValuesOf("-drive", "id=")

(* Nobody boots a VM from one of its own files: the code does not look.    *)
MediaApart ==
  \A env \in Envs, name \in Names, iso \in Isos \ {NoIso} :
    iso # VmPaths(env, name).disk /\ iso # VmPaths(env, name).vars

(* No file one VM's guest can write is a file of another VM's guest, not   *)
(* even of a copy that still carries the first one's name in its           *)
(* config.toml: the disk, the variable store and the TPM's socket are the  *)
(* directory's own, and the firmware image they share is read-only.        *)
NoSharedWrites == HasArgv =>
  LET written == FilesOf(Writable(Drives(Argv)))
  IN \A other \in Names \ {input.directory} :
       LET copy == LoadedPaths(input.env, other, input.config)
       IN /\ written \intersect FilesOf(Drives(Build(input.config, input.host, copy))) = {}
          /\ Paths.tpm_socket # copy.tpm_socket

(* SMM is on and the variable store protected exactly when the image in    *)
(* the first flash unit is a Secure Boot one: the three flags agree with   *)
(* the firmware they are for, whichever of the installed pairs that is.    *)
SecureBootAgrees == HasArgv =>
  LET argv == Argv
      smm == UNION {Valued(QemuReads(v), "smm=") : v \in Values(argv, "-machine")}
      code == FilesOf({d \in Drives(argv) : <<"unit=", "0">> \in d})
      secure == \E i \in DOMAIN CANDIDATES : CANDIDATES[i].secure_boot /\ <<CANDIDATES[i].code>> \in code
  IN /\ smm = {<<IF secure THEN "on" ELSE "off">>}
     /\ <<"driver=cfi.pflash01,property=secure,value=on">> \in Values(argv, "-global") <=> secure

(* Inserting, changing or removing the medium changes the medium and the   *)
(* boot order and nothing else: the guest finds its disk, its network card *)
(* and its TPM where they were when Windows was installed.                 *)
OfMedium(a) == a.flag = "-boot" \/ Contains(a.value, "cd")

ButMedium(argv) ==
  FoldLeft(LAMBDA rest, a : IF OfMedium(a) THEN rest ELSE Append(rest, a), <<>>, argv)

MediumOnlyAdds == HasArgv =>
  LET rest == ButMedium(Argv)
  IN \A iso \in Isos :
       rest = ButMedium(Build([input.config EXCEPT !.iso = iso], input.host, Paths))

(* swtpm binds the socket QEMU connects to and keeps its state with the VM *)
(* it belongs to, when no directory has a comma in its name: swtpm cannot  *)
(* be told of one, and its paths are pushed as they are.                   *)
SwtpmValue(flag, key) ==
  UNION {Valued(SwtpmReads(v), key) : v \in Values(SocketArgs(Paths.tpm_state, Paths.tpm_socket), flag)}

QemuSocket == UNION {Valued(QemuReads(v), "path=") : v \in Values(Argv, "-chardev")}

SameSocket ==
  HasArgv /\ input.config.tpm /\ ~Contains(Paths.tpm_socket \o Paths.tpm_state, ",") =>
    /\ SwtpmValue("--ctrl", "path=") = QemuSocket
    /\ SwtpmValue("--tpmstate", "dir=") = {Paths.tpm_state}

-----------------------------------------------------------------------------
(* A valid name is one component below vms/, wherever that is, and the     *)
(* files of two VMs are never the same.                                    *)
FilesOfVm(env, name) == LET p == VmPaths(env, name)
                        IN {p.dir, p.disk, p.vars, p.tpm_state, p.tpm_socket}

NamesStayInside ==
  input.kind = "name" /\ ValidName(input.text) =>
    \A env \in Envs : ~NoHome(env) =>
      /\ Walk(VmDir(env, input.text)) = Append(Walk(VmsDir(env)), input.text)
      /\ \A other \in Names \ {input.text} :
           FilesOfVm(env, input.text) \intersect FilesOfVm(env, other) = {}

(* Every name that can be created can be run with a TPM when the session   *)
(* has the usual runtime directory, /run/user/<uid>: the longest name and  *)
(* the longest uid still make a socket path the kernel takes whole.        *)
SocketsFitRuntimeDir ==
  input.kind = "name" /\ ValidName(input.text) =>
    \A env \in Envs :
      env.xdg_runtime_dir = <<"/", "run", "/", "user", "/", "4294967295">>
        => Bytes(TpmSocket(env, input.text)) <= MAX_SOCKET_PATH

-----------------------------------------------------------------------------
(* An extension the first processor block lists is found, nothing is found *)
(* that no flags line lists, and every block counts as a core.  Of one     *)
(* that only a later block lists nothing is said: the comment on           *)
(* parse_cpuinfo has the first block used alone, the code goes on.         *)
Extensions(line) ==
  IF line.key \in {"flags", "Features"} THEN {"vmx", "svm"} \intersect ToSet(line.words) ELSE {}

ExtensionsOn(I) == UNION {Extensions(input.lines[i]) : i \in I}

Processors(I) == {i \in I : input.lines[i].key = "processor"}

CpuFound == input.kind = "cpuinfo" =>
  LET cpu == ParseCpuinfo(input.lines)
      First == {i \in DOMAIN input.lines : Cardinality(Processors(1..i)) <= 1}
  IN /\ ExtensionsOn(First) # {} => cpu.virt \in ExtensionsOn(First)
     /\ cpu.virt \in ExtensionsOn(DOMAIN input.lines) \union {Nothing}
     /\ cpu.logical_cores = Cardinality(Processors(DOMAIN input.lines))

(* The group the KVM advice names is the one that owns the device,         *)
(* whatever malformed lines the file has.                                  *)
GroupFound == input.kind = "group" =>
  \A i \in DOMAIN input.lines :
    LET gid == GidOf(input.lines[i])
    IN gid # NotANumber =>
         \E j \in DOMAIN input.lines : /\ GidOf(input.lines[j]) = gid
                                       /\ ParseGroupName(input.lines, gid) = input.lines[j][1]

(* The version a binary prints is the one that is read, after whatever     *)
(* words, with the patch level or without it, and whatever follows it.     *)
Decimal(n) == IF n < 10 THEN <<Digits[n + 1]>> ELSE <<Digits[(n \div 10) + 1], Digits[(n % 10) + 1]>>

Printed(v) == Decimal(v[1]) \o <<".">> \o Decimal(v[2])
                \o IF v[3] = 0 THEN <<>> ELSE <<".">> \o Decimal(v[3])

VersionReadBack == input.kind = "version" =>
  \A v \in Versions : \A suffix \in {<<>>, <<"(">>, <<"-", "rc", "1", ".", "2">>} :
    ParseVersion(Append(input.lines, Printed(v) \o suffix) \o <<Printed(<<1, 0, 0>>)>>) = v

(* /etc/os-release is read as the distribution meant it, in any quotes;    *)
(* and one that names a parent with a known package manager has advice.    *)
OsReadBack == input.kind = "os_release" =>
  LET os == ParseOsRelease(input.lines)
  IN /\ os = input.meant
     /\ PackageManager(os) # "unknown" <=>
          \E id \in ToSet(input.meant.id \o input.meant.id_like) : ManagersOf(id) # {}

(* What has been found stays found while the file grows: a processor that  *)
(* comes online, a group or a directory added at the end changes no        *)
(* earlier answer.                                                         *)
Shown(n) == IF n = NotANumber THEN <<Nothing>> ELSE Decimal(n)

Answers(lines, kind) ==
  CASE kind = "cpuinfo" -> LET cpu == ParseCpuinfo(lines) IN {<<"model", cpu.model>>, <<"virt", <<cpu.virt>>>>}
    [] kind = "group"   -> {<<gid, ParseGroupName(lines, gid)>> : gid \in 0..NumMax}
    [] kind = "meminfo" -> {<<key, Shown(ParseMeminfo(lines, key))>> : key \in {"MemTotal", "MemAvailable"}}
    [] kind = "path"    -> {<<"dir", <<FindIn(lines).dir>>>>}
    [] OTHER            -> {}

AnswersStick ==
  input.kind \in {"cpuinfo", "group", "meminfo", "path"} =>
    LET now == Answers(input.lines, input.kind)
    IN \A n \in 0..Len(input.lines) :
         \A a \in Answers(SubSeq(input.lines, 1, n), input.kind) :
           a[2] = <<Nothing>> \/ a \in now
=============================================================================
