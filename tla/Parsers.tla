------------------------------ MODULE Parsers ------------------------------
(***************************************************************************)
(* How preflight reads the host: /proc/cpuinfo (cpu.rs), /etc/group        *)
(* (kvm.rs), /proc/meminfo (platform.rs), /etc/os-release (distro.rs), the *)
(* output of --version (qemu.rs) and PATH (which.rs).  Pure: no variables. *)
(*                                                                         *)
(* A file is a sequence of lines, taken apart at the separator its parser  *)
(* looks for and trimmed; Noise is a line the separator does not occur in. *)
(* A file that cannot be read counts as empty (Sysroot::read).             *)
(***************************************************************************)
EXTENDS Integers, SequencesExt

CONSTANT NumMax   \* the largest number a field can hold (u32, u64)

Nothing == "nothing"

Noise == [key |-> "", words |-> <<>>]

(* The first element of a sequence that passes a test, or what is given.   *)
FirstThat(seq, Test(_), otherwise) ==
  LET i == SelectInSeq(seq, Test) IN IF i = 0 THEN otherwise ELSE seq[i]

-----------------------------------------------------------------------------
(* parse_cpuinfo: a line is its key and the words of its value.            *)
VirtOf(words) == FirstThat(words, LAMBDA w : w \in {"vmx", "svm"}, Nothing)

NoCpu == [model |-> <<Nothing>>, logical_cores |-> 0, virt |-> Nothing]

CpuLineLast(cpu, line) ==   \* mutant: the last flags line counts
  CASE line.key = "processor" -> [cpu EXCEPT !.logical_cores = @ + 1]
    [] line.key = "model name" /\ cpu.model = <<Nothing>> -> [cpu EXCEPT !.model = line.words]
    [] line.key \in {"flags", "Features"} -> [cpu EXCEPT !.virt = VirtOf(line.words)]
    [] OTHER -> cpu

CpuLineModel(cpu, line) ==   \* mutant: the last model name counts
  CASE line.key = "processor" -> [cpu EXCEPT !.logical_cores = @ + 1]
    [] line.key = "model name" -> [cpu EXCEPT !.model = line.words]
    [] line.key \in {"flags", "Features"} /\ cpu.virt = Nothing
         -> [cpu EXCEPT !.virt = VirtOf(line.words)]
    [] OTHER -> cpu

CpuLine(cpu, line) ==
  CASE line.key = "processor" -> [cpu EXCEPT !.logical_cores = @ + 1]
    [] line.key = "model name" /\ cpu.model = <<Nothing>> -> [cpu EXCEPT !.model = line.words]
    [] line.key \in {"flags", "Features"} /\ cpu.virt = Nothing
         -> [cpu EXCEPT !.virt = VirtOf(line.words)]
    [] OTHER -> cpu

ParseCpuinfo(lines) == FoldLeft(CpuLine, NoCpu, lines)

-----------------------------------------------------------------------------
(* parse_group_name: a line is its fields; the third, when there is one    *)
(* and it is a number, is the gid.                                         *)
Digits == <<"0", "1", "2", "3", "4", "5", "6", "7", "8", "9">>
IsDigit(piece) == Contains(Digits, piece)

(* str::parse of an unsigned integer: the number, or NotANumber.           *)
NotANumber == 0 - 1

Number(text) ==
  IF text = <<>> \/ \E i \in DOMAIN text : ~IsDigit(text[i]) THEN NotANumber
  ELSE LET n == FoldLeft(LAMBDA m, d : 10 * m + SelectInSeq(Digits, LAMBDA e : e = d) - 1, 0, text)
       IN IF n <= NumMax THEN n ELSE NotANumber

GidOf(fields) == IF Len(fields) < 3 THEN NotANumber ELSE Number(fields[3])

ParseGroupNameStops(lines, gid) ==   \* mutant: a malformed line ends the search
  LET line == FirstThat(lines, LAMBDA l : GidOf(l) \in {gid, NotANumber}, <<>>)
  IN IF line # <<>> /\ GidOf(line) = gid THEN line[1] ELSE <<Nothing>>

ParseGroupName(lines, gid) ==
  FirstThat(lines, LAMBDA fields : GidOf(fields) = gid, << <<Nothing>> >>)[1]

(* parse_meminfo: the first line with the key decides, number or not.      *)
ParseMeminfo(lines, key) ==
  LET words == FirstThat(lines, LAMBDA line : line.key = key, Noise).words
  IN IF words = <<>> THEN NotANumber ELSE Number(words[1])

-----------------------------------------------------------------------------
(* version_from_token: the digits and dots a word starts with.             *)
NoVersionAt == <<>>

NumericPrefix(word) ==
  LET stop == SelectInSeq(word, LAMBDA piece : ~(IsDigit(piece) \/ piece = "."))
  IN IF stop = 0 THEN word ELSE SubSeq(word, 1, stop - 1)

(* str::split: the pieces between the separators, empty ones included.     *)
CutAt(acc, piece, separator) ==
  IF piece = separator THEN [done |-> Append(acc.done, acc.part), part |-> <<>>]
  ELSE [acc EXCEPT !.part = Append(@, piece)]

SplitAt(text, separator) ==
  LET end == FoldLeft(LAMBDA acc, piece : CutAt(acc, piece, separator),
                      [done |-> <<>>, part |-> <<>>], text)
  IN Append(end.done, end.part)

VersionFromToken(word) ==
  LET parts == SplitAt(NumericPrefix(word), ".")
      Part(i) == IF i \in DOMAIN parts THEN Number(parts[i]) ELSE NotANumber
      OrZero(n) == IF n = NotANumber THEN 0 ELSE n
  IN IF Len(parts) < 2 \/ Part(1) = NotANumber THEN NoVersionAt
     ELSE <<Part(1), OrZero(Part(2)), OrZero(Part(3))>>

(* parse_version: of the first line, the first word that holds one.        *)
ParseVersionOfLast(words) ==   \* mutant: the last word decides
  IF words = <<>> THEN NoVersionAt ELSE VersionFromToken(Last(words))

ParseVersion(words) ==
  LET i == SelectInSeq(words, LAMBDA word : VersionFromToken(word) # NoVersionAt)
  IN IF i = 0 THEN NoVersionAt ELSE VersionFromToken(words[i])

-----------------------------------------------------------------------------
(* parse_os_release: a line is its key and its value, a sequence of        *)
(* pieces; one that starts with `#` is a comment, whatever it goes on with.*)
Quotes == {"\"", "'"}

UnquoteDouble(value) ==   \* mutant: single quotes stay
  IF Len(value) >= 2 /\ value[1] = "\"" /\ Last(value) = value[1]
  THEN SubSeq(value, 2, Len(value) - 1) ELSE value

Unquote(value) ==
  IF Len(value) >= 2 /\ value[1] \in Quotes /\ Last(value) = value[1]
  THEN SubSeq(value, 2, Len(value) - 1) ELSE value

(* str::split_whitespace.                                                  *)
Blank == " "

WithWord(words, part) == IF part = <<>> THEN words ELSE Append(words, part)

Words(value) == FoldLeft(WithWord, <<>>, SplitAt(value, Blank))

NoOsRelease == [id |-> <<>>, id_like |-> <<>>]

OsReleaseLine(os, line) ==
  CASE line.comment -> os
    [] ~line.comment /\ line.key = "ID" -> [os EXCEPT !.id = <<Unquote(line.value)>>]
    [] ~line.comment /\ line.key = "ID_LIKE" -> [os EXCEPT !.id_like = Words(Unquote(line.value))]
    [] OTHER -> os

ParseOsRelease(lines) == FoldLeft(OsReleaseLine, NoOsRelease, lines)

(* OsRelease::package_manager: ID first, then ID_LIKE in its order.        *)
Managers == [pacman |-> {"arch", "archarm", "manjaro", "endeavouros", "cachyos"},
             apt    |-> {"debian", "ubuntu", "linuxmint", "pop", "raspbian"},
             dnf    |-> {"fedora", "rhel", "centos", "nobara", "bazzite"},
             zypper |-> {"opensuse", "opensuse-tumbleweed", "opensuse-leap", "sles", "suse"}]

ManagersOf(id) == {m \in DOMAIN Managers : \E name \in Managers[m] : id = <<name>>}

PackageManager(os) ==
  LET id == FirstThat(os.id \o os.id_like, LAMBDA i : ManagersOf(i) # {}, <<Nothing>>)
  IN IF ManagersOf(id) = {} THEN "unknown" ELSE CHOOSE m \in ManagersOf(id) : TRUE

-----------------------------------------------------------------------------
(* which::find_in: the first directory of PATH in which the name is an     *)
(* executable file; an entry that is empty is passed over.                 *)
IsExecutable(entry) == entry.kind = "file" /\ entry.executable

FindIn(path) ==
  FirstThat(path, LAMBDA entry : entry.dir # "" /\ IsExecutable(entry),
            [dir |-> Nothing, kind |-> "none", executable |-> FALSE])
=============================================================================
