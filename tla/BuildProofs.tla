---------------------------- MODULE BuildProofs ----------------------------
(***************************************************************************)
(* Proofs about the whole command lines of Args in the VM of Texts: what   *)
(* QEMU finds in each argument, what each part of `build` contributes, and *)
(* from that what the properties of Texts say of the whole, for any names, *)
(* media, hosts, environments and paths.                                   *)
(***************************************************************************)
EXTENDS ArgsProofs

-----------------------------------------------------------------------------
(* Lists of one, two and three options, and two lists one after another.   *)
LEMMA ListOfOne ==
  ASSUME NEW one, Sequence(one), Plain(one)
  PROVE  /\ OptionList(<<one>>)
         /\ OptionsIn(<<one>>) = {one}
         /\ \A path : OptionsUpTo(<<one>>, path) = {one \o path}
<1> DEFINE list == <<one>>
<1>1. list \in Seq({one}) /\ Len(list) = 1 /\ list[1] = one
  OBVIOUS
<1> HIDE DEF list
<1>2. 1..1 = {1} /\ 1..0 = {}
  OBVIOUS
<1>0. list # <<>>
  <2>1. Len(list) # 0
    BY <1>1
  <2>2. Len(<<>>) = 0
    OBVIOUS
  <2>3. QED BY <2>1, <2>2, Zenon
<1>3. OptionList(list)
  BY <1>0, <1>1, <1>2 DEF OptionList, Sequence
<1>4. OptionsIn(list) = {one} /\ \A path : OptionsUpTo(list, path) = {one \o path}
  BY <1>1, <1>2 DEF OptionsIn, OptionsUpTo
<1>5. QED BY <1>3, <1>4 DEF list

UpToSecond(list, one, two) ==
  \A path : OptionsUpTo(list, path) = {one, two \o path}

LEMMA ListOfTwo ==
  ASSUME NEW one, Sequence(one), Plain(one), NEW two, Sequence(two), Plain(two)
  PROVE  /\ OptionList(<<one, two>>)
         /\ OptionsIn(<<one, two>>) = {one, two}
         /\ UpToSecond(<<one, two>>, one, two)
<1> DEFINE list == <<one, two>>
<1>1. list \in Seq({one, two}) /\ Len(list) = 2 /\ list[1] = one /\ list[2] = two
  OBVIOUS
<1> HIDE DEF list
<1>2. 1..2 = {1, 2} /\ 1..1 = {1}
  OBVIOUS
<1>0. list # <<>>
  <2>1. Len(list) # 0
    BY <1>1
  <2>2. Len(<<>>) = 0
    OBVIOUS
  <2>3. QED BY <2>1, <2>2, Zenon
<1>3. OptionList(list)
  BY <1>0, <1>1, <1>2 DEF OptionList, Sequence
<1>4. OptionsIn(list) = {one, two}
  BY <1>1, <1>2 DEF OptionsIn
<1>5. ASSUME NEW path PROVE OptionsUpTo(list, path) = {one, two \o path}
  <2>1. {list[i] : i \in 1..(Len(list)-1)} = {one}
    BY <1>1, <1>2
  <2>2. QED BY <1>1, <2>1 DEF OptionsUpTo
<1>6. UpToSecond(list, one, two)
  BY <1>5 DEF UpToSecond
<1>7. QED BY <1>3, <1>4, <1>6 DEF list

UpToThird(list, one, two, three) ==
  \A path : OptionsUpTo(list, path) = {one, two, three \o path}

LEMMA ListOfThree ==
  ASSUME NEW one, Sequence(one), Plain(one), NEW two, Sequence(two), Plain(two),
         NEW three, Sequence(three), Plain(three)
  PROVE  /\ OptionList(<<one, two, three>>)
         /\ OptionsIn(<<one, two, three>>) = {one, two, three}
         /\ UpToThird(<<one, two, three>>, one, two, three)
<1> DEFINE list == <<one, two, three>>
<1>1. /\ list \in Seq({one, two, three}) /\ Len(list) = 3
      /\ list[1] = one /\ list[2] = two /\ list[3] = three
  OBVIOUS
<1> HIDE DEF list
<1>2. 1..3 = {1, 2, 3} /\ 1..2 = {1, 2}
  OBVIOUS
<1>0. list # <<>>
  <2>1. Len(list) # 0
    BY <1>1
  <2>2. Len(<<>>) = 0
    OBVIOUS
  <2>3. QED BY <2>1, <2>2, Zenon
<1>3. OptionList(list)
  BY <1>0, <1>1, <1>2 DEF OptionList, Sequence
<1>4. OptionsIn(list) = {one, two, three}
  BY <1>1, <1>2 DEF OptionsIn
<1>5. ASSUME NEW path PROVE OptionsUpTo(list, path) = {one, two, three \o path}
  <2>1. {list[i] : i \in 1..(Len(list)-1)} = {one, two}
    BY <1>1, <1>2
  <2>2. QED BY <1>1, <2>1 DEF OptionsUpTo
<1>6. UpToThird(list, one, two, three)
  BY <1>5 DEF UpToThird
<1>7. QED BY <1>3, <1>4, <1>6 DEF list

LEMMA ListOfBoth ==
  ASSUME NEW one, OptionList(one), NEW two, OptionList(two)
  PROVE  /\ OptionList(one \o two)
         /\ OptionsIn(one \o two) = OptionsIn(one) \union OptionsIn(two)
         /\ \A path : OptionsUpTo(one \o two, path) = OptionsIn(one) \union OptionsUpTo(two, path)
<1> DEFINE both == one \o two
           m == Len(one)
           n == Len(two)
<1>1. PICK S, Q : one \in Seq(S) /\ two \in Seq(Q)
  BY DEF OptionList, Sequence
<1>2. one \in Seq(S \union Q) /\ two \in Seq(S \union Q) /\ one # <<>> /\ two # <<>>
  BY <1>1 DEF OptionList
<1>3. /\ m \in Nat \ {0} /\ n \in Nat \ {0} /\ Len(both) = m + n /\ both \in Seq(S \union Q)
      /\ \A i \in 1..m : both[i] = one[i]
      /\ \A i \in 1..n : both[m+i] = two[i]
  BY <1>2
<1> HIDE DEF both, m, n
<1>4. ASSUME NEW i \in 1..(m+n), i \notin 1..m PROVE i - m \in 1..n /\ both[i] = two[i - m]
  <2>1. i - m \in 1..n /\ m + (i - m) = i
    BY <1>3, <1>4
  <2>2. QED BY <1>3, <2>1
<1>5. \A i \in 1..n : m + i \in 1..(m+n)
  BY <1>3
<1>6. \A i \in 1..m : i \in 1..(m+n)
  BY <1>3
<1>7. OptionList(both)
  <2>1. /\ \A i \in 1..m : Sequence(one[i]) /\ Plain(one[i])
        /\ \A i \in 1..n : Sequence(two[i]) /\ Plain(two[i])
    BY DEF OptionList, m, n
  <2>2. Sequence(both) /\ both # <<>>
    BY <1>3 DEF Sequence
  <2>3. ASSUME NEW i \in 1..(m+n) PROVE Sequence(both[i]) /\ Plain(both[i])
    BY <1>3, <1>4, <2>1
  <2>4. QED BY <1>3, <2>2, <2>3 DEF OptionList
<1>8. OptionsIn(both) = OptionsIn(one) \union OptionsIn(two)
  <2>1. /\ OptionsIn(both) = {both[i] : i \in 1..(m+n)}
        /\ OptionsIn(one) = {one[i] : i \in 1..m}
        /\ OptionsIn(two) = {two[i] : i \in 1..n}
    BY <1>3 DEF OptionsIn, m, n
  <2>2. OptionsIn(both) \subseteq OptionsIn(one) \union OptionsIn(two)
    BY <1>3, <1>4, <2>1
  <2>3. OptionsIn(one) \subseteq OptionsIn(both)
    BY <1>3, <1>6, <2>1
  <2>4. OptionsIn(two) \subseteq OptionsIn(both)
    BY <1>3, <1>5, <2>1
  <2>5. QED BY <2>2, <2>3, <2>4
<1>9. ASSUME NEW path
      PROVE  OptionsUpTo(both, path) = OptionsIn(one) \union OptionsUpTo(two, path)
  <2> DEFINE A == {both[i] : i \in 1..(m+n-1)}
             B == {one[i] : i \in 1..m}
             C == {two[i] : i \in 1..(n-1)}
             last == two[n] \o path
  <2>1. A \subseteq B \union C
    <3>1. ASSUME NEW i \in 1..(m+n-1) PROVE both[i] \in B \union C
      <4>1. CASE i \in 1..m
        BY <1>3, <4>1
      <4>2. CASE i \notin 1..m
        <5>1. i \in 1..(m+n)
          BY <1>3
        <5>2. i - m \in 1..n /\ both[i] = two[i - m]
          BY <1>4, <4>2, <5>1
        <5>3. i - m \in 1..(n-1)
          BY <1>3, <5>2
        <5>4. QED BY <5>2, <5>3
      <4>3. QED BY <4>1, <4>2
    <3>2. QED BY <3>1
  <2>2. B \subseteq A
    <3>1. \A i \in 1..m : i \in 1..(m+n-1)
      BY <1>3
    <3>2. QED BY <1>3, <3>1
  <2>3. C \subseteq A
    <3>1. \A i \in 1..(n-1) : m + i \in 1..(m+n-1) /\ i \in 1..n
      BY <1>3
    <3>2. QED BY <1>3, <3>1
  <2>4. both[m+n] = two[n]
    BY <1>3
  <2>5. OptionsUpTo(both, path) = A \union {last}
    BY <1>3, <2>4 DEF OptionsUpTo
  <2>6. OptionsIn(one) = B /\ OptionsUpTo(two, path) = C \union {last}
    BY DEF OptionsIn, OptionsUpTo, m, n
  <2> HIDE DEF A, B, C, last
  <2>7. QED BY <2>1, <2>2, <2>3, <2>5, <2>6
<1>10. QED BY <1>7, <1>8, <1>9 DEF both

-----------------------------------------------------------------------------
(* The options the command line is made of.                                *)
LEMMA KeyAlone ==
  ASSUME NEW key, key # Comma
  PROVE  Sequence(<<key>>) /\ Plain(<<key>>)
<1> DEFINE option == <<key>>
<1>1. option \in Seq({key}) /\ Len(option) = 1 /\ option[1] = key
  OBVIOUS
<1> HIDE DEF option
<1>2. option # <<>>
  <2>1. Len(option) # 0
    BY <1>1
  <2>2. Len(<<>>) = 0
    OBVIOUS
  <2>3. QED BY <2>1, <2>2, Zenon
<1>3. Sequence(option)
  BY <1>1 DEF Sequence
<1>4. 1..1 = {1}
  OBVIOUS
<1>5. Plain(option)
  BY <1>1, <1>2, <1>4 DEF Plain
<1>6. QED BY <1>3, <1>5 DEF option

LEMMA KeyValue ==
  ASSUME NEW key, key # Comma, NEW value, value # Comma
  PROVE  Sequence(<<key, value>>) /\ Plain(<<key, value>>)
<1> DEFINE option == <<key, value>>
<1>1. option \in Seq({key, value}) /\ Len(option) = 2 /\ option[1] = key /\ option[2] = value
  OBVIOUS
<1> HIDE DEF option
<1>2. option # <<>>
  <2>1. Len(option) # 0
    BY <1>1
  <2>2. Len(<<>>) = 0
    OBVIOUS
  <2>3. QED BY <2>1, <2>2, Zenon
<1>3. Sequence(option)
  BY <1>1 DEF Sequence
<1>4. 1..2 = {1, 2}
  OBVIOUS
<1>5. Plain(option)
  BY <1>1, <1>2, <1>4 DEF Plain
<1>6. QED BY <1>3, <1>5 DEF option

LEMMA FileOption ==
  /\ OptionList(File) /\ \A path : OptionsUpTo(File, path) = {<<"file=">> \o path}
<1> DEFINE option == <<"file=">>
<1>1. Sequence(option) /\ Plain(option)
  BY KeyAlone DEF Comma
<1> HIDE DEF option
<1>2. OptionList(<<option>>) /\ \A path : OptionsUpTo(<<option>>, path) = {option \o path}
  BY <1>1, ListOfOne
<1>3. QED BY <1>2 DEF File, option

LEMMA ReadOnlyOption ==
  OptionList(ReadOnly) /\ OptionsIn(ReadOnly) = {<<"readonly=", "on">>}
<1> DEFINE option == <<"readonly=", "on">>
<1>1. Sequence(option) /\ Plain(option)
  BY KeyValue DEF Comma
<1> HIDE DEF option
<1>2. OptionList(<<option>>) /\ OptionsIn(<<option>>) = {option}
  BY <1>1, ListOfOne
<1>3. QED BY <1>2 DEF ReadOnly, option

LEMMA MediaOption ==
  OptionList(<< <<"media=", "cdrom">> >>) /\ OptionsIn(<< <<"media=", "cdrom">> >>) = {<<"media=", "cdrom">>}
<1> DEFINE option == <<"media=", "cdrom">>
<1>1. Sequence(option) /\ Plain(option)
  BY KeyValue DEF Comma
<1> HIDE DEF option
<1>2. OptionList(<<option>>) /\ OptionsIn(<<option>>) = {option}
  BY <1>1, ListOfOne
<1>3. QED BY <1>2 DEF option

LEMMA PflashOptions ==
  ASSUME NEW unit, unit # Comma
  PROVE  /\ OptionList(Pflash(unit))
         /\ OptionsIn(Pflash(unit)) = {<<"if=", "pflash">>, <<"format=", "raw">>, <<"unit=", unit>>}
<1> DEFINE one == <<"if=", "pflash">>
           two == <<"format=", "raw">>
           three == <<"unit=", unit>>
<1>1. /\ Sequence(one) /\ Plain(one) /\ Sequence(two) /\ Plain(two)
      /\ Sequence(three) /\ Plain(three)
  BY KeyValue DEF Comma
<1> HIDE DEF one, two, three
<1>2. OptionList(<<one, two, three>>) /\ OptionsIn(<<one, two, three>>) = {one, two, three}
  BY <1>1, ListOfThree
<1>3. QED BY <1>2 DEF Pflash, one, two, three

LEMMA BackendOptions ==
  ASSUME NEW id, id # Comma, NEW format, format # Comma
  PROVE  /\ OptionList(Backend(id, format))
         /\ OptionsIn(Backend(id, format)) = {<<"id=", id>>, <<"if=", "none">>, <<"format=", format>>}
<1> DEFINE one == <<"id=", id>>
           two == <<"if=", "none">>
           three == <<"format=", format>>
<1>1. /\ Sequence(one) /\ Plain(one) /\ Sequence(two) /\ Plain(two)
      /\ Sequence(three) /\ Plain(three)
  BY KeyValue DEF Comma
<1> HIDE DEF one, two, three
<1>2. OptionList(<<one, two, three>>) /\ OptionsIn(<<one, two, three>>) = {one, two, three}
  BY <1>1, ListOfThree
<1>3. QED BY <1>2 DEF Backend, one, two, three

-----------------------------------------------------------------------------
(* The drives, as QEMU reads them.                                         *)
CodeDrive(code) == {<<"if=", "pflash">>, <<"format=", "raw">>, <<"unit=", "0">>,
                    <<"readonly=", "on">>, <<"file=">> \o code}
VarsDrive(vars) == {<<"if=", "pflash">>, <<"format=", "raw">>, <<"unit=", "1">>,
                    <<"file=">> \o vars}
DiskDrive(disk) == {<<"id=", "hd">>, <<"if=", "none">>, <<"format=", "qcow2">>,
                    <<"file=">> \o disk}
CdDrive(iso)    == {<<"id=", "cd">>, <<"if=", "none">>, <<"format=", "raw">>,
                    <<"media=", "cdrom">>, <<"readonly=", "on">>, <<"file=">> \o iso}

LEMMA CodeRead ==
  ASSUME NEW code, Sequence(code)
  PROVE  QemuReads(Escaped(Pflash("0") \o ReadOnly \o File, code)) = CodeDrive(code)
<1> DEFINE flash == Pflash("0")
           both == flash \o ReadOnly
           all == both \o File
<1>1. OptionList(flash) /\ OptionsIn(flash) = {<<"if=", "pflash">>, <<"format=", "raw">>, <<"unit=", "0">>}
  BY PflashOptions DEF Comma
<1> HIDE DEF flash
<1>2. OptionList(both) /\ OptionsIn(both) = OptionsIn(flash) \union {<<"readonly=", "on">>}
  BY <1>1, ReadOnlyOption, ListOfBoth
<1> HIDE DEF both
<1>3. OptionList(all) /\ OptionsUpTo(all, code) = OptionsIn(both) \union {<<"file=">> \o code}
  BY <1>2, FileOption, ListOfBoth
<1> HIDE DEF all
<1>4. QemuReads(Escaped(all, code)) = OptionsUpTo(all, code)
  BY <1>3, EscapedReadsBack
<1>5. QemuReads(Escaped(all, code)) = CodeDrive(code)
  <2> DEFINE last == <<"file=">> \o code
  <2> HIDE DEF last
  <2>1. CodeDrive(code) = {<<"if=", "pflash">>, <<"format=", "raw">>, <<"unit=", "0">>,
                           <<"readonly=", "on">>, last}
    BY DEF CodeDrive, last
  <2>2. QemuReads(Escaped(all, code)) = OptionsIn(both) \union {last}
    BY <1>3, <1>4 DEF last
  <2>3. QED BY <1>1, <1>2, <2>1, <2>2
<1>6. QED BY <1>5 DEF all, both, flash

LEMMA VarsRead ==
  ASSUME NEW vars, Sequence(vars)
  PROVE  QemuReads(Escaped(Pflash("1") \o File, vars)) = VarsDrive(vars)
<1> DEFINE flash == Pflash("1")
           all == flash \o File
<1>1. OptionList(flash) /\ OptionsIn(flash) = {<<"if=", "pflash">>, <<"format=", "raw">>, <<"unit=", "1">>}
  BY PflashOptions DEF Comma
<1> HIDE DEF flash
<1>2. OptionList(all) /\ OptionsUpTo(all, vars) = OptionsIn(flash) \union {<<"file=">> \o vars}
  BY <1>1, FileOption, ListOfBoth
<1> HIDE DEF all
<1>3. QemuReads(Escaped(all, vars)) = OptionsUpTo(all, vars)
  BY <1>2, EscapedReadsBack
<1>4. QemuReads(Escaped(all, vars)) = VarsDrive(vars)
  <2> DEFINE last == <<"file=">> \o vars
  <2> HIDE DEF last
  <2>1. VarsDrive(vars) = {<<"if=", "pflash">>, <<"format=", "raw">>, <<"unit=", "1">>, last}
    BY DEF VarsDrive, last
  <2>2. QemuReads(Escaped(all, vars)) = OptionsIn(flash) \union {last}
    BY <1>2, <1>3 DEF last
  <2>3. QED BY <1>1, <2>1, <2>2
<1>5. QED BY <1>4 DEF all, flash

LEMMA DiskRead ==
  ASSUME NEW disk, Sequence(disk)
  PROVE  QemuReads(Escaped(Backend("hd", "qcow2") \o File, disk)) = DiskDrive(disk)
<1> DEFINE backend == Backend("hd", "qcow2")
           all == backend \o File
<1>1. /\ OptionList(backend)
      /\ OptionsIn(backend) = {<<"id=", "hd">>, <<"if=", "none">>, <<"format=", "qcow2">>}
  BY BackendOptions DEF Comma
<1> HIDE DEF backend
<1>2. OptionList(all) /\ OptionsUpTo(all, disk) = OptionsIn(backend) \union {<<"file=">> \o disk}
  BY <1>1, FileOption, ListOfBoth
<1> HIDE DEF all
<1>3. QemuReads(Escaped(all, disk)) = OptionsUpTo(all, disk)
  BY <1>2, EscapedReadsBack
<1>4. QemuReads(Escaped(all, disk)) = DiskDrive(disk)
  <2> DEFINE last == <<"file=">> \o disk
  <2> HIDE DEF last
  <2>1. DiskDrive(disk) = {<<"id=", "hd">>, <<"if=", "none">>, <<"format=", "qcow2">>, last}
    BY DEF DiskDrive, last
  <2>2. QemuReads(Escaped(all, disk)) = OptionsIn(backend) \union {last}
    BY <1>2, <1>3 DEF last
  <2>3. QED BY <1>1, <2>1, <2>2
<1>5. QED BY <1>4 DEF all, backend

LEMMA CdRead ==
  ASSUME NEW iso, Sequence(iso)
  PROVE  QemuReads(Escaped(Backend("cd", "raw") \o << <<"media=", "cdrom">> >> \o ReadOnly \o File, iso))
           = CdDrive(iso)
<1> DEFINE backend == Backend("cd", "raw")
           media == << <<"media=", "cdrom">> >>
           two == backend \o media
           three == two \o ReadOnly
           all == three \o File
<1>1. /\ OptionList(backend)
      /\ OptionsIn(backend) = {<<"id=", "cd">>, <<"if=", "none">>, <<"format=", "raw">>}
  BY BackendOptions DEF Comma
<1>2. OptionList(media) /\ OptionsIn(media) = {<<"media=", "cdrom">>}
  BY MediaOption
<1> HIDE DEF backend, media
<1>3. OptionList(two) /\ OptionsIn(two) = OptionsIn(backend) \union OptionsIn(media)
  BY <1>1, <1>2, ListOfBoth
<1> HIDE DEF two
<1>4. OptionList(three) /\ OptionsIn(three) = OptionsIn(two) \union {<<"readonly=", "on">>}
  BY <1>3, ReadOnlyOption, ListOfBoth
<1> HIDE DEF three
<1>5. OptionList(all) /\ OptionsUpTo(all, iso) = OptionsIn(three) \union {<<"file=">> \o iso}
  BY <1>4, FileOption, ListOfBoth
<1> HIDE DEF all
<1>6. QemuReads(Escaped(all, iso)) = OptionsUpTo(all, iso)
  BY <1>5, EscapedReadsBack
<1>7. QemuReads(Escaped(all, iso)) = CdDrive(iso)
  <2> DEFINE last == <<"file=">> \o iso
  <2> HIDE DEF last
  <2>1. CdDrive(iso) = {<<"id=", "cd">>, <<"if=", "none">>, <<"format=", "raw">>,
                        <<"media=", "cdrom">>, <<"readonly=", "on">>, last}
    BY DEF CdDrive, last
  <2>2. QemuReads(Escaped(all, iso)) = OptionsIn(three) \union {last}
    BY <1>5, <1>6 DEF last
  <2>3. QED BY <1>1, <1>2, <1>3, <1>4, <2>1, <2>2
<1>8. QED BY <1>7 DEF all, three, two, media, backend

-----------------------------------------------------------------------------
(* The arguments of each part of a command line.                           *)
LEMMA TwoFlags ==
  ASSUME NEW n1, NEW v1, NEW n2, NEW v2
  PROVE  /\ Sequence(Flag(n1, v1) \o Flag(n2, v2))
         /\ \A flag : Values(Flag(n1, v1) \o Flag(n2, v2), flag) = One(n1, v1, flag) \union One(n2, v2, flag)
<1> DEFINE one == Flag(n1, v1)
           two == Flag(n2, v2)
<1>1. /\ Sequence(one) /\ \A flag : Values(one, flag) = One(n1, v1, flag)
      /\ Sequence(two) /\ \A flag : Values(two, flag) = One(n2, v2, flag)
  BY FlagArgs
<1> HIDE DEF one, two
<1>2. /\ Sequence(one \o two)
      /\ \A flag : Values(one \o two, flag) = Values(one, flag) \union Values(two, flag)
  BY <1>1, BothArgs
<1>3. QED BY <1>1, <1>2 DEF one, two

LEMMA ThreeFlags ==
  ASSUME NEW n1, NEW v1, NEW n2, NEW v2, NEW n3, NEW v3
  PROVE  /\ Sequence(Flag(n1, v1) \o Flag(n2, v2) \o Flag(n3, v3))
         /\ \A flag : Values(Flag(n1, v1) \o Flag(n2, v2) \o Flag(n3, v3), flag)
                        = (One(n1, v1, flag) \union One(n2, v2, flag)) \union One(n3, v3, flag)
<1> DEFINE two == Flag(n1, v1) \o Flag(n2, v2)
           three == Flag(n3, v3)
<1>1. Sequence(two) /\ \A flag : Values(two, flag) = One(n1, v1, flag) \union One(n2, v2, flag)
  BY TwoFlags
<1>2. Sequence(three) /\ \A flag : Values(three, flag) = One(n3, v3, flag)
  BY FlagArgs
<1> HIDE DEF two, three
<1>3. /\ Sequence(two \o three)
      /\ \A flag : Values(two \o three, flag) = Values(two, flag) \union Values(three, flag)
  BY <1>1, <1>2, BothArgs
<1>4. QED BY <1>1, <1>2, <1>3 DEF two, three

MachineValue(pair) == Listed(<< <<"q35">>, <<"smm=", IF pair.secure_boot THEN "on" ELSE "off">> >>)
NoSleep == <<"ICH9-LPC.disable_s3=1">>
SecureFlash == <<"driver=cfi.pflash01,property=secure,value=on">>
CodeValue(pair) == Escaped(Pflash("0") \o ReadOnly \o File, <<pair.code>>)
VarsValue(paths) == Escaped(Pflash("1") \o File, paths.vars)
DiskValue(paths) == Escaped(Backend("hd", "qcow2") \o File, paths.disk)
CdValue(iso) ==
  Escaped(Backend("cd", "raw") \o << <<"media=", "cdrom">> >> \o ReadOnly \o File, iso)
SocketValue(paths) ==
  Escaped(<< <<"socket">>, <<"id=", "chrtpm">>, <<"path=">> >>, paths.tpm_socket)

(* What a part gives the flags the properties are about.                   *)
Gives(args, drives, chardevs, machines, globals) ==
  /\ Sequence(args)
  /\ Values(args, "-drive") = drives
  /\ Values(args, "-chardev") = chardevs
  /\ Values(args, "-machine") = machines
  /\ Values(args, "-global") = globals

LEMMA GivesBoth ==
  ASSUME NEW one, NEW d1, NEW c1, NEW m1, NEW g1, Gives(one, d1, c1, m1, g1),
         NEW two, NEW d2, NEW c2, NEW m2, NEW g2, Gives(two, d2, c2, m2, g2)
  PROVE  Gives(one \o two, d1 \union d2, c1 \union c2, m1 \union m2, g1 \union g2)
<1>1. Sequence(one) /\ Sequence(two)
  BY DEF Gives
<1>2. /\ Sequence(one \o two)
      /\ \A flag : Values(one \o two, flag) = Values(one, flag) \union Values(two, flag)
  BY <1>1, BothArgs
<1>3. QED BY <1>2 DEF Gives

LEMMA GivesMachine ==
  ASSUME NEW pair
  PROVE  Gives(Machine(pair), {}, {}, {MachineValue(pair)}, {NoSleep})
<1> DEFINE value == MachineValue(pair)
           sleep == NoSleep
           rtc == <<"base=localtime">>
           args == Flag("-machine", value) \o Flag("-global", sleep) \o Flag("-rtc", rtc)
<1>1. Machine(pair) = args
  BY DEF Machine, MachineValue, NoSleep
<1> HIDE DEF value, sleep, rtc
<1>2. /\ Sequence(args)
      /\ \A flag : Values(args, flag)
           = (One("-machine", value, flag) \union One("-global", sleep, flag)) \union One("-rtc", rtc, flag)
  BY ThreeFlags
<1> HIDE DEF args
<1>3. Gives(args, {}, {}, {value}, {sleep})
  BY <1>2 DEF Gives, One
<1>4. QED BY <1>1, <1>3 DEF value, sleep

LEMMA GivesProcessor ==
  ASSUME NEW config, NEW host
  PROVE  Gives(Processor(config, host), {}, {}, {}, {})
<1> DEFINE smp == <<config.cpus>>
           three(accel, cpu) == Flag("-accel", <<accel>>) \o Flag("-cpu", <<cpu>>) \o Flag("-smp", smp)
<1> HIDE DEF smp
<1>1. ASSUME NEW accel, NEW cpu PROVE Gives(three(accel, cpu), {}, {}, {}, {})
  <2> DEFINE a == <<accel>>
             c == <<cpu>>
             args == Flag("-accel", a) \o Flag("-cpu", c) \o Flag("-smp", smp)
  <2> HIDE DEF a, c
  <2>1. /\ Sequence(args)
        /\ \A flag : Values(args, flag)
             = (One("-accel", a, flag) \union One("-cpu", c, flag)) \union One("-smp", smp, flag)
    BY ThreeFlags
  <2> HIDE DEF args
  <2>2. Gives(args, {}, {}, {}, {})
    BY <2>1 DEF Gives, One
  <2>3. QED BY <2>2 DEF args, a, c
<1>2. Processor(config, host) = three("kvm", "host") \/ Processor(config, host) = three("tcg", "qemu64")
  BY DEF Processor, smp
<1> HIDE DEF three
<1>3. QED BY <1>1, <1>2

LEMMA GivesFirmware ==
  ASSUME NEW pair, NEW paths, pair.secure_boot \in BOOLEAN
  PROVE  Gives(FirmwareFlash(pair, paths), {CodeValue(pair), VarsValue(paths)}, {}, {},
               IF pair.secure_boot THEN {SecureFlash} ELSE {})
<1> DEFINE code == CodeValue(pair)
           vars == VarsValue(paths)
           secure == SecureFlash
           first == IF pair.secure_boot THEN Flag("-global", secure) ELSE <<>>
           globals == IF pair.secure_boot THEN {secure} ELSE {}
           one == Flag("-drive", code)
           two == Flag("-drive", vars)
<1>0. FirmwareFlash(pair, paths) = first \o one \o two
  BY DEF FirmwareFlash, CodeValue, VarsValue, SecureFlash
<1> HIDE DEF code, vars, secure
<1>1. Gives(first, {}, {}, {}, globals)
  <2>1. Gives(Flag("-global", secure), {}, {}, {}, {secure})
    BY FlagArgs DEF Gives, One
  <2>2. Gives(<<>>, {}, {}, {}, {})
    BY NoArgs DEF Gives
  <2>3. QED BY <2>1, <2>2
<1>2. Gives(one, {code}, {}, {}, {}) /\ Gives(two, {vars}, {}, {}, {})
  BY FlagArgs DEF Gives, One
<1> HIDE DEF first, one, two, globals
<1>3. Gives(first \o one, {} \union {code}, {} \union {}, {} \union {}, globals \union {})
  BY <1>1, <1>2, GivesBoth
<1>4. Gives((first \o one) \o two, ({} \union {code}) \union {vars}, ({} \union {}) \union {},
            ({} \union {}) \union {}, (globals \union {}) \union {})
  BY <1>2, <1>3, GivesBoth
<1>5. /\ ({} \union {code}) \union {vars} = {code, vars} /\ ({} \union {}) \union {} = {}
      /\ (globals \union {}) \union {} = globals
  OBVIOUS
<1>6. QED BY <1>0, <1>4, <1>5 DEF code, vars, secure, globals

LEMMA GivesStorage ==
  ASSUME NEW config, NEW paths
  PROVE  Gives(Storage(config, paths),
               {DiskValue(paths)} \union (IF config.iso = NoIso THEN {} ELSE {CdValue(config.iso)}),
               {}, {}, {})
<1> DEFINE disk == DiskValue(paths)
           cd == CdValue(config.iso)
           ahci == Listed(<< <<"ich9-ahci">>, <<"id=", "sata">> >>)
           hd == Listed(<< <<"ide-hd">>, <<"drive=", "hd">>, <<"bus=", "sata", ".0">> >>)
           rom == Listed(<< <<"ide-cd">>, <<"drive=", "cd">>, <<"bus=", "sata", ".1">> >>)
           c == <<"order=", "c">>
           dc == <<"order=", "dc">>
           one == Flag("-device", ahci)
           two == Flag("-drive", disk) \o Flag("-device", hd)
           boot == Flag("-boot", c)
           cdrom == Flag("-drive", cd) \o Flag("-device", rom) \o Flag("-boot", dc)
           last == IF config.iso = NoIso THEN boot ELSE cdrom
           cds == IF config.iso = NoIso THEN {} ELSE {cd}
<1>0. Storage(config, paths) = one \o two \o last
  BY DEF Storage, Ahci, HardDisk, Cdrom, DiskValue, CdValue
<1> HIDE DEF disk, cd, ahci, hd, rom, c, dc
<1>1. Gives(one, {}, {}, {}, {})
  BY FlagArgs DEF Gives, One
<1>2. Gives(two, {disk}, {}, {}, {})
  <2>1. Sequence(two) /\ \A flag : Values(two, flag) = One("-drive", disk, flag) \union One("-device", hd, flag)
    BY TwoFlags
  <2> HIDE DEF two
  <2>2. QED BY <2>1 DEF Gives, One
<1>3. Gives(boot, {}, {}, {}, {})
  BY FlagArgs DEF Gives, One
<1>4. Gives(cdrom, {cd}, {}, {}, {})
  <2>1. /\ Sequence(cdrom)
        /\ \A flag : Values(cdrom, flag)
             = (One("-drive", cd, flag) \union One("-device", rom, flag)) \union One("-boot", dc, flag)
    BY ThreeFlags
  <2> HIDE DEF cdrom
  <2>2. QED BY <2>1 DEF Gives, One
<1> HIDE DEF one, two, boot, cdrom
<1>5. Gives(last, cds, {}, {}, {})
  BY <1>3, <1>4
<1> HIDE DEF last, cds
<1>6. Gives(one \o two, {} \union {disk}, {} \union {}, {} \union {}, {} \union {})
  BY <1>1, <1>2, GivesBoth
<1>7. Gives((one \o two) \o last, ({} \union {disk}) \union cds, ({} \union {}) \union {},
            ({} \union {}) \union {}, ({} \union {}) \union {})
  BY <1>5, <1>6, GivesBoth
<1>8. ({} \union {disk}) \union cds = {disk} \union cds /\ ({} \union {}) \union {} = {}
  OBVIOUS
<1>9. QED BY <1>0, <1>7, <1>8 DEF disk, cd, cds

LEMMA GivesTpm ==
  ASSUME NEW paths
  PROVE  Gives(Tpm(paths), {}, {SocketValue(paths)}, {}, {})
<1> DEFINE socket == SocketValue(paths)
           tpmdev == Listed(<< <<"emulator">>, <<"id=", "tpm0">>, <<"chardev=", "chrtpm">> >>)
           tis == Listed(<< <<"tpm-tis">>, <<"tpmdev=", "tpm0">> >>)
           args == Flag("-chardev", socket) \o Flag("-tpmdev", tpmdev) \o Flag("-device", tis)
<1>1. Tpm(paths) = args
  BY DEF Tpm, SocketValue
<1> HIDE DEF socket, tpmdev, tis
<1>2. /\ Sequence(args)
      /\ \A flag : Values(args, flag)
           = (One("-chardev", socket, flag) \union One("-tpmdev", tpmdev, flag)) \union One("-device", tis, flag)
  BY ThreeFlags
<1> HIDE DEF args
<1>3. Gives(args, {}, {socket}, {}, {})
  BY <1>2 DEF Gives, One
<1>4. QED BY <1>1, <1>3 DEF socket

LEMMA GivesPeripherals == Gives(Peripherals, {}, {}, {}, {})
<1> DEFINE net == Listed(<< <<"user">>, <<"id=", "net0">> >>)
           card == Listed(<< <<"e1000e">>, <<"netdev=", "net0">> >>)
           usb == Listed(<< <<"qemu-xhci">>, <<"id=", "usb">> >>)
           tablet == Listed(<< <<"usb-tablet">>, <<"bus=", "usb", ".0">> >>)
           vga == <<"std">>
           three == Flag("-netdev", net) \o Flag("-device", card) \o Flag("-device", usb)
           four == Flag("-device", tablet)
           five == Flag("-vga", vga)
<1>0. Peripherals = three \o four \o five
  BY DEF Peripherals
<1> HIDE DEF net, card, usb, tablet, vga
<1>1. Gives(three, {}, {}, {}, {})
  <2>1. /\ Sequence(three)
        /\ \A flag : Values(three, flag)
             = (One("-netdev", net, flag) \union One("-device", card, flag)) \union One("-device", usb, flag)
    BY ThreeFlags
  <2> HIDE DEF three
  <2>2. QED BY <2>1 DEF Gives, One
<1>2. Gives(four, {}, {}, {}, {}) /\ Gives(five, {}, {}, {}, {})
  BY FlagArgs DEF Gives, One
<1> HIDE DEF three, four, five
<1>3. Gives(three \o four, {} \union {}, {} \union {}, {} \union {}, {} \union {})
  BY <1>1, <1>2, GivesBoth
<1>4. {} \union {} = {}
  OBVIOUS
<1>5. Gives(three \o four, {}, {}, {}, {})
  BY <1>3, <1>4
<1>6. Gives((three \o four) \o five, {} \union {}, {} \union {}, {} \union {}, {} \union {})
  BY <1>2, <1>5, GivesBoth
<1>7. QED BY <1>0, <1>4, <1>6

(* What the whole command line gives them.                                 *)
LEMMA GivesBuild ==
  ASSUME NEW config, NEW host, NEW paths, NEW pair, pair = Best(host.files),
         pair.secure_boot \in BOOLEAN
  PROVE  Gives(Build(config, host, paths),
               {CodeValue(pair), VarsValue(paths), DiskValue(paths)}
                 \union (IF config.iso = NoIso THEN {} ELSE {CdValue(config.iso)}),
               IF config.tpm THEN {SocketValue(paths)} ELSE {},
               {MachineValue(pair)},
               {NoSleep} \union (IF pair.secure_boot THEN {SecureFlash} ELSE {}))
<1> DEFINE flash == {CodeValue(pair), VarsValue(paths)}
           disks == {DiskValue(paths)} \union (IF config.iso = NoIso THEN {} ELSE {CdValue(config.iso)})
           sockets == IF config.tpm THEN {SocketValue(paths)} ELSE {}
           machines == {MachineValue(pair)}
           sleep == {NoSleep}
           secures == IF pair.secure_boot THEN {SecureFlash} ELSE {}
           a == Flag("-name", config.name)
           b == Machine(pair)
           c == Processor(config, host)
           d == Flag("-m", <<config.memory_mib>>)
           e == FirmwareFlash(pair, paths)
           f == Storage(config, paths)
           g == IF config.tpm THEN Tpm(paths) ELSE <<>>
           h == Peripherals
<1>1. Build(config, host, paths) = a \o b \o c \o d \o e \o f \o g \o h
  BY DEF Build
<1>2. Gives(a, {}, {}, {}, {}) /\ Gives(d, {}, {}, {}, {})
  BY FlagArgs DEF Gives, One
<1>3. Gives(b, {}, {}, machines, sleep)
  BY GivesMachine
<1>4. Gives(c, {}, {}, {}, {})
  BY GivesProcessor
<1>5. Gives(e, flash, {}, {}, secures)
  BY GivesFirmware
<1>6. Gives(f, disks, {}, {}, {})
  BY GivesStorage
<1>7. Gives(g, {}, sockets, {}, {})
  <2>1. Gives(<<>>, {}, {}, {}, {})
    BY NoArgs DEF Gives
  <2>2. QED BY <2>1, GivesTpm
<1>8. Gives(h, {}, {}, {}, {})
  BY GivesPeripherals
<1> HIDE DEF flash, disks, sockets, machines, sleep, secures, a, b, c, d, e, f, g, h
<1>9. \A S : S \union {} = S /\ {} \union S = S
  OBVIOUS
<1> DEFINE ab == a \o b
           abc == ab \o c
           abcd == abc \o d
           abcde == abcd \o e
           abcdef == abcde \o f
           abcdefg == abcdef \o g
<1>10. Gives(ab, {}, {}, machines, sleep)
  <2>1. Gives(ab, {} \union {}, {} \union {}, {} \union machines, {} \union sleep)
    BY <1>2, <1>3, GivesBoth
  <2>2. QED BY <1>9, <2>1
<1> HIDE DEF ab
<1>11. Gives(abc, {}, {}, machines, sleep)
  <2>1. Gives(abc, {} \union {}, {} \union {}, machines \union {}, sleep \union {})
    BY <1>4, <1>10, GivesBoth
  <2>2. QED BY <1>9, <2>1
<1> HIDE DEF abc
<1>12. Gives(abcd, {}, {}, machines, sleep)
  <2>1. Gives(abcd, {} \union {}, {} \union {}, machines \union {}, sleep \union {})
    BY <1>2, <1>11, GivesBoth
  <2>2. QED BY <1>9, <2>1
<1> HIDE DEF abcd
<1>13. Gives(abcde, flash, {}, machines, sleep \union secures)
  <2>1. Gives(abcde, {} \union flash, {} \union {}, machines \union {}, sleep \union secures)
    BY <1>5, <1>12, GivesBoth
  <2>2. QED BY <1>9, <2>1
<1> HIDE DEF abcde
<1>14. Gives(abcdef, flash \union disks, {}, machines, sleep \union secures)
  <2>1. Gives(abcdef, flash \union disks, {} \union {}, machines \union {},
              (sleep \union secures) \union {})
    BY <1>6, <1>13, GivesBoth
  <2>2. QED BY <1>9, <2>1
<1> HIDE DEF abcdef
<1>15. Gives(abcdefg, flash \union disks, sockets, machines, sleep \union secures)
  <2>1. Gives(abcdefg, (flash \union disks) \union {}, {} \union sockets, machines \union {},
              (sleep \union secures) \union {})
    BY <1>7, <1>14, GivesBoth
  <2>2. QED BY <1>9, <2>1
<1> HIDE DEF abcdefg
<1>16. Gives(abcdefg \o h, flash \union disks, sockets, machines, sleep \union secures)
  <2>1. Gives(abcdefg \o h, (flash \union disks) \union {}, sockets \union {}, machines \union {},
              (sleep \union secures) \union {})
    BY <1>8, <1>15, GivesBoth
  <2>2. QED BY <1>9, <2>1
<1>17. Build(config, host, paths) = abcdefg \o h
  BY <1>1 DEF ab, abc, abcd, abcde, abcdef, abcdefg
<1>18. flash \union disks = {CodeValue(pair), VarsValue(paths), DiskValue(paths)}
                 \union (IF config.iso = NoIso THEN {} ELSE {CdValue(config.iso)})
  BY DEF flash, disks
<1>19. QED BY <1>16, <1>17, <1>18 DEF sockets, machines, sleep, secures

(* Firmware::best is a row of the table.                                   *)
LEMMA TableRows == DOMAIN CANDIDATES = 1..10
  BY DEF CANDIDATES

LEMMA BestIsListed ==
  ASSUME NEW files, HasFirmware(files)
  PROVE  \E i \in 1..10 : Best(files) = CANDIDATES[i]
<1> DEFINE S == Installed(files)
<1>1. S \subseteq 1..10 /\ S # {}
  BY TableRows DEF Installed, HasFirmware
<1>2. Min(S) \in S /\ \A y \in S : Min(S) <= y
  <2> HIDE DEF S
  <2>1. QED BY <1>1, LeastOf
<1>3. Best(files) = CANDIDATES[CHOOSE i \in S : \A j \in S : i <= j]
  BY DEF Best
<1>4. (CHOOSE i \in S : \A j \in S : i <= j) \in S
  BY <1>2
<1>5. QED BY <1>1, <1>3, <1>4

LEMMA PairsListed ==
  /\ \A i \in 1..10 : CANDIDATES[i].secure_boot \in BOOLEAN
  /\ \A i, j \in 1..10 : CANDIDATES[i].code = CANDIDATES[j].code => i = j
<1>1. \A i \in 1..10 : CANDIDATES[i].secure_boot \in BOOLEAN
  <2>1. \A i \in 1..10 : CANDIDATES[i].secure_boot = TRUE \/ CANDIDATES[i].secure_boot = FALSE
    BY DEF CANDIDATES, Candidate
  <2>2. QED BY <2>1, Zenon
<1>2. \A i, j \in 1..10 : CANDIDATES[i].code = CANDIDATES[j].code => i = j
  BY DEF CANDIDATES, Candidate
<1>3. QED BY <1>1, <1>2

(* The drives QEMU opens for a VM.                                         *)
LEMMA DrivesOfVm ==
  ASSUME NEW config, NEW host, NEW paths, HasFirmware(host.files),
         Sequence(paths.vars), Sequence(paths.disk), Sequence(config.iso)
  PROVE  Drives(Build(config, host, paths))
           = {CodeDrive(<<Best(host.files).code>>), VarsDrive(paths.vars), DiskDrive(paths.disk)}
               \union (IF config.iso = NoIso THEN {} ELSE {CdDrive(config.iso)})
<1> DEFINE pair == Best(host.files)
           code == <<pair.code>>
           argv == Build(config, host, paths)
<1>1. pair.secure_boot \in BOOLEAN
  BY BestIsListed, PairsListed
<1>2. Sequence(code)
  <2> DEFINE one == pair.code
  <2> HIDE DEF one
  <2>1. <<one>> \in Seq({one})
    OBVIOUS
  <2>2. QED BY <2>1 DEF Sequence, one
<1>3. Gives(argv, {CodeValue(pair), VarsValue(paths), DiskValue(paths)}
                    \union (IF config.iso = NoIso THEN {} ELSE {CdValue(config.iso)}),
            IF config.tpm THEN {SocketValue(paths)} ELSE {}, {MachineValue(pair)},
            {NoSleep} \union (IF pair.secure_boot THEN {SecureFlash} ELSE {}))
  BY <1>1, GivesBuild
<1>4. QemuReads(CodeValue(pair)) = CodeDrive(code)
  BY <1>2, CodeRead DEF CodeValue
<1>5. QemuReads(VarsValue(paths)) = VarsDrive(paths.vars)
  BY VarsRead DEF VarsValue
<1>6. QemuReads(DiskValue(paths)) = DiskDrive(paths.disk)
  BY DiskRead DEF DiskValue
<1>7. QemuReads(CdValue(config.iso)) = CdDrive(config.iso)
  BY CdRead DEF CdValue
<1> HIDE DEF argv
<1>8. Drives(argv) = {QemuReads(v) : v \in {CodeValue(pair), VarsValue(paths), DiskValue(paths)}
                    \union (IF config.iso = NoIso THEN {} ELSE {CdValue(config.iso)})}
  BY <1>3 DEF Drives, Gives
<1> HIDE DEF pair, code
<1>9. Drives(argv) = {CodeDrive(code), VarsDrive(paths.vars), DiskDrive(paths.disk)}
               \union (IF config.iso = NoIso THEN {} ELSE {CdDrive(config.iso)})
  BY <1>4, <1>5, <1>6, <1>7, <1>8
<1>10. QED BY <1>9 DEF argv, pair, code

-----------------------------------------------------------------------------
(* What is given for a key.                                                *)
LEMMA ValuedBoth ==
  ASSUME NEW one, NEW two, NEW key
  PROVE  Valued(one \union two, key) = Valued(one, key) \union Valued(two, key)
  BY DEF Valued

LEMMA ValuedOne ==
  ASSUME NEW option, option # <<>>, NEW rest, Tail(option) = rest, NEW key
  PROVE  Valued({option}, key) = One(option[1], rest, key)
  BY DEF Valued, One

LEMMA ValuedPair ==
  ASSUME NEW name, NEW value, NEW key
  PROVE  Valued({<<name, value>>}, key) = One(name, <<value>>, key)
<1> DEFINE option == <<name, value>>
           rest == <<value>>
<1>1. /\ option \in Seq({name, value}) /\ Len(option) = 2
      /\ option[1] = name /\ option[2] = value
  OBVIOUS
<1>2. rest \in Seq({name, value}) /\ Len(rest) = 1 /\ rest[1] = value
  OBVIOUS
<1> HIDE DEF option, rest
<1>3. option # <<>>
  <2>1. Len(option) # 0
    BY <1>1
  <2>2. Len(<<>>) = 0
    OBVIOUS
  <2>3. QED BY <2>1, <2>2, Zenon
<1>4. Tail(option) \in Seq({name, value}) /\ Len(Tail(option)) = 1 /\ Tail(option)[1] = option[2]
  BY <1>1, <1>3
<1>5. \A i \in 1..Len(Tail(option)) : Tail(option)[i] = rest[i]
  <2>1. 1..1 = {1}
    OBVIOUS
  <2>2. QED BY <1>1, <1>2, <1>4, <2>1
<1>6. Tail(option) = rest
  BY <1>2, <1>4, <1>5, SeqEqual
<1>7. Valued({option}, key) = One(option[1], rest, key)
  BY <1>3, <1>6, ValuedOne
<1>8. QED BY <1>1, <1>7 DEF option, rest

LEMMA ValuedPath ==
  ASSUME NEW name, NEW path, Sequence(path)
  PROVE  /\ (<<name>> \o path)[1] = name
         /\ \A key : Valued({<<name>> \o path}, key) = One(name, path, key)
<1>0. PICK P : path \in Seq(P)
  BY DEF Sequence
<1> DEFINE Q == P \union {name}
           option == <<name>> \o path
<1>1. path \in Seq(Q) /\ <<name>> \in Seq(Q) /\ Len(<<name>>) = 1 /\ <<name>>[1] = name
  BY <1>0
<1> HIDE DEF Q
<1>2. /\ option \in Seq(Q) /\ Len(option) = 1 + Len(path) /\ Len(path) \in Nat
      /\ option[1] = name /\ \A i \in 1..Len(path) : option[i+1] = path[i]
  BY <1>1
<1> HIDE DEF option
<1>3. option # <<>>
  <2>1. Len(option) # 0
    BY <1>2
  <2>2. Len(<<>>) = 0
    OBVIOUS
  <2>3. QED BY <2>1, <2>2, Zenon
<1>4. /\ Tail(option) \in Seq(Q) /\ Len(Tail(option)) = Len(path)
      /\ \A i \in 1..Len(path) : Tail(option)[i] = option[i+1]
  BY <1>2, <1>3
<1>5. \A i \in 1..Len(Tail(option)) : Tail(option)[i] = path[i]
  BY <1>2, <1>4
<1>6. Tail(option) = path
  BY <1>1, <1>4, <1>5, SeqEqual
<1>7. \A key : Valued({option}, key) = One(option[1], path, key)
  BY <1>3, <1>6, ValuedOne
<1>8. QED BY <1>2, <1>7 DEF option

(* It is given by one of the options.                                      *)
LEMMA ValuedEach ==
  ASSUME NEW options, NEW key
  PROVE  \A x : x \in Valued(options, key) <=> \E option \in options : x \in Valued({option}, key)
<1>1. \A some, x : x \in Valued(some, key)
                     <=> \E o \in some : o # <<>> /\ o[1] = key /\ x = Tail(o)
  BY DEF Valued
<1>2. \A option, x : x \in Valued({option}, key)
                       <=> option # <<>> /\ option[1] = key /\ x = Tail(option)
  BY <1>1
<1>3. ASSUME NEW x
      PROVE  x \in Valued(options, key) <=> \E option \in options : x \in Valued({option}, key)
  <2>1. x \in Valued(options, key) <=> \E o \in options : o # <<>> /\ o[1] = key /\ x = Tail(o)
    BY <1>1
  <2>2. QED BY <1>2, <2>1, Zenon
<1>4. QED BY <1>3

(* What the properties ask of a drive: its file, its format, whether it is *)
(* read-only, whether it is the first flash unit, and its options' keys.   *)
IsDrive(d, path, format, read_only, first) ==
  /\ Valued(d, "file=") = {path}
  /\ Valued(d, "format=") = {<<format>>}
  /\ <<"readonly=", "on">> \in d <=> read_only
  /\ <<"unit=", "0">> \in d <=> first
  /\ \A option \in d : option[1] \in DriveKeys

LEMMA CodeDriveIs ==
  ASSUME NEW code, Sequence(code)
  PROVE  IsDrive(CodeDrive(code), code, "raw", TRUE, TRUE)
<1> DEFINE file == <<"file=">> \o code
           format == <<"raw">>
           read_only == <<"readonly=", "on">>
           first == <<"unit=", "0">>
           a == <<"if=", "pflash">>
           b == <<"format=", "raw">>
           c == <<"unit=", "0">>
           d == <<"readonly=", "on">>
           drive == CodeDrive(code)
<1>1. drive = {a, b, c, d, file}
  BY DEF CodeDrive
<1>2. /\ file[1] = "file="
      /\ Valued({file}, "file=") = {code} /\ Valued({file}, "format=") = {}
  BY ValuedPath DEF One
<1>3. /\ a[1] = "if=" /\ Valued({a}, "file=") = {} /\ Valued({a}, "format=") = {}
      /\ b[1] = "format=" /\ Valued({b}, "file=") = {} /\ Valued({b}, "format=") = {format}
      /\ c[1] = "unit=" /\ Valued({c}, "file=") = {} /\ Valued({c}, "format=") = {}
      /\ d[1] = "readonly=" /\ Valued({d}, "file=") = {} /\ Valued({d}, "format=") = {}
  <2>1. \A key : Valued({a}, key) = One("if=", <<"pflash">>, key)
    BY ValuedPair
  <2>2. a[1] = "if="
    OBVIOUS
  <2>3. \A key : Valued({b}, key) = One("format=", <<"raw">>, key)
    BY ValuedPair
  <2>4. b[1] = "format="
    OBVIOUS
  <2>5. \A key : Valued({c}, key) = One("unit=", <<"0">>, key)
    BY ValuedPair
  <2>6. c[1] = "unit="
    OBVIOUS
  <2>7. \A key : Valued({d}, key) = One("readonly=", <<"on">>, key)
    BY ValuedPair
  <2>8. d[1] = "readonly="
    OBVIOUS
  <2> HIDE DEF a, b, c, d
  <2>9. QED BY <2>1, <2>2, <2>3, <2>4, <2>5, <2>6, <2>7, <2>8 DEF One
<1>4. /\ read_only # a /\ read_only # b /\ read_only # c /\ read_only = d
      /\ read_only # file /\ first # a /\ first # b /\ first = c
      /\ first # d /\ first # file
  BY <1>2
<1> HIDE DEF file, read_only, first, drive, a, b, c, d, format
<1>5. \A x : /\ x \in Valued(drive, "file=") <=> \E option \in drive : x \in Valued({option}, "file=")
             /\ x \in Valued(drive, "format=") <=> \E option \in drive : x \in Valued({option}, "format=")
  BY ValuedEach
<1>6. Valued(drive, "file=") = {code}
  BY <1>1, <1>2, <1>3, <1>5
<1>7. Valued(drive, "format=") = {format}
  BY <1>1, <1>2, <1>3, <1>5
<1>8. /\ read_only \in drive <=> TRUE
      /\ first \in drive <=> TRUE
  BY <1>1, <1>4
<1>9. \A option \in drive : option[1] \in DriveKeys
  BY <1>1, <1>2, <1>3 DEF DriveKeys
<1>10. QED BY <1>6, <1>7, <1>8, <1>9 DEF IsDrive, read_only, first, drive, format

LEMMA VarsDriveIs ==
  ASSUME NEW vars, Sequence(vars)
  PROVE  IsDrive(VarsDrive(vars), vars, "raw", FALSE, FALSE)
<1> DEFINE file == <<"file=">> \o vars
           format == <<"raw">>
           read_only == <<"readonly=", "on">>
           first == <<"unit=", "0">>
           a == <<"if=", "pflash">>
           b == <<"format=", "raw">>
           c == <<"unit=", "1">>
           drive == VarsDrive(vars)
<1>1. drive = {a, b, c, file}
  BY DEF VarsDrive
<1>2. /\ file[1] = "file="
      /\ Valued({file}, "file=") = {vars} /\ Valued({file}, "format=") = {}
  BY ValuedPath DEF One
<1>3. /\ a[1] = "if=" /\ Valued({a}, "file=") = {} /\ Valued({a}, "format=") = {}
      /\ b[1] = "format=" /\ Valued({b}, "file=") = {} /\ Valued({b}, "format=") = {format}
      /\ c[1] = "unit=" /\ Valued({c}, "file=") = {} /\ Valued({c}, "format=") = {}
  <2>1. \A key : Valued({a}, key) = One("if=", <<"pflash">>, key)
    BY ValuedPair
  <2>2. a[1] = "if="
    OBVIOUS
  <2>3. \A key : Valued({b}, key) = One("format=", <<"raw">>, key)
    BY ValuedPair
  <2>4. b[1] = "format="
    OBVIOUS
  <2>5. \A key : Valued({c}, key) = One("unit=", <<"1">>, key)
    BY ValuedPair
  <2>6. c[1] = "unit="
    OBVIOUS
  <2> HIDE DEF a, b, c
  <2>7. QED BY <2>1, <2>2, <2>3, <2>4, <2>5, <2>6 DEF One
<1>4. /\ read_only # a /\ read_only # b /\ read_only # c /\ read_only # file
      /\ first # a /\ first # b /\ first # c /\ first # file
  BY <1>2
<1> HIDE DEF file, read_only, first, drive, a, b, c, format
<1>5. \A x : /\ x \in Valued(drive, "file=") <=> \E option \in drive : x \in Valued({option}, "file=")
             /\ x \in Valued(drive, "format=") <=> \E option \in drive : x \in Valued({option}, "format=")
  BY ValuedEach
<1>6. Valued(drive, "file=") = {vars}
  BY <1>1, <1>2, <1>3, <1>5
<1>7. Valued(drive, "format=") = {format}
  BY <1>1, <1>2, <1>3, <1>5
<1>8. /\ read_only \in drive <=> FALSE
      /\ first \in drive <=> FALSE
  BY <1>1, <1>4
<1>9. \A option \in drive : option[1] \in DriveKeys
  BY <1>1, <1>2, <1>3 DEF DriveKeys
<1>10. QED BY <1>6, <1>7, <1>8, <1>9 DEF IsDrive, read_only, first, drive, format

LEMMA DiskDriveIs ==
  ASSUME NEW disk, Sequence(disk)
  PROVE  IsDrive(DiskDrive(disk), disk, "qcow2", FALSE, FALSE)
<1> DEFINE file == <<"file=">> \o disk
           format == <<"qcow2">>
           read_only == <<"readonly=", "on">>
           first == <<"unit=", "0">>
           a == <<"id=", "hd">>
           b == <<"if=", "none">>
           c == <<"format=", "qcow2">>
           drive == DiskDrive(disk)
<1>1. drive = {a, b, c, file}
  BY DEF DiskDrive
<1>2. /\ file[1] = "file="
      /\ Valued({file}, "file=") = {disk} /\ Valued({file}, "format=") = {}
  BY ValuedPath DEF One
<1>3. /\ a[1] = "id=" /\ Valued({a}, "file=") = {} /\ Valued({a}, "format=") = {}
      /\ b[1] = "if=" /\ Valued({b}, "file=") = {} /\ Valued({b}, "format=") = {}
      /\ c[1] = "format=" /\ Valued({c}, "file=") = {} /\ Valued({c}, "format=") = {format}
  <2>1. \A key : Valued({a}, key) = One("id=", <<"hd">>, key)
    BY ValuedPair
  <2>2. a[1] = "id="
    OBVIOUS
  <2>3. \A key : Valued({b}, key) = One("if=", <<"none">>, key)
    BY ValuedPair
  <2>4. b[1] = "if="
    OBVIOUS
  <2>5. \A key : Valued({c}, key) = One("format=", <<"qcow2">>, key)
    BY ValuedPair
  <2>6. c[1] = "format="
    OBVIOUS
  <2> HIDE DEF a, b, c
  <2>7. QED BY <2>1, <2>2, <2>3, <2>4, <2>5, <2>6 DEF One
<1>4. /\ read_only # a /\ read_only # b /\ read_only # c /\ read_only # file
      /\ first # a /\ first # b /\ first # c /\ first # file
  BY <1>2
<1> HIDE DEF file, read_only, first, drive, a, b, c, format
<1>5. \A x : /\ x \in Valued(drive, "file=") <=> \E option \in drive : x \in Valued({option}, "file=")
             /\ x \in Valued(drive, "format=") <=> \E option \in drive : x \in Valued({option}, "format=")
  BY ValuedEach
<1>6. Valued(drive, "file=") = {disk}
  BY <1>1, <1>2, <1>3, <1>5
<1>7. Valued(drive, "format=") = {format}
  BY <1>1, <1>2, <1>3, <1>5
<1>8. /\ read_only \in drive <=> FALSE
      /\ first \in drive <=> FALSE
  BY <1>1, <1>4
<1>9. \A option \in drive : option[1] \in DriveKeys
  BY <1>1, <1>2, <1>3 DEF DriveKeys
<1>10. QED BY <1>6, <1>7, <1>8, <1>9 DEF IsDrive, read_only, first, drive, format

LEMMA CdDriveIs ==
  ASSUME NEW iso, Sequence(iso)
  PROVE  IsDrive(CdDrive(iso), iso, "raw", TRUE, FALSE)
<1> DEFINE file == <<"file=">> \o iso
           format == <<"raw">>
           read_only == <<"readonly=", "on">>
           first == <<"unit=", "0">>
           a == <<"id=", "cd">>
           b == <<"if=", "none">>
           c == <<"format=", "raw">>
           d == <<"media=", "cdrom">>
           e == <<"readonly=", "on">>
           drive == CdDrive(iso)
<1>1. drive = {a, b, c, d, e, file}
  BY DEF CdDrive
<1>2. /\ file[1] = "file="
      /\ Valued({file}, "file=") = {iso} /\ Valued({file}, "format=") = {}
  BY ValuedPath DEF One
<1>3. /\ a[1] = "id=" /\ Valued({a}, "file=") = {} /\ Valued({a}, "format=") = {}
      /\ b[1] = "if=" /\ Valued({b}, "file=") = {} /\ Valued({b}, "format=") = {}
      /\ c[1] = "format=" /\ Valued({c}, "file=") = {} /\ Valued({c}, "format=") = {format}
      /\ d[1] = "media=" /\ Valued({d}, "file=") = {} /\ Valued({d}, "format=") = {}
      /\ e[1] = "readonly=" /\ Valued({e}, "file=") = {} /\ Valued({e}, "format=") = {}
  <2>1. \A key : Valued({a}, key) = One("id=", <<"cd">>, key)
    BY ValuedPair
  <2>2. a[1] = "id="
    OBVIOUS
  <2>3. \A key : Valued({b}, key) = One("if=", <<"none">>, key)
    BY ValuedPair
  <2>4. b[1] = "if="
    OBVIOUS
  <2>5. \A key : Valued({c}, key) = One("format=", <<"raw">>, key)
    BY ValuedPair
  <2>6. c[1] = "format="
    OBVIOUS
  <2>7. \A key : Valued({d}, key) = One("media=", <<"cdrom">>, key)
    BY ValuedPair
  <2>8. d[1] = "media="
    OBVIOUS
  <2>9. \A key : Valued({e}, key) = One("readonly=", <<"on">>, key)
    BY ValuedPair
  <2>10. e[1] = "readonly="
    OBVIOUS
  <2> HIDE DEF a, b, c, d, e
  <2>11. QED BY <2>1, <2>2, <2>3, <2>4, <2>5, <2>6, <2>7, <2>8, <2>9, <2>10 DEF One
<1>4. /\ read_only # a /\ read_only # b /\ read_only # c /\ read_only # d
      /\ read_only = e /\ read_only # file /\ first # a /\ first # b
      /\ first # c /\ first # d /\ first # e /\ first # file
  BY <1>2
<1> HIDE DEF file, read_only, first, drive, a, b, c, d, e, format
<1>5. \A x : /\ x \in Valued(drive, "file=") <=> \E option \in drive : x \in Valued({option}, "file=")
             /\ x \in Valued(drive, "format=") <=> \E option \in drive : x \in Valued({option}, "format=")
  BY ValuedEach
<1>6. Valued(drive, "file=") = {iso}
  BY <1>1, <1>2, <1>3, <1>5
<1>7. Valued(drive, "format=") = {format}
  BY <1>1, <1>2, <1>3, <1>5
<1>8. /\ read_only \in drive <=> TRUE
      /\ first \in drive <=> FALSE
  BY <1>1, <1>4
<1>9. \A option \in drive : option[1] \in DriveKeys
  BY <1>1, <1>2, <1>3 DEF DriveKeys
<1>10. QED BY <1>6, <1>7, <1>8, <1>9 DEF IsDrive, read_only, first, drive, format


-----------------------------------------------------------------------------
(* The VM in the input.                                                    *)
LEMMA InputVm ==
  ASSUME InputOK, HasArgv
  PROVE  /\ EnvOK(input.env)
         /\ input.directory \in Names
         /\ input.config.iso \in Isos \union {NoIso}
         /\ input.config.tpm \in BOOLEAN
         /\ HasFirmware(input.host.files)
         /\ \A name \in Names : NameOK(name)
         /\ \A iso \in Isos \union {NoIso} : Sequence(iso)
<1>1. input \in Vms /\ HasFirmware(input.host.files)
  BY InputKinds DEF HasArgv
<1>2. /\ input.directory \in Names /\ input.config.iso \in Isos \union {NoIso}
      /\ input.config.tpm \in BOOLEAN /\ input.env \in Envs
  BY <1>1 DEF Vms
<1>3. \A text \in Names \union Isos \union DataHomes \union Homes \union RuntimeDirs : Sequence(text)
  BY PathsAssumption DEF Sequence
<1>4. /\ input.env.xdg_data_home \in DataHomes /\ input.env.home \in Homes
      /\ input.env.xdg_runtime_dir \in RuntimeDirs
  BY <1>2 DEF Envs
<1>5. EnvOK(input.env)
  BY <1>3, <1>4 DEF EnvOK
<1>6. ASSUME NEW name \in Names PROVE NameOK(name)
  BY <1>3, NamesAssumption, ValidNameOK
<1>7. Sequence(NoIso)
  BY OnePieceFits DEF NoIso, EndsIn
<1>8. QED BY <1>1, <1>2, <1>3, <1>5, <1>6, <1>7

DrivesFor(code, paths, iso) ==
  {CodeDrive(<<code>>), VarsDrive(paths.vars), DiskDrive(paths.disk)}
    \union (IF iso = NoIso THEN {} ELSE {CdDrive(iso)})

LEMMA DrivesOfInput ==
  ASSUME InputOK, HasArgv, NEW name \in Names
  PROVE  Drives(Build(input.config, input.host, LoadedPaths(input.env, name, input.config)))
           = DrivesFor(Best(input.host.files).code, VmPaths(input.env, name), input.config.iso)
<1> DEFINE paths == VmPaths(input.env, name)
<1>1. EnvOK(input.env) /\ NameOK(name) /\ HasFirmware(input.host.files) /\ Sequence(input.config.iso)
  BY InputVm
<1>2. Sequence(paths.vars) /\ Sequence(paths.disk)
  BY <1>1, FilesOfVmAre DEF EndsIn
<1>3. LoadedPaths(input.env, name, input.config) = paths
  BY DEF LoadedPaths
<1> HIDE DEF paths
<1>4. QED BY <1>1, <1>2, <1>3, DrivesOfVm DEF DrivesFor, paths

(* What each of those drives is.                                           *)
LEMMA DrivesAre ==
  ASSUME NEW code, NEW paths, Sequence(paths.vars), Sequence(paths.disk), NEW iso, Sequence(iso)
  PROVE  /\ IsDrive(CodeDrive(<<code>>), <<code>>, "raw", TRUE, TRUE)
         /\ IsDrive(VarsDrive(paths.vars), paths.vars, "raw", FALSE, FALSE)
         /\ IsDrive(DiskDrive(paths.disk), paths.disk, "qcow2", FALSE, FALSE)
         /\ IsDrive(CdDrive(iso), iso, "raw", TRUE, FALSE)
<1>1. Sequence(<<code>>)
  BY OnePieceFits DEF EndsIn
<1>2. IsDrive(CodeDrive(<<code>>), <<code>>, "raw", TRUE, TRUE)
  BY <1>1, CodeDriveIs
<1>3. QED BY <1>2, VarsDriveIs, DiskDriveIs, CdDriveIs

OpenedFiles(code, paths, iso) ==
  {<<code>>, paths.vars, paths.disk} \union (IF iso = NoIso THEN {} ELSE {iso})

HasFiles(drives, opened, written, first) ==
  /\ FilesOf(drives) = opened
  /\ FilesOf(Writable(drives)) = written
  /\ FilesOf({d \in drives : <<"unit=", "0">> \in d}) = first

LEMMA FilesOfDrives ==
  ASSUME NEW code, NEW paths, Sequence(paths.vars), Sequence(paths.disk), NEW iso, Sequence(iso)
  PROVE  HasFiles(DrivesFor(code, paths, iso), OpenedFiles(code, paths, iso),
                  {paths.vars, paths.disk}, {<<code>>})
<1> DEFINE a == CodeDrive(<<code>>)
           b == VarsDrive(paths.vars)
           c == DiskDrive(paths.disk)
           d == CdDrive(iso)
           image == <<code>>
           read_only == <<"readonly=", "on">>
           first == <<"unit=", "0">>
           drives == DrivesFor(code, paths, iso)
<1>1. /\ Valued(a, "file=") = {image} /\ read_only \in a /\ first \in a
      /\ Valued(b, "file=") = {paths.vars} /\ read_only \notin b /\ first \notin b
      /\ Valued(c, "file=") = {paths.disk} /\ read_only \notin c /\ first \notin c
      /\ Valued(d, "file=") = {iso} /\ read_only \in d /\ first \notin d
  <2>1. /\ IsDrive(a, image, "raw", TRUE, TRUE)
        /\ IsDrive(b, paths.vars, "raw", FALSE, FALSE)
        /\ IsDrive(c, paths.disk, "qcow2", FALSE, FALSE)
        /\ IsDrive(d, iso, "raw", TRUE, FALSE)
    BY DrivesAre
  <2> HIDE DEF a, b, c, d, image
  <2>2. QED BY <2>1 DEF IsDrive
<1>2. drives = {a, b, c} \union (IF iso = NoIso THEN {} ELSE {d})
  BY DEF DrivesFor
<1> HIDE DEF a, b, c, d, image, read_only, first, drives
<1>3. FilesOf(drives) = {image, paths.vars, paths.disk} \union (IF iso = NoIso THEN {} ELSE {iso})
  <2>1. FilesOf(drives) = UNION {Valued(drive, "file=") : drive \in drives}
    BY DEF FilesOf
  <2>2. \A x : x \in FilesOf(drives) <=> \E drive \in drives : x \in Valued(drive, "file=")
    BY <2>1
  <2>3. CASE iso = NoIso
    BY <1>1, <1>2, <2>2, <2>3
  <2>4. CASE iso # NoIso
    BY <1>1, <1>2, <2>2, <2>4
  <2>5. QED BY <2>3, <2>4
<1>4. FilesOf(Writable(drives)) = {paths.vars, paths.disk}
  <2> DEFINE some == Writable(drives)
  <2>1. \A x : x \in FilesOf(some) <=> \E drive \in some : x \in Valued(drive, "file=")
    BY DEF FilesOf
  <2>2. some = {drive \in drives : read_only \notin drive}
    BY DEF Writable, read_only
  <2>3. \A drive : drive \in some <=> drive = b \/ drive = c
    BY <1>1, <1>2, <2>2
  <2> HIDE DEF some
  <2>4. \A x : x \in FilesOf(some) <=> x \in Valued(b, "file=") \/ x \in Valued(c, "file=")
    BY <2>1, <2>3
  <2>5. \A x : x \in FilesOf(some) <=> x = paths.vars \/ x = paths.disk
    BY <1>1, <2>4
  <2>6. FilesOf(some) = {paths.vars, paths.disk}
    BY <2>5
  <2>7. QED BY <2>6 DEF some
<1>5. FilesOf({drive \in drives : first \in drive}) = {image}
  <2> DEFINE some == {drive \in drives : first \in drive}
  <2>1. \A x : x \in FilesOf(some) <=> \E drive \in some : x \in Valued(drive, "file=")
    BY DEF FilesOf
  <2>3. \A drive : drive \in some <=> drive = a
    BY <1>1, <1>2
  <2> HIDE DEF some
  <2>4. FilesOf(some) = {image}
    BY <1>1, <2>1, <2>3
  <2>5. QED BY <2>4 DEF some
<1>6. OpenedFiles(code, paths, iso)
        = {image, paths.vars, paths.disk} \union (IF iso = NoIso THEN {} ELSE {iso})
  BY DEF OpenedFiles, image
<1>7. HasFiles(drives, OpenedFiles(code, paths, iso), {paths.vars, paths.disk}, {image})
  BY <1>3, <1>4, <1>5, <1>6 DEF HasFiles, first
<1>8. QED BY <1>7 DEF drives, image

-----------------------------------------------------------------------------
(* No guest can write a file of another VM's, nor of a copy of its own     *)
(* directory: for all valid names, environments and paths.                 *)
THEOREM NothingShared == MediaApart => (Spec => []NoSharedWrites)
<1> SUFFICES ASSUME MediaApart PROVE Spec => []NoSharedWrites
  OBVIOUS
<1>1. InputOK => NoSharedWrites
  <2> SUFFICES ASSUME InputOK, HasArgv, NEW other \in Names \ {input.directory}
               PROVE  LET copy == LoadedPaths(input.env, other, input.config)
                      IN /\ FilesOf(Writable(Drives(Argv)))
                              \intersect FilesOf(Drives(Build(input.config, input.host, copy))) = {}
                         /\ Paths.tpm_socket # copy.tpm_socket
    BY DEF NoSharedWrites
  <2> DEFINE env == input.env
             name == input.directory
             iso == input.config.iso
             code == Best(input.host.files).code
             own == VmPaths(env, name)
             copy == VmPaths(env, other)
  <2>1. /\ EnvOK(env) /\ NameOK(name) /\ NameOK(other) /\ Sequence(iso)
        /\ name \in Names /\ other \in Names /\ name # other /\ iso \in Isos \union {NoIso}
    BY InputVm
  <2>2. env \in Envs
    BY InputKinds DEF HasArgv, Vms
  <2>3. /\ Drives(Argv) = DrivesFor(code, own, iso)
        /\ Drives(Build(input.config, input.host, LoadedPaths(input.env, other, input.config)))
             = DrivesFor(code, copy, iso)
    BY <2>1, DrivesOfInput DEF Argv, Paths
  <2>4. Paths = own /\ LoadedPaths(input.env, other, input.config) = copy
    BY DEF Paths, LoadedPaths
  <2>5. /\ EndsIn(own.disk, "disk.qcow2") /\ EndsIn(own.vars, "OVMF_VARS.fd")
        /\ EndsIn(copy.disk, "disk.qcow2") /\ EndsIn(copy.vars, "OVMF_VARS.fd")
        /\ Len(own.disk) # 1 /\ Len(own.vars) # 1
    BY <2>1, FilesOfVmAre
  <2>6. /\ own.disk # copy.disk /\ own.vars # copy.vars
        /\ own.tpm_socket # copy.tpm_socket
    BY <2>1, FilesApart
  <2>7. iso # NoIso => own.disk # iso /\ own.vars # iso
    BY <2>1, <2>2 DEF MediaApart
  <2> HIDE DEF env, name, iso, own, copy, code
  <2>8. /\ HasFiles(DrivesFor(code, own, iso), OpenedFiles(code, own, iso),
                    {own.vars, own.disk}, {<<code>>})
        /\ HasFiles(DrivesFor(code, copy, iso), OpenedFiles(code, copy, iso),
                    {copy.vars, copy.disk}, {<<code>>})
    <3>1. Sequence(own.vars) /\ Sequence(own.disk)
      BY <2>5 DEF EndsIn
    <3>2. Sequence(copy.vars) /\ Sequence(copy.disk)
      BY <2>5 DEF EndsIn
    <3>3. QED BY <2>1, <3>1, <3>2, FilesOfDrives
  <2>9. own.disk # copy.vars /\ own.vars # copy.disk
    BY <2>5 DEF EndsIn
  <2>10. own.disk # <<code>> /\ own.vars # <<code>>
    <3> DEFINE image == <<code>>
    <3>1. Len(image) = 1
      OBVIOUS
    <3> HIDE DEF image
    <3>2. Len(own.disk) # Len(image) /\ Len(own.vars) # Len(image)
      BY <2>5, <3>1
    <3>3. own.disk # image /\ own.vars # image
      BY <3>2, Zenon
    <3>4. QED BY <3>3 DEF image
  <2>11. {own.vars, own.disk} \intersect OpenedFiles(code, copy, iso) = {}
    BY <2>6, <2>7, <2>9, <2>10 DEF OpenedFiles
  <2>12. FilesOf(Writable(Drives(Argv))) = {own.vars, own.disk}
    BY <2>3, <2>8 DEF HasFiles
  <2>13. FilesOf(Drives(Build(input.config, input.host,
                              LoadedPaths(input.env, other, input.config))))
           = OpenedFiles(code, copy, iso)
    BY <2>3, <2>8 DEF HasFiles
  <2>14. QED BY <2>4, <2>6, <2>11, <2>12, <2>13
<1>2. QED BY <1>1, TextsTyped, PTL

-----------------------------------------------------------------------------
(* The socket QEMU connects to, and the command lines of swtpm and         *)
(* qemu-img.                                                               *)
SocketDev(socket) == {<<"socket">>, <<"id=", "chrtpm">>, <<"path=">> \o socket}

LEMMA SocketRead ==
  ASSUME NEW paths, Sequence(paths.tpm_socket)
  PROVE  QemuReads(SocketValue(paths)) = SocketDev(paths.tpm_socket)
<1> DEFINE a == <<"socket">>
           b == <<"id=", "chrtpm">>
           c == <<"path=">>
           path == paths.tpm_socket
           all == <<a, b, c>>
<1>1. Sequence(a) /\ Plain(a) /\ Sequence(b) /\ Plain(b) /\ Sequence(c) /\ Plain(c)
  BY KeyAlone, KeyValue DEF Comma
<1>2. SocketValue(paths) = Escaped(all, path)
  BY DEF SocketValue
<1> HIDE DEF a, b, c, path
<1>3. OptionList(all) /\ UpToThird(all, a, b, c)
  BY <1>1, ListOfThree
<1> HIDE DEF all
<1>4. Sequence(path)
  BY DEF path
<1>5. QemuReads(Escaped(all, path)) = OptionsUpTo(all, path)
  BY <1>3, <1>4, EscapedReadsBack
<1>6. SocketDev(path) = {a, b, c \o path}
  BY DEF SocketDev, a, b, c
<1>7. QemuReads(SocketValue(paths)) = SocketDev(path)
  BY <1>2, <1>3, <1>5, <1>6 DEF UpToThird
<1>8. QED BY <1>7 DEF path

LEMMA SocketPath ==
  ASSUME NEW path, Sequence(path)
  PROVE  Valued(SocketDev(path), "path=") = {path}
<1> DEFINE a == <<"socket">>
           b == <<"id=", "chrtpm">>
           c == <<"path=">> \o path
           dev == SocketDev(path)
<1>1. dev = {a, b, c}
  BY DEF SocketDev
<1>2. Valued({c}, "path=") = {path}
  BY ValuedPath DEF One
<1>3. Valued({b}, "path=") = {}
  <2>1. \A key : Valued({b}, key) = One("id=", <<"chrtpm">>, key)
    BY ValuedPair
  <2> HIDE DEF b
  <2>2. QED BY <2>1 DEF One
<1>4. Valued({a}, "path=") = {}
  <2>1. a[1] = "socket"
    OBVIOUS
  <2> HIDE DEF a
  <2>2. a[1] # "path="
    BY <2>1
  <2>3. QED BY <2>2 DEF Valued
<1> HIDE DEF a, b, c, dev
<1>5. \A x : x \in Valued(dev, "path=") <=> \E option \in dev : x \in Valued({option}, "path=")
  BY ValuedEach
<1>6. Valued(dev, "path=") = {path}
  BY <1>1, <1>2, <1>3, <1>4, <1>5
<1>7. QED BY <1>6 DEF dev

LEMMA ImageArgs ==
  ASSUME NEW disk
  PROVE  /\ Values(CreateArgs(disk), "image") = {disk}
         /\ Values(CreateArgs(disk), "-f") = {<<"qcow2">>}
<1> DEFINE format == <<"qcow2">>
           args == Flag("-f", format) \o Flag("image", disk)
<1>1. CreateArgs(disk) = args
  BY DEF CreateArgs
<1> HIDE DEF format
<1>2. \A flag : Values(args, flag) = One("-f", format, flag) \union One("image", disk, flag)
  BY TwoFlags
<1> HIDE DEF args
<1>3. Values(args, "image") = {disk} /\ Values(args, "-f") = {format}
  BY <1>2 DEF One
<1>4. QED BY <1>1, <1>3 DEF format

(* The character devices of the VM in the input.                           *)
LEMMA SocketOfInput ==
  ASSUME InputOK, HasArgv
  PROVE  {QemuReads(v) : v \in Values(Argv, "-chardev")}
           = IF input.config.tpm THEN {SocketDev(Paths.tpm_socket)} ELSE {}
<1> DEFINE pair == Best(input.host.files)
           tpm == input.config.tpm
           value == SocketValue(Paths)
<1>1. HasFirmware(input.host.files) /\ EnvOK(input.env) /\ NameOK(input.directory)
  BY InputVm
<1>2. pair.secure_boot \in BOOLEAN
  BY <1>1, BestIsListed, PairsListed
<1>3. Values(Argv, "-chardev") = IF tpm THEN {value} ELSE {}
  <2>1. Values(Build(input.config, input.host, Paths), "-chardev") = IF tpm THEN {value} ELSE {}
    BY <1>2, GivesBuild DEF Gives
  <2>2. QED BY <2>1 DEF Argv
<1>4. Paths = VmPaths(input.env, input.directory)
  BY DEF Paths, LoadedPaths
<1>5. Sequence(Paths.tpm_socket)
  BY <1>1, <1>4, FilesOfVmAre
<1>6. QemuReads(value) = SocketDev(Paths.tpm_socket)
  BY <1>5, SocketRead
<1> HIDE DEF value, tpm
<1>7. {QemuReads(v) : v \in Values(Argv, "-chardev")} = IF tpm THEN {SocketDev(Paths.tpm_socket)} ELSE {}
  BY <1>3, <1>6
<1>8. QED BY <1>7 DEF tpm

-----------------------------------------------------------------------------
(* Every path reaches QEMU whole: for all names, environments and paths,   *)
(* whatever commas are in them.                                            *)
LEMMA DriveIsRight ==
  ASSUME NEW d, NEW path, NEW format, NEW read_only, NEW first,
         IsDrive(d, path, format, read_only, first), NEW disk,
         path = disk => format = "qcow2"
  PROVE  /\ Cardinality(Valued(d, "file=")) = 1
         /\ \A option \in d : option[1] \in DriveKeys
         /\ Valued(d, "file=") = {disk} => Valued(d, "format=") = {<<"qcow2">>}
<1>1. Valued(d, "file=") = {path} /\ Valued(d, "format=") = {<<format>>}
  BY DEF IsDrive
<1>2. Cardinality({path}) = 1
  BY FS_Singleton
<1>3. Cardinality(Valued(d, "file=")) = 1
  BY <1>1, <1>2, Zenon
<1>4. Valued(d, "file=") = {disk} => Valued(d, "format=") = {<<"qcow2">>}
  <2> SUFFICES ASSUME Valued(d, "file=") = {disk} PROVE Valued(d, "format=") = {<<"qcow2">>}
    OBVIOUS
  <2>1. path = disk
    BY <1>1
  <2>2. QED BY <1>1, <2>1, Zenon
<1>5. QED BY <1>3, <1>4 DEF IsDrive

THEOREM PathsArrive == MediaApart => (Spec => []PathsReadBack)
<1> SUFFICES ASSUME MediaApart PROVE Spec => []PathsReadBack
  OBVIOUS
<1>1. InputOK => PathsReadBack
  <2> SUFFICES ASSUME InputOK, HasArgv PROVE PathsReadBack
    BY DEF PathsReadBack
  <2> DEFINE code == Best(input.host.files).code
             iso == input.config.iso
             own == VmPaths(input.env, input.directory)
             drives == Drives(Argv)
             chardevs == {QemuReads(v) : v \in Values(Argv, "-chardev")}
             image == Values(CreateArgs(Paths.disk), "image")
             Right(d) == /\ Cardinality(Valued(d, "file=")) = 1
                         /\ \A option \in d : option[1] \in DriveKeys
                         /\ Valued(d, "file=") = {own.disk} => Valued(d, "format=") = {<<"qcow2">>}
  <2>1. /\ EnvOK(input.env) /\ NameOK(input.directory) /\ Sequence(iso)
        /\ input.env \in Envs /\ input.directory \in Names /\ iso \in Isos \union {NoIso}
        /\ input.config.tpm \in BOOLEAN
    <3>1. input \in Vms
      BY InputKinds DEF HasArgv
    <3>2. QED BY <3>1, InputVm DEF Vms
  <2>2. Paths = own
    BY DEF Paths, LoadedPaths
  <2>3. /\ EndsIn(own.disk, "disk.qcow2") /\ EndsIn(own.vars, "OVMF_VARS.fd")
        /\ Sequence(own.tpm_socket) /\ Len(own.disk) # 1
    BY <2>1, FilesOfVmAre
  <2>4. Sequence(own.disk) /\ Sequence(own.vars)
    BY <2>3 DEF EndsIn
  <2>5. drives = DrivesFor(code, own, iso)
    BY <2>1, DrivesOfInput DEF Argv, Paths
  <2>6. iso # NoIso => own.disk # iso
    BY <2>1 DEF MediaApart
  <2>7. own.vars # own.disk /\ <<code>> # own.disk
    <3> DEFINE text == <<code>>
    <3>1. Len(text) = 1
      OBVIOUS
    <3> HIDE DEF text, own
    <3>2. text # own.disk
      BY <2>3, <3>1, Zenon
    <3>3. own.vars # own.disk
      BY <2>3 DEF EndsIn
    <3>4. QED BY <3>2, <3>3 DEF text
  <2>8. /\ IsDrive(CodeDrive(<<code>>), <<code>>, "raw", TRUE, TRUE)
        /\ IsDrive(VarsDrive(own.vars), own.vars, "raw", FALSE, FALSE)
        /\ IsDrive(DiskDrive(own.disk), own.disk, "qcow2", FALSE, FALSE)
        /\ IsDrive(CdDrive(iso), iso, "raw", TRUE, FALSE)
    BY <2>1, <2>4, DrivesAre
  <2>9. HasFiles(DrivesFor(code, own, iso), OpenedFiles(code, own, iso),
                 {own.vars, own.disk}, {<<code>>})
    BY <2>1, <2>4, FilesOfDrives
  <2>10. \A d \in drives : Right(d)
    <3> HIDE DEF code, iso, own, drives
    <3>1. Right(CodeDrive(<<code>>))
      BY <2>7, <2>8, DriveIsRight
    <3>2. Right(VarsDrive(own.vars))
      BY <2>7, <2>8, DriveIsRight
    <3>3. Right(DiskDrive(own.disk))
      BY <2>8, DriveIsRight
    <3>4. iso # NoIso => Right(CdDrive(iso))
      BY <2>6, <2>8, DriveIsRight
    <3> HIDE DEF Right
    <3>5. QED BY <2>5, <3>1, <3>2, <3>3, <3>4 DEF DrivesFor
  <2>11. /\ image = {own.disk}
         /\ Values(CreateArgs(Paths.disk), "-f") = {<<"qcow2">>}
    <3> HIDE DEF own
    <3>1. QED BY <2>2, ImageArgs
  <2>12. FilesOf(drives) = {<<code>>, Paths.vars, Paths.disk} \union (IF iso = NoIso THEN {} ELSE {iso})
    <3> DEFINE opened == {<<code>>, own.vars, own.disk} \union (IF iso = NoIso THEN {} ELSE {iso})
    <3> HIDE DEF code, iso, own, drives
    <3>1. opened = OpenedFiles(code, own, iso)
      BY DEF OpenedFiles
    <3> HIDE DEF opened
    <3>2. FilesOf(drives) = opened
      BY <2>5, <2>9, <3>1 DEF HasFiles
    <3>3. QED BY <2>2, <3>2 DEF opened
  <2>13. UNION {Valued(c, "path=") : c \in chardevs}
           = IF input.config.tpm THEN {Paths.tpm_socket} ELSE {}
    <3> DEFINE socket == Paths.tpm_socket
               dev == SocketDev(socket)
    <3>1. chardevs = IF input.config.tpm THEN {dev} ELSE {}
      BY SocketOfInput
    <3>2. Valued(dev, "path=") = {socket}
      BY <2>2, <2>3, SocketPath
    <3> HIDE DEF chardevs, socket, dev
    <3>3. UNION {Valued(c, "path=") : c \in chardevs} = IF input.config.tpm THEN {socket} ELSE {}
      BY <2>1, <3>1, <3>2
    <3>4. QED BY <3>3 DEF socket
  <2>14. \A d \in drives : Valued(d, "file=") = image => Valued(d, "format=") = Values(CreateArgs(Paths.disk), "-f")
    <3> HIDE DEF own, drives, image
    <3>1. QED BY <2>10, <2>11, Zenon
  <2>15. \A d \in drives : /\ Cardinality(Valued(d, "file=")) = 1
                           /\ \A option \in d : option[1] \in DriveKeys
    <3> HIDE DEF own, drives
    <3>1. QED BY <2>10
  <2> HIDE DEF own, drives, chardevs, image
  <2>16. QED BY <2>12, <2>13, <2>14, <2>15, Zenon DEF PathsReadBack, code, iso, drives, chardevs, image
<1>2. QED BY <1>1, TextsTyped, PTL

-----------------------------------------------------------------------------
(* The three flags of Secure Boot speak of the image in the first flash    *)
(* unit, whichever row of the firmware table was installed.                *)
LEMMA MachineReads ==
  ASSUME NEW pair
  PROVE  Valued(QemuReads(MachineValue(pair)), "smm=") = {<<IF pair.secure_boot THEN "on" ELSE "off">>}
<1> DEFINE smm == IF pair.secure_boot THEN "on" ELSE "off"
           a == <<"q35">>
           b == <<"smm=", smm>>
           all == <<a, b>>
           read == QemuReads(Listed(all))
           given == <<smm>>
<1>1. smm # Comma /\ "q35" # Comma /\ "smm=" # Comma
  BY DEF Comma
<1>2. MachineValue(pair) = Listed(all)
  BY DEF MachineValue
<1> HIDE DEF smm
<1>3. Sequence(a) /\ Plain(a) /\ Sequence(b) /\ Plain(b)
  BY <1>1, KeyAlone, KeyValue
<1>4. Valued({b}, "smm=") = {given}
  <2>1. \A key : Valued({b}, key) = One("smm=", <<smm>>, key)
    BY ValuedPair
  <2> HIDE DEF b
  <2>2. QED BY <2>1 DEF One
<1>5. Valued({a}, "smm=") = {}
  <2>1. a[1] = "q35"
    OBVIOUS
  <2> HIDE DEF a
  <2>2. a[1] # "smm="
    BY <2>1
  <2>3. QED BY <2>2 DEF Valued
<1> HIDE DEF a, b, given
<1>6. OptionList(all) /\ OptionsIn(all) = {a, b}
  BY <1>3, ListOfTwo
<1> HIDE DEF all
<1>7. read = {a, b}
  BY <1>6, ListedReadsBack
<1> HIDE DEF read
<1>8. \A x : x \in Valued(read, "smm=") <=> \E option \in read : x \in Valued({option}, "smm=")
  BY ValuedEach
<1>9. Valued(read, "smm=") = {given}
  BY <1>4, <1>5, <1>7, <1>8
<1>10. QED BY <1>2, <1>9 DEF read, given, smm

LEMMA SecurePair ==
  ASSUME NEW files, HasFirmware(files)
  PROVE  (\E i \in DOMAIN CANDIDATES : /\ CANDIDATES[i].secure_boot
                                       /\ <<CANDIDATES[i].code>> \in {<<Best(files).code>>})
           <=> Best(files).secure_boot
<1>1. PICK k \in 1..10 : Best(files) = CANDIDATES[k]
  BY BestIsListed
<1>2. \A i \in 1..10 : <<CANDIDATES[i].code>> = <<CANDIDATES[k].code>> => i = k
  <2> SUFFICES ASSUME NEW i \in 1..10, <<CANDIDATES[i].code>> = <<CANDIDATES[k].code>> PROVE i = k
    OBVIOUS
  <2>1. <<CANDIDATES[i].code>>[1] = <<CANDIDATES[k].code>>[1]
    OBVIOUS
  <2>2. CANDIDATES[i].code = CANDIDATES[k].code
    BY <2>1
  <2>3. QED BY <2>2, PairsListed
<1>3. QED BY <1>1, <1>2, TableRows, PairsListed

THEOREM FlagsAgree == Spec => []SecureBootAgrees
<1>1. InputOK => SecureBootAgrees
  <2> SUFFICES ASSUME InputOK, HasArgv PROVE SecureBootAgrees
    BY DEF SecureBootAgrees
  <2> DEFINE pair == Best(input.host.files)
             own == VmPaths(input.env, input.directory)
             iso == input.config.iso
             drives == Drives(Argv)
             smm == UNION {Valued(QemuReads(v), "smm=") : v \in Values(Argv, "-machine")}
             code == FilesOf({d \in drives : <<"unit=", "0">> \in d})
             globals == Values(Argv, "-global")
             secure == \E i \in DOMAIN CANDIDATES : CANDIDATES[i].secure_boot /\ <<CANDIDATES[i].code>> \in code
  <2>1. /\ EnvOK(input.env) /\ NameOK(input.directory) /\ Sequence(iso)
        /\ input.directory \in Names /\ HasFirmware(input.host.files)
    BY InputVm
  <2>2. pair.secure_boot \in BOOLEAN
    BY <2>1, BestIsListed, PairsListed
  <2>3. /\ Values(Argv, "-machine") = {MachineValue(pair)}
        /\ globals = {NoSleep} \union (IF pair.secure_boot THEN {SecureFlash} ELSE {})
    BY <2>2, GivesBuild DEF Gives, Argv
  <2>4. code = {<<pair.code>>}
    <3>1. Sequence(own.vars) /\ Sequence(own.disk)
      BY <2>1, FilesOfVmAre DEF EndsIn
    <3>2. drives = DrivesFor(pair.code, own, iso)
      BY <2>1, DrivesOfInput DEF Argv, Paths
    <3>3. HasFiles(DrivesFor(pair.code, own, iso), OpenedFiles(pair.code, own, iso),
                   {own.vars, own.disk}, {<<pair.code>>})
      BY <2>1, <3>1, FilesOfDrives
    <3> HIDE DEF pair, own, iso, drives
    <3>4. QED BY <3>2, <3>3 DEF HasFiles
  <2>5. secure <=> pair.secure_boot
    <3>1. (\E i \in DOMAIN CANDIDATES : /\ CANDIDATES[i].secure_boot
                                        /\ <<CANDIDATES[i].code>> \in {<<pair.code>>}) <=> pair.secure_boot
      BY <2>1, SecurePair
    <3> HIDE DEF code, pair
    <3>2. QED BY <2>4, <3>1
  <2>6. smm = {<<IF secure THEN "on" ELSE "off">>}
    <3> DEFINE read == QemuReads(MachineValue(pair))
               given == <<IF pair.secure_boot THEN "on" ELSE "off">>
    <3>1. Valued(read, "smm=") = {given}
      BY MachineReads
    <3>2. given = <<IF secure THEN "on" ELSE "off">>
      <4> HIDE DEF secure, pair
      <4>1. QED BY <2>5
    <3>3. smm = {given}
      <4> HIDE DEF given
      <4>1. QED BY <2>3, <3>1
    <3> HIDE DEF secure, given, smm
    <3>4. QED BY <3>2, <3>3
  <2>7. SecureFlash \in globals <=> secure
    <3>1. NoSleep # SecureFlash
      <4>1. NoSleep[1] # SecureFlash[1]
        BY DEF NoSleep, SecureFlash
      <4>2. QED BY <4>1
    <3> HIDE DEF pair, globals, secure
    <3>2. QED BY <2>2, <2>3, <2>5, <3>1
  <2> HIDE DEF drives, smm, code, globals, secure
  <2>8. QED BY <2>6, <2>7 DEF SecureBootAgrees, drives, smm, code, globals, secure, SecureFlash
<1>2. QED BY <1>1, TextsTyped, PTL

-----------------------------------------------------------------------------
(* swtpm binds the socket QEMU connects to, and keeps its state with the   *)
(* VM, when no directory has a comma in its name.                          *)
LEMMA TextReads ==
  ASSUME NEW text, Sequence(text), \A i \in 1..Len(text) : text[i] # Comma, NEW doubled \in BOOLEAN
  PROVE  Split(text, doubled) = {text}
<1>0. PICK P : text \in Seq(P)
  BY DEF Sequence
<1> DEFINE end == State(<<>>, text, FALSE)
<1>1. <<>> \in Seq(P) /\ <<>> \o text = text
  BY <1>0, ConcatEmptySeq, EmptySeq
<1>2. Reads(doubled, State(<<>>, <<>>, FALSE), text, State(<<>>, <<>> \o text, FALSE))
  BY <1>0, <1>1, ReadsText
<1>3. Reads(doubled, Start, text, end)
  BY <1>1, <1>2 DEF Start
<1>4. end.done = <<>> /\ end.option = text
  BY DEF State
<1> HIDE DEF end
<1>5. Split(text, doubled) = ToSet(Append(end.done, end.option))
  BY <1>3, SplitReads
<1>6. ToSet(Append(<<>>, text)) = {text}
  BY DEF ToSet
<1>7. QED BY <1>4, <1>5, <1>6

LEMMA CtrlReads ==
  ASSUME NEW socket, Sequence(socket), \A i \in 1..Len(socket) : socket[i] # Comma
  PROVE  Valued(SwtpmReads(Listed(<< <<"type=unixio">>, <<"path=">> >>) \o socket), "path=") = {socket}
<1> DEFINE a == <<"type=unixio">>
           b == <<"path=">>
           c == b \o socket
           all == <<a, b>>
           read == SwtpmReads(Listed(all) \o socket)
<1>1. Sequence(a) /\ Plain(a) /\ Sequence(b) /\ Plain(b)
  BY KeyAlone DEF Comma
<1>2. Valued({c}, "path=") = {socket}
  BY ValuedPath DEF One
<1>3. Valued({a}, "path=") = {}
  <2>1. a[1] = "type=unixio"
    OBVIOUS
  <2> HIDE DEF a
  <2>2. a[1] # "path="
    BY <2>1
  <2>3. QED BY <2>2 DEF Valued
<1> HIDE DEF a, b
<1>4. OptionList(all) /\ UpToSecond(all, a, b)
  BY <1>1, ListOfTwo
<1> HIDE DEF all
<1>5. read = {a, c}
  BY <1>4, PushedReadsBack DEF UpToSecond
<1> HIDE DEF c
<1> HIDE DEF read
<1>6. \A x : x \in Valued(read, "path=") <=> \E option \in read : x \in Valued({option}, "path=")
  BY ValuedEach
<1>7. Valued(read, "path=") = {socket}
  BY <1>2, <1>3, <1>5, <1>6
<1>8. QED BY <1>7 DEF read, all, a, b

LEMMA StateReads ==
  ASSUME NEW state, Sequence(state), \A i \in 1..Len(state) : state[i] # Comma
  PROVE  Valued(SwtpmReads(<<"dir=">> \o state), "dir=") = {state}
<1> DEFINE key == <<"dir=">>
           text == key \o state
<1>0. PICK P : state \in Seq(P)
  BY DEF Sequence
<1>1. /\ text \in Seq(P \union {"dir="}) /\ Len(text) = 1 + Len(state) /\ Len(state) \in Nat
      /\ text[1] = "dir=" /\ \A i \in 1..Len(state) : text[i+1] = state[i]
  BY <1>0
<1>2. Valued({text}, "dir=") = {state}
  BY ValuedPath DEF One
<1>3. "dir=" # Comma
  BY DEF Comma
<1> HIDE DEF text, key
<1>4. ASSUME NEW i \in 1..Len(text) PROVE text[i] # Comma
  <2>1. CASE i = 1
    BY <1>1, <1>3, <2>1
  <2>2. CASE i # 1
    <3>1. i - 1 \in 1..Len(state) /\ (i - 1) + 1 = i
      BY <1>1, <2>2
    <3>2. text[i] = state[i - 1]
      BY <1>1, <3>1
    <3>3. QED BY <3>1, <3>2
  <2>3. QED BY <2>1, <2>2
<1>5. Sequence(text)
  BY <1>1 DEF Sequence
<1>6. SwtpmReads(text) = {text}
  BY <1>4, <1>5, TextReads DEF SwtpmReads
<1>7. Valued(SwtpmReads(text), "dir=") = {state}
  BY <1>2, <1>6, Zenon
<1>8. QED BY <1>7 DEF text, key

LEMMA NoCommas ==
  ASSUME NEW one, Sequence(one), NEW two, Sequence(two), ~Contains(one \o two, Comma)
  PROVE  /\ \A i \in 1..Len(one) : one[i] # Comma
         /\ \A i \in 1..Len(two) : two[i] # Comma
<1>1. PICK P, Q : one \in Seq(P) /\ two \in Seq(Q)
  BY DEF Sequence
<1> DEFINE S == P \union Q
           both == one \o two
<1>2. one \in Seq(S) /\ two \in Seq(S)
  BY <1>1
<1> HIDE DEF S
<1>3. /\ Len(both) = Len(one) + Len(two) /\ Len(one) \in Nat /\ Len(two) \in Nat
      /\ \A i \in 1..Len(one) : both[i] = one[i]
      /\ \A i \in 1..Len(two) : both[Len(one) + i] = two[i]
  BY <1>2
<1>4. \A i \in 1..Len(both) : both[i] # Comma
  BY DEF Contains
<1> HIDE DEF both
<1>5. \A i \in 1..Len(one) : i \in 1..Len(both)
  BY <1>3
<1>6. \A i \in 1..Len(two) : Len(one) + i \in 1..Len(both)
  BY <1>3
<1>7. \A i \in 1..Len(one) : one[i] # Comma
  BY <1>3, <1>4, <1>5
<1>8. ASSUME NEW i \in 1..Len(two) PROVE two[i] # Comma
  <2>1. both[Len(one) + i] # Comma
    BY <1>4, <1>6
  <2>2. QED BY <1>3, <2>1
<1>9. QED BY <1>7, <1>8

LEMMA SocketArgsGive ==
  ASSUME NEW dir, NEW ctrl
  PROVE  /\ Values(Flag("--tpmstate", dir) \o Flag("--ctrl", ctrl), "--ctrl") = {ctrl}
         /\ Values(Flag("--tpmstate", dir) \o Flag("--ctrl", ctrl), "--tpmstate") = {dir}
<1> DEFINE args == Flag("--tpmstate", dir) \o Flag("--ctrl", ctrl)
<1>1. \A flag : Values(args, flag) = One("--tpmstate", dir, flag) \union One("--ctrl", ctrl, flag)
  BY TwoFlags
<1> HIDE DEF args
<1>2. Values(args, "--ctrl") = {ctrl} /\ Values(args, "--tpmstate") = {dir}
  BY <1>1 DEF One
<1>3. QED BY <1>2 DEF args

THEOREM SocketShared == Spec => []SameSocket
<1>1. InputOK => SameSocket
  <2> DEFINE own == VmPaths(input.env, input.directory)
             socket == Paths.tpm_socket
             state == Paths.tpm_state
  <2> SUFFICES ASSUME InputOK, HasArgv, input.config.tpm, ~Contains(socket \o state, ",")
               PROVE  SwtpmValue("--ctrl", "path=") = QemuSocket /\ SwtpmValue("--tpmstate", "dir=") = {state}
    BY DEF SameSocket
  <2>1. EnvOK(input.env) /\ NameOK(input.directory)
    BY InputVm
  <2>2. Paths = own
    BY DEF Paths, LoadedPaths
  <2>3. Sequence(socket) /\ Sequence(state)
    BY <2>1, <2>2, FilesOfVmAre DEF EndsIn
  <2>4. /\ \A i \in 1..Len(socket) : socket[i] # Comma
        /\ \A i \in 1..Len(state) : state[i] # Comma
    <3> HIDE DEF socket, state
    <3>1. ~Contains(socket \o state, Comma)
      BY Zenon DEF Comma
    <3>2. QED BY <2>3, <3>1, NoCommas
  <2>5. QemuSocket = {socket}
    <3> DEFINE chardevs == {QemuReads(v) : v \in Values(Argv, "-chardev")}
               dev == SocketDev(socket)
    <3>1. chardevs = {dev}
      BY SocketOfInput
    <3>2. Valued(dev, "path=") = {socket}
      BY <2>3, SocketPath
    <3>3. QemuSocket = UNION {Valued(c, "path=") : c \in chardevs}
      BY DEF QemuSocket
    <3> HIDE DEF chardevs, socket, dev
    <3>4. QED BY <3>1, <3>2, <3>3
  <2> DEFINE dir == <<"dir=">> \o state
             ctrl == Listed(<< <<"type=unixio">>, <<"path=">> >>) \o socket
             args == Flag("--tpmstate", dir) \o Flag("--ctrl", ctrl)
  <2>6. SocketArgs(state, socket) = args
    BY DEF SocketArgs
  <2>7. Valued(SwtpmReads(ctrl), "path=") = {socket} /\ Valued(SwtpmReads(dir), "dir=") = {state}
    <3> HIDE DEF socket, state
    <3>1. QED BY <2>3, <2>4, CtrlReads, StateReads
  <2> HIDE DEF dir, ctrl
  <2>8. Values(args, "--ctrl") = {ctrl} /\ Values(args, "--tpmstate") = {dir}
    BY SocketArgsGive
  <2> HIDE DEF args
  <2>9. SwtpmValue("--ctrl", "path=") = {socket}
    <3>1. SwtpmValue("--ctrl", "path=") = UNION {Valued(SwtpmReads(v), "path=") : v \in Values(args, "--ctrl")}
      BY <2>6 DEF SwtpmValue
    <3> HIDE DEF socket
    <3>2. QED BY <2>7, <2>8, <3>1
  <2>10. SwtpmValue("--tpmstate", "dir=") = {state}
    <3>1. SwtpmValue("--tpmstate", "dir=") = UNION {Valued(SwtpmReads(v), "dir=") : v \in Values(args, "--tpmstate")}
      BY <2>6 DEF SwtpmValue
    <3> HIDE DEF state
    <3>2. QED BY <2>7, <2>8, <3>1
  <2> HIDE DEF socket, state
  <2>11. QED BY <2>5, <2>9, <2>10
<1>2. QED BY <1>1, TextsTyped, PTL

-----------------------------------------------------------------------------
(* What is left of a command line without the medium's arguments, part by  *)
(* part.                                                                   *)
LEMMA RestSteps ==
  ASSUME NEW argv, Sequence(argv)
  PROVE  \E h : /\ h[0] = <<>>
                /\ \A k \in 1..Len(argv) :
                     h[k] = IF OfMedium(argv[k]) THEN h[k-1] ELSE Append(h[k-1], argv[k])
                /\ ButMedium(argv) = h[Len(argv)]
<1>0. PICK P : argv \in Seq(P)
  BY DEF Sequence
<1> SUFFICES ASSUME NEW n \in Nat, n = Len(argv)
             PROVE  \E h : /\ h[0] = <<>>
                           /\ \A k \in 1..n :
                                h[k] = IF OfMedium(argv[k]) THEN h[k-1] ELSE Append(h[k-1], argv[k])
                           /\ ButMedium(argv) = h[n]
  BY <1>0
<1> DEFINE Rest(f, i, s) == IF OfMedium(argv[i]) THEN f[s] ELSE Append(f[s], argv[i])
           Def(f) == [s \in SUBSET (1..n) |-> IF s = {} THEN <<>> ELSE Rest(f, Max(s), s \ {Max(s)})]
           F == CHOOSE f : f = Def(f)
           h == [k \in 0..n |-> F[1..k]]
           X == Seq(P)
<1>1. DOMAIN argv = 1..n /\ \A i \in 1..n : argv[i] \in P
  BY <1>0
<1>2. F = Def(F)
  <2> DEFINE g == [p \in X \X (1..n) |-> IF OfMedium(argv[p[2]]) THEN p[1] ELSE Append(p[1], argv[p[2]])]
  <2>0. <<>> \in X
    BY EmptySeq
  <2>1. g \in [X \X (1..n) -> X]
    BY <1>1
  <2> HIDE DEF X
  <2>2. PICK f : IsFold(f, n, X, <<>>, g)
    <3> HIDE DEF g
    <3>1. QED BY <2>0, <2>1, FoldExists
  <2>3. ASSUME NEW s \in SUBSET (1..n), s # {}
        PROVE  f[s] = Rest(f, Max(s), s \ {Max(s)})
    <3>1. Max(s) \in 1..n
      BY <2>3, GreatestOf
    <3>2. f[s \ {Max(s)}] \in X
      BY <2>2 DEF IsFold
    <3>3. QED BY <2>2, <2>3, <3>1, <3>2 DEF IsFold
  <2> HIDE DEF Rest
  <2>4. f = Def(f)
    BY <2>2, <2>3 DEF IsFold
  <2> HIDE DEF Def
  <2>5. QED BY <2>4
<1>3. ButMedium(argv) = F[1..n]
  BY <1>1 DEF ButMedium, FoldLeft, MapThenFoldSet
<1> HIDE DEF F
<1>4. h[0] = <<>>
  <2>1. {} \in SUBSET (1..n) /\ 1..0 = {} /\ 0 \in 0..n
    OBVIOUS
  <2> HIDE DEF Rest
  <2>2. F[{}] = <<>>
    BY <1>2, <2>1
  <2>3. QED BY <2>1, <2>2
<1>5. ASSUME NEW k \in 1..n
      PROVE  h[k] = IF OfMedium(argv[k]) THEN h[k-1] ELSE Append(h[k-1], argv[k])
  <2>1. /\ 1..k \in SUBSET (1..n) /\ 1..k # {}
        /\ Max(1..k) = k /\ (1..k) \ {k} = 1..(k-1)
    BY PositionsUpTo
  <2>2. F[1..k] = Rest(F, k, 1..(k-1))
    <3> HIDE DEF Rest
    <3>1. QED BY <1>2, <2>1
  <2>3. k \in 0..n /\ k - 1 \in 0..n
    OBVIOUS
  <2>4. QED BY <2>2, <2>3
<1>6. ButMedium(argv) = h[n]
  BY <1>3
<1> HIDE DEF h
<1>7. QED BY <1>4, <1>5, <1>6

LEMMA RestOfNone == ButMedium(<<>>) = <<>>
<1>1. Len(<<>>) = 0 /\ <<>> \in Seq({})
  BY EmptySeq
<1>2. QED BY <1>1, RestSteps DEF Sequence

LEMMA RestType ==
  ASSUME NEW P, NEW argv \in Seq(P)
  PROVE  ButMedium(argv) \in Seq(P)
<1> DEFINE n == Len(argv)
<1>1. PICK h : /\ h[0] = <<>>
               /\ \A k \in 1..n : h[k] = IF OfMedium(argv[k]) THEN h[k-1] ELSE Append(h[k-1], argv[k])
               /\ ButMedium(argv) = h[n]
  BY RestSteps DEF Sequence
<1>2. n \in Nat /\ \A k \in 1..n : argv[k] \in P
  OBVIOUS
<1> HIDE DEF n
<1> DEFINE X == Seq(P)
           T == {k \in 0..n : h[k] \in X}
<1>0. h[0] \in X /\ \A s \in X, a \in P : Append(s, a) \in X
  BY <1>1, EmptySeq
<1> HIDE DEF X
<1>3. 0 \in T
  BY <1>2, <1>0
<1>4. ASSUME NEW j \in 0..(n-1), j \in T PROVE j + 1 \in T
  <2>1. j + 1 \in 1..n /\ (j + 1) - 1 = j /\ j + 1 \in 0..n
    BY <1>2
  <2>2. /\ h[j+1] = IF OfMedium(argv[j+1]) THEN h[j] ELSE Append(h[j], argv[j+1])
        /\ argv[j+1] \in P /\ h[j] \in X
    BY <1>1, <1>2, <1>4, <2>1
  <2>3. h[j+1] \in X
    BY <1>0, <2>2
  <2>4. QED BY <2>1, <2>3
<1>5. n \in T
  <2>1. n \in 0..n
    BY <1>2
  <2> HIDE DEF T
  <2>2. QED BY <1>2, <1>3, <1>4, <2>1, UpTo
<1>6. QED BY <1>1, <1>5 DEF X

LEMMA RestAppend ==
  ASSUME NEW P, NEW argv \in Seq(P), NEW a \in P
  PROVE  ButMedium(Append(argv, a)) = IF OfMedium(a) THEN ButMedium(argv) ELSE Append(ButMedium(argv), a)
<1> DEFINE more == Append(argv, a)
           n == Len(argv)
<1>1. PICK h : /\ h[0] = <<>>
               /\ \A k \in 1..n : h[k] = IF OfMedium(argv[k]) THEN h[k-1] ELSE Append(h[k-1], argv[k])
               /\ ButMedium(argv) = h[n]
  BY RestSteps DEF Sequence
<1>2. /\ more \in Seq(P) /\ Len(more) = n + 1 /\ n \in Nat
      /\ \A k \in 1..n : more[k] = argv[k]
      /\ more[n+1] = a
  OBVIOUS
<1> HIDE DEF more
<1>3. PICK r : /\ r[0] = <<>>
               /\ \A k \in 1..Len(more) : r[k] = IF OfMedium(more[k]) THEN r[k-1] ELSE Append(r[k-1], more[k])
               /\ ButMedium(more) = r[Len(more)]
  BY <1>2, RestSteps DEF Sequence
<1> HIDE DEF n
<1> DEFINE T == {k \in 0..n : h[k] = r[k]}
<1>4. 0 \in T
  BY <1>1, <1>2, <1>3
<1>5. ASSUME NEW j \in 0..(n-1), j \in T PROVE j + 1 \in T
  <2>1. j + 1 \in 1..n /\ j + 1 \in 1..Len(more) /\ (j + 1) - 1 = j /\ j + 1 \in 0..n
    BY <1>2
  <2>2. /\ h[j+1] = IF OfMedium(argv[j+1]) THEN h[j] ELSE Append(h[j], argv[j+1])
        /\ r[j+1] = IF OfMedium(argv[j+1]) THEN r[j] ELSE Append(r[j], argv[j+1])
    BY <1>1, <1>2, <1>3, <2>1
  <2>3. h[j] = r[j]
    BY <1>5
  <2>4. QED BY <2>1, <2>2, <2>3
<1>6. n \in T
  <2>1. n \in 0..n
    BY <1>2
  <2> HIDE DEF T
  <2>2. QED BY <1>2, <1>4, <1>5, <2>1, UpTo
<1>7. r[n+1] = IF OfMedium(a) THEN r[n] ELSE Append(r[n], a)
  <2>1. n + 1 \in 1..Len(more) /\ (n + 1) - 1 = n
    BY <1>2
  <2>2. QED BY <1>2, <1>3, <2>1
<1>8. QED BY <1>1, <1>2, <1>3, <1>6, <1>7 DEF more

LEMMA RestOfBoth ==
  ASSUME NEW one, Sequence(one), NEW two, Sequence(two)
  PROVE  ButMedium(one \o two) = ButMedium(one) \o ButMedium(two)
<1>1. PICK P : one \in Seq(P) /\ two \in Seq(P)
  <2>1. PICK S, Q : one \in Seq(S) /\ two \in Seq(Q)
    BY DEF Sequence
  <2>2. one \in Seq(S \union Q) /\ two \in Seq(S \union Q)
    BY <2>1
  <2>3. QED BY <2>2
<1> DEFINE n == Len(two)
           Whole(k) == ButMedium(one \o SubSeq(two, 1, k))
           Parts(k) == ButMedium(one) \o ButMedium(SubSeq(two, 1, k))
           T == {k \in 0..n : Whole(k) = Parts(k)}
<1>2. n \in Nat /\ ButMedium(one) \in Seq(P)
  BY <1>1, RestType
<1>3. 0 \in T
  <2> DEFINE none == SubSeq(two, 1, 0)
  <2>1. none = <<>>
    BY <1>1, Growing
  <2> HIDE DEF none
  <2>2. one \o none = one /\ ButMedium(none) = <<>>
    BY <1>1, <2>1, RestOfNone, ConcatEmptySeq, Zenon
  <2>3. ButMedium(one) \o ButMedium(none) = ButMedium(one)
    BY <1>2, <2>2, ConcatEmptySeq
  <2>4. Whole(0) = Parts(0)
    BY <2>2, <2>3 DEF none
  <2> HIDE DEF Whole, Parts
  <2>5. 0 \in 0..n
    BY <1>2
  <2>6. QED BY <2>4, <2>5
<1>4. ASSUME NEW j \in 0..(n-1), j \in T PROVE j + 1 \in T
  <2> DEFINE k == j + 1
             start == SubSeq(two, 1, j)
             a == two[k]
             both == one \o start
  <2>1. k \in 1..n /\ k \in 0..n /\ k - 1 = j
    BY <1>2
  <2>2. SubSeq(two, 1, k) = Append(start, a) /\ start \in Seq(P) /\ a \in P
    BY <1>1, <2>1, Growing
  <2>3. one \o SubSeq(two, 1, k) = Append(both, a)
    BY <1>1, <2>1, OneMorePiece
  <2>4. both \in Seq(P)
    BY <1>1, <2>2
  <2>5. ButMedium(both) = ButMedium(one) \o ButMedium(start)
    BY <1>4
  <2> HIDE DEF start, a, both, k
  <2>6. /\ ButMedium(Append(start, a)) = IF OfMedium(a) THEN ButMedium(start) ELSE Append(ButMedium(start), a)
        /\ ButMedium(Append(both, a)) = IF OfMedium(a) THEN ButMedium(both) ELSE Append(ButMedium(both), a)
        /\ ButMedium(start) \in Seq(P)
    BY <2>2, <2>4, RestAppend, RestType
  <2>7. \A s, t \in Seq(P) : Append(s \o t, a) = s \o Append(t, a)
    <3> SUFFICES ASSUME NEW s \in Seq(P), NEW t \in Seq(P) PROVE Append(s \o t, a) = s \o Append(t, a)
      OBVIOUS
    <3> DEFINE left == Append(s \o t, a)
               right == s \o Append(t, a)
    <3>1. left \in Seq(P) /\ right \in Seq(P) /\ Len(left) = Len(right)
      BY <2>2
    <3>2. \A i \in 1..Len(left) : left[i] = right[i]
      BY <2>2
    <3> HIDE DEF left, right
    <3>3. left = right
      BY <3>1, <3>2, SeqEqual
    <3>4. QED BY <3>3 DEF left, right
  <2>8. ButMedium(Append(both, a)) = ButMedium(one) \o ButMedium(Append(start, a))
    <3>1. CASE OfMedium(a)
      BY <2>5, <2>6, <3>1
    <3>2. CASE ~OfMedium(a)
      <4>1. ButMedium(Append(both, a)) = Append(ButMedium(one) \o ButMedium(start), a)
        BY <2>5, <2>6, <3>2
      <4>2. ButMedium(Append(start, a)) = Append(ButMedium(start), a)
        BY <2>6, <3>2
      <4>3. QED BY <1>2, <2>6, <2>7, <4>1, <4>2
    <3>3. QED BY <3>1, <3>2
  <2>9. Whole(k) = Parts(k)
    BY <2>2, <2>3, <2>8
  <2> HIDE DEF Whole, Parts
  <2>10. k \in T
    BY <2>1, <2>9
  <2>11. QED BY <2>10 DEF k
<1>5. n \in T
  <2>1. n \in 0..n
    BY <1>2
  <2> HIDE DEF T, n
  <2>2. QED BY <1>2, <1>3, <1>4, <2>1, UpTo
<1>6. SubSeq(two, 1, n) = two
  BY <1>1, Growing
<1>7. QED BY <1>5, <1>6

LEMMA AfterPiece ==
  ASSUME NEW Q, NEW piece, <<piece>> \in Seq(Q), NEW text \in Seq(Q), NEW all, all = <<piece>> \o text
  PROVE  /\ all \in Seq(Q) /\ Len(all) = 1 + Len(text) /\ Len(text) \in Nat
         /\ all[1] = piece /\ \A k \in 1..Len(text) : all[k+1] = text[k]
  OBVIOUS

(* A listed option's pieces are in the text.                               *)
LEMMA ListedHolds ==
  ASSUME NEW P, NEW options \in Seq(Seq(P)), NEW i \in 1..Len(options),
         NEW j \in 1..Len(options[i]), NEW path \in Seq(P)
  PROVE  Contains(Listed(options), options[i][j]) /\ Contains(Listed(options) \o path, options[i][j])
<1> DEFINE Q == P \union {Comma}
           n == Len(options)
           x == options[i][j]
           seqs == [k \in DOMAIN options |-> <<Comma>> \o options[k]]
<1>1. /\ \A k \in 1..n : options[k] \in Seq(Q) /\ <<Comma>> \o options[k] \in Seq(Q)
      /\ <<Comma>> \in Seq(Q) /\ n \in Nat /\ n # 0 /\ path \in Seq(Q)
  OBVIOUS
<1>2. /\ seqs \in Seq(Seq(Q)) /\ Len(seqs) = n
      /\ \A k \in 1..n : seqs[k] = <<Comma>> \o options[k]
  <2>1. DOMAIN options = 1..n
    OBVIOUS
  <2> HIDE DEF Q
  <2>2. seqs \in [1..n -> Seq(Q)]
    BY <1>1, <2>1
  <2>3. QED BY <2>1, <2>2
<1>3. Listed(options) = Tail(FlattenSeq(seqs))
  BY DEF Listed, Comma
<1>4. /\ seqs[i] \in Seq(Q) /\ Len(seqs[i]) = 1 + Len(options[i])
      /\ j + 1 \in 2..Len(seqs[i]) /\ seqs[i][j+1] = x
  <2>1. seqs[i] = <<Comma>> \o options[i] /\ options[i] \in Seq(Q)
    BY <1>1, <1>2
  <2> HIDE DEF seqs, Q
  <2>2. /\ seqs[i] \in Seq(Q) /\ Len(seqs[i]) = 1 + Len(options[i]) /\ Len(options[i]) \in Nat
        /\ \A k \in 1..Len(options[i]) : seqs[i][k+1] = options[i][k]
    <3> DEFINE text == options[i]
               all == seqs[i]
    <3>1. text \in Seq(Q) /\ all = <<Comma>> \o text
      BY <2>1
    <3> HIDE DEF text, all
    <3>2. /\ all \in Seq(Q) /\ Len(all) = 1 + Len(text) /\ Len(text) \in Nat
          /\ \A k \in 1..Len(text) : all[k+1] = text[k]
      BY <1>1, <3>1, AfterPiece
    <3>3. QED BY <3>2 DEF text, all
  <2>3. QED BY <2>2
<1> HIDE DEF Q, seqs, x
<1>50. PICK flat : Flattens(flat, n, seqs, Q)
  BY <1>1, <1>2, FlattenSteps
<1>5. /\ \A k \in 1..n : flat[k] \in Seq(Q)
      /\ flat[1] = seqs[1]
      /\ \A k \in 2..n : flat[k] = flat[k-1] \o seqs[k]
      /\ FlattenSeq(seqs) = flat[n]
  BY <1>50 DEF Flattens
<1>6. \A k \in 1..n : seqs[k] \in Seq(Q)
  BY <1>2
<1> DEFINE Has(k) == \E p \in 2..Len(flat[k]) : flat[k][p] = x
           T == {k \in 0..(n-i) : Has(i+k)}
<1>7. Has(i)
  <2>1. CASE i = 1
    BY <1>4, <1>5, <2>1
  <2>2. CASE i # 1
    <3>1. i \in 2..n /\ i \in 1..n /\ i - 1 \in 1..n
      BY <1>1, <2>2
    <3>2. flat[i] = flat[i-1] \o seqs[i] /\ flat[i-1] \in Seq(Q)
      BY <1>5, <3>1
    <3> DEFINE before == flat[i-1]
               here == seqs[i]
    <3>3. before \in Seq(Q) /\ here \in Seq(Q) /\ flat[i] = before \o here
          /\ j + 1 \in 2..Len(here) /\ here[j+1] = x
      BY <1>4, <3>2
    <3> HIDE DEF before, here
    <3>4. Len(before) + (j + 1) \in 2..Len(flat[i]) /\ flat[i][Len(before) + (j + 1)] = x
      BY <3>3
    <3>5. QED BY <3>4
  <2>3. QED BY <2>1, <2>2
<1>8. ASSUME NEW k \in 0..((n-i)-1), k \in T PROVE k + 1 \in T
  <2>1. /\ i + (k + 1) \in 2..n /\ i + (k + 1) \in 1..n /\ (i + (k + 1)) - 1 = i + k
        /\ i + k \in 1..n /\ k + 1 \in 0..(n-i)
    BY <1>1
  <2> DEFINE before == flat[i+k]
             here == seqs[i+(k+1)]
             now == flat[i+(k+1)]
  <2>2. now = before \o here /\ before \in Seq(Q) /\ here \in Seq(Q)
    BY <1>5, <1>6, <2>1
  <2>3. PICK p \in 2..Len(before) : before[p] = x
    BY <1>8
  <2> HIDE DEF before, here, now
  <2>4. p \in 2..Len(now) /\ now[p] = x
    BY <2>2, <2>3
  <2>5. Has(i + (k + 1))
    BY <2>4 DEF now
  <2> HIDE DEF Has
  <2>6. QED BY <2>1, <2>5
<1>9. Has(n)
  <2>1. n - i \in Nat /\ n - i \in 0..(n-i) /\ i + (n - i) = n /\ 0 \in 0..(n-i) /\ i + 0 = i
    BY <1>1
  <2>2. 0 \in T
    <3> HIDE DEF Has
    <3>1. QED BY <1>7, <2>1
  <2> HIDE DEF T
  <2>3. n - i \in T
    BY <1>8, <2>1, <2>2, UpTo
  <2>4. QED BY <2>1, <2>3 DEF T
<1>10. PICK p \in 2..Len(flat[n]) : flat[n][p] = x
  BY <1>9
<1> DEFINE all == flat[n]
           rest == Tail(all)
<1>11. all \in Seq(Q) /\ p \in 2..Len(all) /\ all[p] = x
  BY <1>1, <1>5, <1>10
<1>12. Listed(options) = rest
  BY <1>3, <1>5
<1> HIDE DEF all
<1>13. rest \in Seq(Q) /\ p - 1 \in 1..Len(rest) /\ rest[p-1] = x
  BY <1>11
<1> HIDE DEF rest
<1>14. p - 1 \in 1..Len(rest \o path) /\ (rest \o path)[p-1] = x
  BY <1>1, <1>13
<1>15. QED BY <1>12, <1>13, <1>14 DEF Contains, x

(* Everything of the medium is left out, and nothing else of the storage.  *)
LEMMA RestOfMedium ==
  ASSUME NEW name, NEW value, name = "-boot" \/ Contains(value, "cd")
  PROVE  ButMedium(Flag(name, value)) = <<>>
<1> DEFINE arg == [flag |-> name, value |-> value]
           args == Flag(name, value)
<1>1. OfMedium(arg)
  BY DEF OfMedium
<1> HIDE DEF arg
<1>2. args = <<arg>>
  BY DEF Flag, arg
<1>3. Len(args) = 1 /\ args[1] = arg /\ 1 \in 1..1 /\ 1 - 1 = 0
  BY <1>2
<1>4. Sequence(args)
  BY FlagArgs
<1> HIDE DEF args
<1>5. PICK h : /\ h[0] = <<>>
               /\ \A k \in 1..Len(args) :
                    h[k] = IF OfMedium(args[k]) THEN h[k-1] ELSE Append(h[k-1], args[k])
               /\ ButMedium(args) = h[Len(args)]
  BY <1>4, RestSteps
<1>6. h[1] = h[0]
  BY <1>1, <1>3, <1>5
<1>7. QED BY <1>3, <1>5, <1>6 DEF args

LEMMA CdValueHolds ==
  ASSUME NEW iso, Sequence(iso)
  PROVE  Contains(CdValue(iso), "cd")
<1> DEFINE backend == Backend("cd", "raw")
           media == << <<"media=", "cdrom">> >>
           two == backend \o media
           three == two \o ReadOnly
           all == three \o File
           path == Doubled(iso)
           id == <<"id=", "cd">>
<1>1. /\ OptionList(backend) /\ OptionList(media)
  BY BackendOptions, MediaOption DEF Comma
<1>2. Sequence(backend) /\ Len(backend) = 3 /\ backend[1] = id
  BY <1>1 DEF OptionList, Backend
<1>3. Len(id) = 2 /\ id[2] = "cd"
  OBVIOUS
<1> HIDE DEF backend, media, id
<1>4. OptionList(two)
  BY <1>1, ListOfBoth
<1>5. \A one, more : /\ Sequence(one) /\ Sequence(more) /\ Len(one) \in Nat /\ Len(one) > 0
                     => /\ Len(one \o more) \in Nat /\ Len(one \o more) > 0
                        /\ (one \o more)[1] = one[1]
  <2> SUFFICES ASSUME NEW one, NEW more, Sequence(one), Sequence(more), Len(one) \in Nat, Len(one) > 0
               PROVE  /\ Len(one \o more) \in Nat /\ Len(one \o more) > 0
                      /\ (one \o more)[1] = one[1]
    OBVIOUS
  <2>1. PICK S, Q : one \in Seq(S) /\ more \in Seq(Q)
    BY DEF Sequence
  <2> DEFINE R == S \union Q
  <2>2. one \in Seq(R) /\ more \in Seq(R)
    BY <2>1
  <2> HIDE DEF R
  <2>3. QED BY <2>2
<1>6. Len(two) \in Nat /\ Len(two) > 0 /\ two[1] = id
  BY <1>1, <1>2, <1>5 DEF OptionList
<1> HIDE DEF two
<1>7. OptionList(three) /\ Len(three) \in Nat /\ Len(three) > 0 /\ three[1] = id
  <2>1. OptionList(ReadOnly)
    BY ReadOnlyOption
  <2>2. OptionList(three)
    BY <1>4, <2>1, ListOfBoth
  <2>3. Sequence(two) /\ Sequence(ReadOnly)
    BY <1>4, <2>1 DEF OptionList
  <2>4. QED BY <1>5, <1>6, <2>2, <2>3
<1> HIDE DEF three
<1>8. OptionList(all) /\ Len(all) \in Nat /\ Len(all) > 0 /\ all[1] = id
  <2>1. OptionList(File)
    BY FileOption
  <2>2. OptionList(all)
    BY <1>7, <2>1, ListOfBoth
  <2>3. Sequence(three) /\ Sequence(File)
    BY <1>7, <2>1 DEF OptionList
  <2>4. QED BY <1>5, <1>7, <2>2, <2>3
<1> HIDE DEF all
<1>9. Sequence(path)
  <2>1. PICK P : all \in Seq(Seq(P)) /\ iso \in Seq(P)
    BY <1>8, PiecesOfOptions
  <2>2. 1 \in 1..Len(all)
    BY <1>8
  <2>3. all[1] \in Seq(P)
    BY <2>1, <2>2
  <2>4. QED BY <2>1, <2>3, ReadsDoubled, EmptySeq
<1>10. PICK P : all \in Seq(Seq(P)) /\ path \in Seq(P)
  BY <1>8, <1>9, PiecesOfOptions
<1> HIDE DEF path
<1>11. 1 \in 1..Len(all) /\ 2 \in 1..Len(all[1]) /\ all[1][2] = "cd"
  BY <1>3, <1>8
<1>12. Contains(Listed(all) \o path, "cd")
  <2>1. Contains(Listed(all) \o path, all[1][2])
    BY <1>10, <1>11, ListedHolds
  <2>2. QED BY <1>11, <2>1
<1>13. QED BY <1>12 DEF CdValue, Escaped, all, three, two, backend, media, path

LEMMA RestOfCdrom ==
  ASSUME NEW iso, Sequence(iso)
  PROVE  Sequence(Cdrom(iso)) /\ ButMedium(Cdrom(iso)) = <<>>
<1> DEFINE rom == Listed(<< <<"ide-cd">>, <<"drive=", "cd">>, <<"bus=", "sata", ".1">> >>)
           dc == <<"order=", "dc">>
           cd == CdValue(iso)
           a == Flag("-drive", cd)
           b == Flag("-device", rom)
           c == Flag("-boot", dc)
<1>1. Cdrom(iso) = (a \o b) \o c
  BY DEF Cdrom, CdValue
<1>2. Contains(cd, "cd")
  BY CdValueHolds
<1>3. Contains(rom, "cd")
  <2> DEFINE P == {"ide-cd", "drive=", "cd", "bus=", "sata", ".1"}
             options == << <<"ide-cd">>, <<"drive=", "cd">>, <<"bus=", "sata", ".1">> >>
             two == <<"drive=", "cd">>
  <2>1. <<"ide-cd">> \in Seq(P) /\ two \in Seq(P) /\ <<"bus=", "sata", ".1">> \in Seq(P)
    OBVIOUS
  <2>2. Len(two) = 2 /\ two[2] = "cd"
    OBVIOUS
  <2> HIDE DEF P, two
  <2>3. options \in Seq(Seq(P)) /\ Len(options) = 3 /\ options[2] = two
    BY <2>1 DEF two
  <2> HIDE DEF options
  <2>4. 2 \in 1..Len(options) /\ 2 \in 1..Len(options[2]) /\ options[2][2] = "cd"
    <3>1. Len(options[2]) = 2 /\ options[2][2] = "cd"
      BY <2>2, <2>3, Zenon
    <3>2. 2 \in 1..Len(options) /\ 2 \in 1..Len(options[2])
      BY <2>3, <3>1
    <3>3. QED BY <3>1, <3>2, Zenon
  <2>5. Contains(Listed(options), options[2][2])
    <3>1. <<>> \in Seq(P)
      BY EmptySeq
    <3>2. QED BY <2>3, <2>4, <3>1, ListedHolds
  <2>6. QED BY <2>4, <2>5 DEF options, two
<1> HIDE DEF cd, rom, dc
<1>4. /\ Sequence(a) /\ Sequence(b) /\ Sequence(c)
      /\ ButMedium(a) = <<>> /\ ButMedium(b) = <<>> /\ ButMedium(c) = <<>>
  BY <1>2, <1>3, FlagArgs, RestOfMedium
<1> HIDE DEF a, b, c
<1>5. <<>> \o <<>> = <<>>
  OBVIOUS
<1>6. Sequence(a \o b) /\ ButMedium(a \o b) = <<>>
  BY <1>4, <1>5, SequenceBoth, RestOfBoth
<1> DEFINE ab == a \o b
<1> HIDE DEF ab
<1>7. Sequence(ab \o c) /\ ButMedium(ab \o c) = <<>>
  <2>1. Sequence(ab) /\ ButMedium(ab) = <<>>
    BY <1>6 DEF ab
  <2>2. ButMedium(ab \o c) = ButMedium(ab) \o ButMedium(c)
    BY <1>4, <2>1, RestOfBoth
  <2>3. QED BY <1>4, <1>5, <2>1, <2>2, SequenceBoth
<1>8. QED BY <1>1, <1>7 DEF ab

LEMMA RestOfStorage ==
  ASSUME NEW config, Sequence(config.iso), NEW paths
  PROVE  /\ Sequence(Storage(config, paths))
         /\ ButMedium(Storage(config, paths)) = ButMedium(Ahci \o HardDisk(paths, ".0"))
<1> DEFINE boot == Flag("-boot", <<"order=", "c">>)
           last == IF config.iso = NoIso THEN boot ELSE Cdrom(config.iso)
           ahci == Ahci
           disk == HardDisk(paths, ".0")
<1>1. Storage(config, paths) = (ahci \o disk) \o last
  BY DEF Storage
<1>2. Sequence(ahci) /\ Sequence(disk)
  BY FlagArgs, TwoFlags DEF Ahci, HardDisk
<1>3. Sequence(boot) /\ ButMedium(boot) = <<>>
  BY FlagArgs, RestOfMedium
<1> HIDE DEF boot
<1>4. Sequence(last) /\ ButMedium(last) = <<>>
  BY <1>3, RestOfCdrom
<1> HIDE DEF last, ahci, disk
<1> DEFINE kept == ahci \o disk
<1>5. Sequence(kept)
  BY <1>2, SequenceBoth
<1> HIDE DEF kept
<1>6. Sequence(kept \o last) /\ ButMedium(kept \o last) = ButMedium(kept) \o ButMedium(last)
  BY <1>4, <1>5, SequenceBoth, RestOfBoth
<1>7. ButMedium(kept) \o <<>> = ButMedium(kept)
  <2>1. PICK P : kept \in Seq(P)
    BY <1>5 DEF Sequence
  <2>2. QED BY <2>1, RestType, ConcatEmptySeq
<1>8. QED BY <1>1, <1>4, <1>6, <1>7 DEF kept, ahci, disk

(* Two configurations that differ in their medium at most.                 *)
LEMMA RestOfBuild ==
  ASSUME NEW host, NEW paths, HasFirmware(host.files),
         NEW config, Sequence(config.iso), NEW other, Sequence(other.iso),
         other.name = config.name, other.cpus = config.cpus,
         other.memory_mib = config.memory_mib, other.tpm = config.tpm, config.tpm \in BOOLEAN
  PROVE  ButMedium(Build(config, host, paths)) = ButMedium(Build(other, host, paths))
<1> DEFINE pair == Best(host.files)
           a == Flag("-name", config.name)
           b == Machine(pair)
           c == Processor(config, host)
           d == Flag("-m", <<config.memory_mib>>)
           e == FirmwareFlash(pair, paths)
           f1 == Storage(config, paths)
           f2 == Storage(other, paths)
           g == IF config.tpm THEN Tpm(paths) ELSE <<>>
           h == Peripherals
           before == a \o b \o c \o d \o e
<1>1. /\ Build(config, host, paths) = ((before \o f1) \o g) \o h
      /\ Build(other, host, paths) = ((before \o f2) \o g) \o h
  BY DEF Build, Processor
<1>2. pair.secure_boot \in BOOLEAN
  BY BestIsListed, PairsListed
<1>3. Sequence(a) /\ Sequence(b) /\ Sequence(c) /\ Sequence(d) /\ Sequence(e)
  BY <1>2, FlagArgs, GivesMachine, GivesProcessor, GivesFirmware DEF Gives
<1>4. Sequence(g) /\ Sequence(h)
  BY NoArgs, GivesTpm, GivesPeripherals DEF Gives
<1>5. Sequence(f1) /\ Sequence(f2) /\ ButMedium(f1) = ButMedium(f2)
  BY RestOfStorage
<1> HIDE DEF a, b, c, d, e, f1, f2, g, h
<1>6. Sequence(before)
  BY <1>3, SequenceBoth
<1> HIDE DEF before
<1>7. /\ Sequence(before \o f1) /\ Sequence(before \o f2)
      /\ ButMedium(before \o f1) = ButMedium(before \o f2)
  <2>1. Sequence(before \o f1) /\ Sequence(before \o f2)
    BY <1>5, <1>6, SequenceBoth
  <2>2. /\ ButMedium(before \o f1) = ButMedium(before) \o ButMedium(f1)
        /\ ButMedium(before \o f2) = ButMedium(before) \o ButMedium(f2)
    BY <1>5, <1>6, RestOfBoth
  <2>3. QED BY <1>5, <2>1, <2>2
<1> DEFINE g1 == before \o f1
           g2 == before \o f2
<1>8. Sequence(g1) /\ Sequence(g2) /\ ButMedium(g1) = ButMedium(g2)
  BY <1>7
<1> HIDE DEF g1, g2
<1> DEFINE h1 == g1 \o g
           h2 == g2 \o g
<1>9. Sequence(h1) /\ Sequence(h2) /\ ButMedium(h1) = ButMedium(h2)
  <2>1. Sequence(h1) /\ Sequence(h2)
    BY <1>4, <1>8, SequenceBoth
  <2>2. /\ ButMedium(h1) = ButMedium(g1) \o ButMedium(g)
        /\ ButMedium(h2) = ButMedium(g2) \o ButMedium(g)
    BY <1>4, <1>8, RestOfBoth
  <2>3. QED BY <1>8, <2>1, <2>2
<1> HIDE DEF h1, h2
<1>10. /\ ButMedium(h1 \o h) = ButMedium(h1) \o ButMedium(h)
       /\ ButMedium(h2 \o h) = ButMedium(h2) \o ButMedium(h)
  BY <1>4, <1>9, RestOfBoth
<1>11. QED BY <1>1, <1>9, <1>10 DEF h1, h2, g1, g2

(* Whatever medium is put in or taken out, the rest of the command line is *)
(* the same, argument for argument.                                        *)
THEOREM MediumIsAllThatChanges == Spec => []MediumOnlyAdds
<1>1. InputOK => MediumOnlyAdds
  <2> SUFFICES ASSUME InputOK, HasArgv, NEW iso \in Isos
               PROVE  ButMedium(Argv)
                        = ButMedium(Build([input.config EXCEPT !.iso = iso], input.host, Paths))
    BY DEF MediumOnlyAdds
  <2> DEFINE config == input.config
             other == [config EXCEPT !.iso = iso]
  <2>1. /\ HasFirmware(input.host.files) /\ Sequence(config.iso) /\ Sequence(iso)
        /\ config.tpm \in BOOLEAN
    BY InputVm
  <2>2. config \in [name : Names, cpus : {"cpus"}, memory_mib : {"memory"},
                    iso : Isos \union {NoIso}, tpm : BOOLEAN]
    <3>1. input \in Vms
      BY InputKinds DEF HasArgv
    <3>2. QED BY <3>1 DEF Vms
  <2>3. /\ other.iso = iso /\ other.name = config.name /\ other.cpus = config.cpus
        /\ other.memory_mib = config.memory_mib /\ other.tpm = config.tpm
    BY <2>2
  <2>4. Argv = Build(config, input.host, Paths)
    BY DEF Argv
  <2> HIDE DEF config, other
  <2>5. ButMedium(Build(config, input.host, Paths)) = ButMedium(Build(other, input.host, Paths))
    BY <2>1, <2>3, RestOfBuild
  <2>6. QED BY <2>4, <2>5 DEF config, other
<1>2. QED BY <1>1, TextsTyped, PTL

-----------------------------------------------------------------------------
(* What QEMU finds in the values no path is in: texts without a comma, and *)
(* lists of options a property looks into.                                 *)
LEMMA PlainTextReads ==
  ASSUME NEW text, Sequence(text), \A i \in 1..Len(text) : text[i] # Comma
  PROVE  QemuReads(text) = {text}
BY TextReads DEF QemuReads

LEMMA ValuedAlone ==
  ASSUME NEW name
  PROVE  \A key : Valued({<<name>>}, key) = One(name, <<>>, key)
<1> DEFINE option == <<name>>
           rest == <<>>
<1>1. option \in Seq({name}) /\ Len(option) = 1 /\ option[1] = name
  OBVIOUS
<1> HIDE DEF option
<1>2. option # <<>>
  <2>1. Len(option) # 0
    BY <1>1
  <2>2. Len(<<>>) = 0
    OBVIOUS
  <2>3. QED BY <2>1, <2>2, Zenon
<1>3. Tail(option) \in Seq({name}) /\ Len(Tail(option)) = 0
  BY <1>1, <1>2
<1>4. Tail(option) = rest
  BY <1>3, EmptySeq
<1>5. \A key : Valued({option}, key) = One(option[1], rest, key)
  BY <1>2, <1>4, ValuedOne
<1>6. QED BY <1>1, <1>5 DEF option

LEMMA ValuedPort ==
  ASSUME NEW name, NEW bus, NEW port
  PROVE  \A key : Valued({<<name, bus, port>>}, key) = One(name, <<bus, port>>, key)
<1> DEFINE P == {name, bus, port}
           option == <<name, bus, port>>
           rest == <<bus, port>>
<1>1. option \in Seq(P) /\ Len(option) = 3 /\ option[1] = name /\ option[2] = bus /\ option[3] = port
  OBVIOUS
<1>2. rest \in Seq(P) /\ Len(rest) = 2 /\ rest[1] = bus /\ rest[2] = port
  OBVIOUS
<1> HIDE DEF P, option, rest
<1>3. option # <<>>
  <2>1. Len(option) # 0
    BY <1>1
  <2>2. Len(<<>>) = 0
    OBVIOUS
  <2>3. QED BY <2>1, <2>2, Zenon
<1>4. /\ Tail(option) \in Seq(P) /\ Len(Tail(option)) = 2
      /\ \A i \in 1..2 : Tail(option)[i] = option[i+1]
  <2>1. /\ Tail(option) \in Seq(P) /\ Len(Tail(option)) = Len(option) - 1
        /\ \A i \in 1..Len(Tail(option)) : Tail(option)[i] = option[i+1]
    BY <1>1, <1>3, HeadTailProperties
  <2>2. QED BY <1>1, <2>1
<1>5. \A i \in 1..Len(Tail(option)) : Tail(option)[i] = rest[i]
  <2>1. 1..2 = {1, 2}
    OBVIOUS
  <2>2. option[1+1] = rest[1] /\ option[2+1] = rest[2]
    BY <1>1, <1>2
  <2>3. QED BY <1>4, <2>1, <2>2
<1>6. Tail(option) = rest
  BY <1>2, <1>4, <1>5, SeqEqual
<1>7. \A key : Valued({option}, key) = One(option[1], rest, key)
  BY <1>3, <1>6, ValuedOne
<1>8. QED BY <1>1, <1>7 DEF option, rest

LEMMA KeyPort ==
  ASSUME NEW key, key # Comma, NEW bus, bus # Comma, NEW port, port # Comma
  PROVE  Sequence(<<key, bus, port>>) /\ Plain(<<key, bus, port>>)
<1> DEFINE option == <<key, bus, port>>
<1>1. /\ option \in Seq({key, bus, port}) /\ Len(option) = 3
      /\ option[1] = key /\ option[2] = bus /\ option[3] = port
  OBVIOUS
<1> HIDE DEF option
<1>2. option # <<>>
  <2>1. Len(option) # 0
    BY <1>1
  <2>2. Len(<<>>) = 0
    OBVIOUS
  <2>3. QED BY <2>1, <2>2, Zenon
<1>3. Sequence(option)
  BY <1>1 DEF Sequence
<1>4. 1..3 = {1, 2, 3}
  OBVIOUS
<1>5. Plain(option)
  BY <1>1, <1>2, <1>4 DEF Plain
<1>6. QED BY <1>3, <1>5 DEF option

LEMMA ReadOne ==
  ASSUME NEW piece, piece # Comma
  PROVE  \A key : Valued(QemuReads(<<piece>>), key) = One(piece, <<>>, key)
<1> DEFINE text == <<piece>>
<1>1. Sequence(text) /\ Plain(text)
  BY KeyAlone
<1>2. QemuReads(text) = {text}
  BY <1>1, PlainTextReads DEF Plain
<1>3. QED BY <1>2, ValuedAlone

LEMMA ReadTwo ==
  ASSUME NEW kind, kind # Comma, NEW two, Sequence(two), Plain(two)
  PROVE  \A key : Valued(QemuReads(Listed(<< <<kind>>, two >>)), key)
                    = One(kind, <<>>, key) \union Valued({two}, key)
<1> DEFINE one == <<kind>>
           list == <<one, two>>
<1>1. Sequence(one) /\ Plain(one) /\ \A key : Valued({one}, key) = One(kind, <<>>, key)
  BY KeyAlone, ValuedAlone
<1> HIDE DEF one
<1>2. OptionList(list) /\ OptionsIn(list) = {one, two}
  BY <1>1, ListOfTwo
<1> HIDE DEF list
<1>3. QemuReads(Listed(list)) = {one} \union {two}
  BY <1>2, ListedReadsBack
<1>4. \A key : Valued({one} \union {two}, key) = Valued({one}, key) \union Valued({two}, key)
  BY ValuedBoth
<1>5. QED BY <1>1, <1>3, <1>4 DEF list, one

LEMMA ReadThree ==
  ASSUME NEW kind, kind # Comma, NEW two, Sequence(two), Plain(two), NEW three, Sequence(three), Plain(three)
  PROVE  \A key : Valued(QemuReads(Listed(<< <<kind>>, two, three >>)), key)
                    = One(kind, <<>>, key) \union (Valued({two}, key) \union Valued({three}, key))
<1> DEFINE one == <<kind>>
           list == <<one, two, three>>
<1>1. Sequence(one) /\ Plain(one) /\ \A key : Valued({one}, key) = One(kind, <<>>, key)
  BY KeyAlone, ValuedAlone
<1> HIDE DEF one
<1>2. OptionList(list) /\ OptionsIn(list) = {one, two, three}
  BY <1>1, ListOfThree
<1> HIDE DEF list
<1>3. QemuReads(Listed(list)) = {one} \union ({two} \union {three})
  BY <1>2, ListedReadsBack
<1>4. \A key : /\ Valued({one} \union ({two} \union {three}), key)
                    = Valued({one}, key) \union Valued({two} \union {three}, key)
               /\ Valued({two} \union {three}, key) = Valued({two}, key) \union Valued({three}, key)
  BY ValuedBoth
<1>5. QED BY <1>1, <1>3, <1>4 DEF list, one

-----------------------------------------------------------------------------
(* What a part of the command line is to the wiring: the devices, network, *)
(* TPM and boot options it pushes, and the ports its devices are on, no    *)
(* two of them on one.                                                     *)
Bus(value) == Valued(QemuReads(value), "bus=")

Ported(args, ports) ==
  /\ \A i \in 1..Len(args) : Bus(args[i].value) = {} \/ Bus(args[i].value) \in ports
  /\ \A i, j \in 1..Len(args) :
       Bus(args[i].value) # {} /\ Bus(args[i].value) = Bus(args[j].value) => i = j

LEMMA PortedBoth ==
  ASSUME NEW one, Sequence(one), NEW p1, Ported(one, p1),
         NEW two, Sequence(two), NEW p2, Ported(two, p2), \A p \in p1 : p \notin p2
  PROVE  Ported(one \o two, p1 \union p2)
<1> DEFINE all == one \o two
           n == Len(one)
           B(i) == Bus(all[i].value)
<1>0. PICK S1, S2 : one \in Seq(S1) /\ two \in Seq(S2)
  BY DEF Sequence
<1> DEFINE S == S1 \union S2
<1>1. one \in Seq(S) /\ two \in Seq(S)
  BY <1>0
<1> HIDE DEF S
<1>2. /\ n \in Nat /\ Len(two) \in Nat /\ Len(all) = n + Len(two)
      /\ \A i \in 1..n : all[i] = one[i]
      /\ \A i \in 1..Len(all) : i > n => i - n \in 1..Len(two) /\ all[i] = two[i-n]
  BY <1>1
<1> HIDE DEF all, n
<1>3. ASSUME NEW i \in 1..Len(all)
      PROVE  \/ i \in 1..n /\ all[i] = one[i]
             \/ i > n /\ i - n \in 1..Len(two) /\ all[i] = two[i-n]
  BY <1>2
<1>4. ASSUME NEW i \in 1..Len(all)
      PROVE  /\ i \in 1..n => B(i) = {} \/ B(i) \in p1
             /\ i > n => B(i) = {} \/ B(i) \in p2
             /\ i \in 1..n \/ i > n
  <2>1. i \in 1..n => all[i] = one[i]
    BY <1>2
  <2>2. i > n => i - n \in 1..Len(two) /\ all[i] = two[i-n]
    BY <1>2
  <2>3. i \in 1..n \/ i > n
    BY <1>3
  <2>4. \A k \in 1..n : Bus(one[k].value) = {} \/ Bus(one[k].value) \in p1
    BY DEF Ported, n
  <2>5. \A k \in 1..Len(two) : Bus(two[k].value) = {} \/ Bus(two[k].value) \in p2
    BY DEF Ported
  <2>6. QED BY <2>1, <2>2, <2>3, <2>4, <2>5
<1>5. ASSUME NEW i \in 1..Len(all), NEW j \in 1..Len(all), B(i) # {}, B(i) = B(j)
      PROVE  i = j
  <2>1. CASE i \in 1..n /\ j \in 1..n
    <3>1. all[i] = one[i] /\ all[j] = one[j]
      BY <1>2, <2>1
    <3>2. QED BY <1>5, <2>1, <3>1 DEF Ported, n
  <2>2. CASE i > n /\ j > n
    <3>1. i - n \in 1..Len(two) /\ all[i] = two[i-n] /\ j - n \in 1..Len(two) /\ all[j] = two[j-n]
      BY <1>2, <2>2
    <3>2. i - n = j - n
      BY <1>5, <3>1 DEF Ported
    <3>3. QED BY <1>2, <3>2
  <2>3. CASE i \in 1..n /\ j > n
    BY <1>4, <1>5, <2>3
  <2>4. CASE i > n /\ j \in 1..n
    BY <1>4, <1>5, <2>4
  <2>5. QED BY <1>4, <2>1, <2>2, <2>3, <2>4
<1>6. \A i \in 1..Len(all) : B(i) = {} \/ B(i) \in p1 \union p2
  BY <1>4
<1>7. Ported(all, p1 \union p2)
  BY <1>5, <1>6 DEF Ported
<1>8. QED BY <1>7 DEF all

LEMMA PortedFlag ==
  ASSUME NEW name, NEW value, NEW ports, Bus(value) = {} \/ Bus(value) \in ports
  PROVE  Ported(Flag(name, value), ports)
<1> DEFINE args == Flag(name, value)
<1>1. Len(args) = 1 /\ args[1].value = value
  BY DEF Flag
<1> HIDE DEF args
<1>2. 1..1 = {1}
  OBVIOUS
<1>3. Ported(args, ports)
  BY <1>1, <1>2 DEF Ported
<1>4. QED BY <1>3 DEF args

Wires(args, devices, netdevs, tpmdevs, boots, ports) ==
  /\ Sequence(args)
  /\ Values(args, "-device") = devices
  /\ Values(args, "-netdev") = netdevs
  /\ Values(args, "-tpmdev") = tpmdevs
  /\ Values(args, "-boot") = boots
  /\ Ported(args, ports)

Unwired(args) == Wires(args, {}, {}, {}, {}, {})

LEMMA WiresBoth ==
  ASSUME NEW one, NEW d1, NEW n1, NEW t1, NEW b1, NEW p1, Wires(one, d1, n1, t1, b1, p1),
         NEW two, NEW d2, NEW n2, NEW t2, NEW b2, NEW p2, Wires(two, d2, n2, t2, b2, p2),
         \A p \in p1 : p \notin p2
  PROVE  Wires(one \o two, d1 \union d2, n1 \union n2, t1 \union t2, b1 \union b2, p1 \union p2)
<1>1. Sequence(one) /\ Sequence(two) /\ Ported(one, p1) /\ Ported(two, p2)
  BY DEF Wires
<1>2. /\ Sequence(one \o two)
      /\ \A flag : Values(one \o two, flag) = Values(one, flag) \union Values(two, flag)
  BY <1>1, BothArgs
<1>3. Ported(one \o two, p1 \union p2)
  BY <1>1, PortedBoth
<1>4. QED BY <1>2, <1>3 DEF Wires

(* Before and after what wires nothing.                                    *)
LEMMA WiresAfter ==
  ASSUME NEW one, Unwired(one), NEW two, NEW d, NEW n, NEW t, NEW b, NEW p, Wires(two, d, n, t, b, p)
  PROVE  Wires(one \o two, d, n, t, b, p)
<1>1. Wires(one \o two, {} \union d, {} \union n, {} \union t, {} \union b, {} \union p)
  BY WiresBoth DEF Unwired
<1>2. \A S : {} \union S = S
  OBVIOUS
<1>3. QED BY <1>1, <1>2

LEMMA WiresBefore ==
  ASSUME NEW one, NEW d, NEW n, NEW t, NEW b, NEW p, Wires(one, d, n, t, b, p), NEW two, Unwired(two)
  PROVE  Wires(one \o two, d, n, t, b, p)
<1>1. \A q \in p : q \notin {}
  OBVIOUS
<1>2. Wires(one \o two, d \union {}, n \union {}, t \union {}, b \union {}, p \union {})
  BY <1>1, WiresBoth DEF Unwired
<1>3. \A S : S \union {} = S
  OBVIOUS
<1>4. QED BY <1>2, <1>3

LEMMA UnwiredBoth ==
  ASSUME NEW one, Unwired(one), NEW two, Unwired(two)
  PROVE  Unwired(one \o two)
BY WiresAfter DEF Unwired

WiredFlags == {"-device", "-netdev", "-tpmdev", "-boot"}

LEMMA UnwiredFlag ==
  ASSUME NEW name, name \notin WiredFlags, NEW value, Bus(value) = {}
  PROVE  Unwired(Flag(name, value))
<1>1. Sequence(Flag(name, value)) /\ \A flag : Values(Flag(name, value), flag) = One(name, value, flag)
  BY FlagArgs
<1>2. Ported(Flag(name, value), {})
  BY PortedFlag
<1>3. QED BY <1>1, <1>2 DEF Unwired, Wires, One, WiredFlags

LEMMA WiresDevice ==
  ASSUME NEW value, NEW ports, Bus(value) = ports
  PROVE  Wires(Flag("-device", value), {value}, {}, {}, {}, IF ports = {} THEN {} ELSE {ports})
<1> DEFINE all == IF ports = {} THEN {} ELSE {ports}
<1>1. /\ Sequence(Flag("-device", value))
      /\ \A flag : Values(Flag("-device", value), flag) = One("-device", value, flag)
  BY FlagArgs
<1>2. Bus(value) = {} \/ Bus(value) \in all
  OBVIOUS
<1> HIDE DEF all
<1>3. Ported(Flag("-device", value), all)
  BY <1>2, PortedFlag
<1>4. Wires(Flag("-device", value), {value}, {}, {}, {}, all)
  BY <1>1, <1>3 DEF Wires, One
<1>5. QED BY <1>4 DEF all

LEMMA WiresBackend ==
  ASSUME NEW value, Bus(value) = {}
  PROVE  /\ Wires(Flag("-netdev", value), {}, {value}, {}, {}, {})
         /\ Wires(Flag("-tpmdev", value), {}, {}, {value}, {}, {})
         /\ Wires(Flag("-boot", value), {}, {}, {}, {value}, {})
<1>1. \A name : /\ Sequence(Flag(name, value))
                /\ \A flag : Values(Flag(name, value), flag) = One(name, value, flag)
  BY FlagArgs
<1>2. \A name : Ported(Flag(name, value), {})
  BY PortedFlag
<1>3. QED BY <1>1, <1>2 DEF Wires, One

-----------------------------------------------------------------------------
(* The devices, and what each of them refers to or is referred to by.      *)
AhciValue   == Listed(<< <<"ich9-ahci">>, <<"id=", "sata">> >>)
HdValue     == Listed(<< <<"ide-hd">>, <<"drive=", "hd">>, <<"bus=", "sata", ".0">> >>)
RomValue    == Listed(<< <<"ide-cd">>, <<"drive=", "cd">>, <<"bus=", "sata", ".1">> >>)
TisValue    == Listed(<< <<"tpm-tis">>, <<"tpmdev=", "tpm0">> >>)
NicValue    == Listed(<< <<"e1000e">>, <<"netdev=", "net0">> >>)
XhciValue   == Listed(<< <<"qemu-xhci">>, <<"id=", "usb">> >>)
TabletValue == Listed(<< <<"usb-tablet">>, <<"bus=", "usb", ".0">> >>)
NetValue    == Listed(<< <<"user">>, <<"id=", "net0">> >>)
TpmdevValue == Listed(<< <<"emulator">>, <<"id=", "tpm0">>, <<"chardev=", "chrtpm">> >>)

HdPort  == {<<"sata", ".0">>}
CdPort  == {<<"sata", ".1">>}
UsbPort == {<<"usb", ".0">>}

DeviceIs(value, drive, netdev, tpmdev, bus, id) ==
  LET read == QemuReads(value)
  IN /\ Valued(read, "drive=") = drive
     /\ Valued(read, "netdev=") = netdev
     /\ Valued(read, "tpmdev=") = tpmdev
     /\ Valued(read, "bus=") = bus
     /\ Valued(read, "id=") = id

LEMMA ReadPair ==
  ASSUME NEW kind, kind # Comma, NEW name, name # Comma, NEW value, value # Comma
  PROVE  \A key : Valued(QemuReads(Listed(<< <<kind>>, <<name, value>> >>)), key)
                    = One(kind, <<>>, key) \union One(name, <<value>>, key)
<1> DEFINE two == <<name, value>>
<1>1. Sequence(two) /\ Plain(two) /\ \A key : Valued({two}, key) = One(name, <<value>>, key)
  BY KeyValue, ValuedPair
<1> HIDE DEF two
<1>2. \A key : Valued(QemuReads(Listed(<< <<kind>>, two >>)), key)
                 = One(kind, <<>>, key) \union Valued({two}, key)
  BY <1>1, ReadTwo
<1>3. QED BY <1>1, <1>2 DEF two

LEMMA ReadPort ==
  ASSUME NEW kind, kind # Comma, NEW bus, bus # Comma, NEW port, port # Comma
  PROVE  \A key : Valued(QemuReads(Listed(<< <<kind>>, <<"bus=", bus, port>> >>)), key)
                    = One(kind, <<>>, key) \union One("bus=", <<bus, port>>, key)
<1> DEFINE two == <<"bus=", bus, port>>
<1>1. "bus=" # Comma
  BY DEF Comma
<1>2. Sequence(two) /\ Plain(two)
  BY <1>1, KeyPort
<1>3. \A key : Valued({two}, key) = One("bus=", <<bus, port>>, key)
  BY ValuedPort
<1> HIDE DEF two
<1>4. \A key : Valued(QemuReads(Listed(<< <<kind>>, two >>)), key)
                 = One(kind, <<>>, key) \union Valued({two}, key)
  BY <1>2, ReadTwo
<1>5. QED BY <1>3, <1>4 DEF two

LEMMA ReadOnPort ==
  ASSUME NEW kind, kind # Comma, NEW value, value # Comma, NEW bus, bus # Comma, NEW port, port # Comma
  PROVE  \A key : Valued(QemuReads(Listed(<< <<kind>>, <<"drive=", value>>, <<"bus=", bus, port>> >>)), key)
                    = One(kind, <<>>, key)
                        \union (One("drive=", <<value>>, key) \union One("bus=", <<bus, port>>, key))
<1> DEFINE two == <<"drive=", value>>
           three == <<"bus=", bus, port>>
<1>1. "bus=" # Comma /\ "drive=" # Comma
  BY DEF Comma
<1>2. Sequence(two) /\ Plain(two) /\ Sequence(three) /\ Plain(three)
  BY <1>1, KeyValue, KeyPort
<1>3. \A key : Valued({two}, key) = One("drive=", <<value>>, key)
  BY ValuedPair
<1>4. \A key : Valued({three}, key) = One("bus=", <<bus, port>>, key)
  BY ValuedPort
<1> HIDE DEF two, three
<1>5. \A key : Valued(QemuReads(Listed(<< <<kind>>, two, three >>)), key)
                 = One(kind, <<>>, key) \union (Valued({two}, key) \union Valued({three}, key))
  BY <1>2, ReadThree
<1>6. QED BY <1>3, <1>4, <1>5 DEF two, three

LEMMA ControllersAre ==
  /\ DeviceIs(AhciValue, {}, {}, {}, {}, {<<"sata">>})
  /\ DeviceIs(XhciValue, {}, {}, {}, {}, {<<"usb">>})
<1>0. /\ "ich9-ahci" # Comma /\ "qemu-xhci" # Comma /\ "id=" # Comma /\ "sata" # Comma
      /\ "usb" # Comma
  BY DEF Comma
<1>1. \A key : Valued(QemuReads(AhciValue), key) = One("ich9-ahci", <<>>, key) \union One("id=", <<"sata">>, key)
  BY <1>0, ReadPair DEF AhciValue
<1>2. \A key : Valued(QemuReads(XhciValue), key) = One("qemu-xhci", <<>>, key) \union One("id=", <<"usb">>, key)
  BY <1>0, ReadPair DEF XhciValue
<1>3. QED BY <1>1, <1>2 DEF DeviceIs, One

LEMMA BackedDevicesAre ==
  /\ DeviceIs(TisValue, {}, {}, {<<"tpm0">>}, {}, {})
  /\ DeviceIs(NicValue, {}, {<<"net0">>}, {}, {}, {})
<1>0. /\ "tpm-tis" # Comma /\ "tpmdev=" # Comma /\ "tpm0" # Comma /\ "e1000e" # Comma
      /\ "netdev=" # Comma /\ "net0" # Comma
  BY DEF Comma
<1>1. \A key : Valued(QemuReads(TisValue), key) = One("tpm-tis", <<>>, key) \union One("tpmdev=", <<"tpm0">>, key)
  BY <1>0, ReadPair DEF TisValue
<1>2. \A key : Valued(QemuReads(NicValue), key) = One("e1000e", <<>>, key) \union One("netdev=", <<"net0">>, key)
  BY <1>0, ReadPair DEF NicValue
<1>3. QED BY <1>1, <1>2 DEF DeviceIs, One

LEMMA PluggedDevicesAre ==
  /\ DeviceIs(HdValue, {<<"hd">>}, {}, {}, HdPort, {})
  /\ DeviceIs(RomValue, {<<"cd">>}, {}, {}, CdPort, {})
  /\ DeviceIs(TabletValue, {}, {}, {}, UsbPort, {})
<1>0. /\ "ide-hd" # Comma /\ "ide-cd" # Comma /\ "usb-tablet" # Comma /\ "drive=" # Comma
      /\ "hd" # Comma /\ "cd" # Comma /\ "sata" # Comma /\ ".0" # Comma
      /\ ".1" # Comma /\ "usb" # Comma
  BY DEF Comma
<1>1. \A key : Valued(QemuReads(HdValue), key)
        = One("ide-hd", <<>>, key) \union (One("drive=", <<"hd">>, key) \union One("bus=", <<"sata", ".0">>, key))
  BY <1>0, ReadOnPort DEF HdValue
<1>2. \A key : Valued(QemuReads(RomValue), key)
        = One("ide-cd", <<>>, key) \union (One("drive=", <<"cd">>, key) \union One("bus=", <<"sata", ".1">>, key))
  BY <1>0, ReadOnPort DEF RomValue
<1>3. \A key : Valued(QemuReads(TabletValue), key)
        = One("usb-tablet", <<>>, key) \union One("bus=", <<"usb", ".0">>, key)
  BY <1>0, ReadPort DEF TabletValue
<1>4. QED BY <1>1, <1>2, <1>3 DEF DeviceIs, One, HdPort, CdPort, UsbPort

(* The backends: what each is called, and that none of them is on a bus.   *)
LEMMA NetIs == Valued(QemuReads(NetValue), "id=") = {<<"net0">>} /\ Bus(NetValue) = {}
<1>0. "user" # Comma /\ "id=" # Comma /\ "net0" # Comma
  BY DEF Comma
<1>1. \A key : Valued(QemuReads(NetValue), key) = One("user", <<>>, key) \union One("id=", <<"net0">>, key)
  BY <1>0, ReadPair DEF NetValue
<1>2. QED BY <1>1 DEF One, Bus

LEMMA TpmdevIs ==
  /\ Valued(QemuReads(TpmdevValue), "id=") = {<<"tpm0">>}
  /\ Valued(QemuReads(TpmdevValue), "chardev=") = {<<"chrtpm">>}
  /\ Bus(TpmdevValue) = {}
<1> DEFINE two == <<"id=", "tpm0">>
           three == <<"chardev=", "chrtpm">>
<1>0. "emulator" # Comma /\ "id=" # Comma /\ "tpm0" # Comma /\ "chardev=" # Comma /\ "chrtpm" # Comma
  BY DEF Comma
<1>1. Sequence(two) /\ Plain(two) /\ Sequence(three) /\ Plain(three)
  BY <1>0, KeyValue
<1>2. \A key : Valued({two}, key) = One("id=", <<"tpm0">>, key)
  BY ValuedPair
<1>3. \A key : Valued({three}, key) = One("chardev=", <<"chrtpm">>, key)
  BY ValuedPair
<1>4. TpmdevValue = Listed(<< <<"emulator">>, two, three >>)
  BY DEF TpmdevValue
<1> HIDE DEF two, three
<1>5. \A key : Valued(QemuReads(Listed(<< <<"emulator">>, two, three >>)), key)
                 = One("emulator", <<>>, key) \union (Valued({two}, key) \union Valued({three}, key))
  BY <1>0, <1>1, ReadThree
<1>6. QED BY <1>2, <1>3, <1>4, <1>5 DEF One, Bus

LEMMA BootIs ==
  ASSUME NEW order, order # Comma
  PROVE  /\ Valued(QemuReads(<<"order=", order>>), "order=") = {<<order>>}
         /\ Bus(<<"order=", order>>) = {}
<1> DEFINE text == <<"order=", order>>
<1>1. "order=" # Comma
  BY DEF Comma
<1>2. Sequence(text) /\ Plain(text)
  BY <1>1, KeyValue
<1>3. QemuReads(text) = {text}
  BY <1>2, PlainTextReads DEF Plain
<1>4. \A key : Valued({text}, key) = One("order=", <<order>>, key)
  BY ValuedPair
<1> HIDE DEF text
<1>5. /\ Valued(QemuReads(text), "order=") = {<<order>>} /\ Bus(text) = {}
  BY <1>3, <1>4 DEF One, Bus
<1>6. QED BY <1>5 DEF text

LEMMA QuietPiece ==
  ASSUME NEW piece, piece # Comma, piece # "bus="
  PROVE  Bus(<<piece>>) = {}
<1>1. \A key : Valued(QemuReads(<<piece>>), key) = One(piece, <<>>, key)
  BY ReadOne
<1>2. QED BY <1>1 DEF One, Bus

LEMMA QuietText ==
  ASSUME NEW text, Sequence(text), \A i \in 1..Len(text) : text[i] # Comma,
         text # <<>>, text[1] # "bus="
  PROVE  Bus(text) = {}
<1>1. QemuReads(text) = {text}
  BY PlainTextReads
<1>2. Valued({text}, "bus=") = {}
  BY DEF Valued
<1>3. QED BY <1>1, <1>2 DEF Bus

LEMMA QuietMachine ==
  ASSUME NEW pair
  PROVE  Bus(MachineValue(pair)) = {}
<1> DEFINE smm == IF pair.secure_boot THEN "on" ELSE "off"
<1>0. "q35" # Comma /\ "smm=" # Comma /\ smm # Comma
  BY DEF Comma
<1>1. MachineValue(pair) = Listed(<< <<"q35">>, <<"smm=", smm>> >>)
  BY DEF MachineValue
<1> HIDE DEF smm
<1>2. \A key : Valued(QemuReads(MachineValue(pair)), key) = One("q35", <<>>, key) \union One("smm=", <<smm>>, key)
  BY <1>0, <1>1, ReadPair
<1>3. QED BY <1>2 DEF One, Bus

(* The guest's disk, the medium and the socket have a name each, the flash *)
(* units have none.                                                        *)
Named(drive, ids) == Valued(drive, "id=") = ids /\ Valued(drive, "bus=") = {}

LEMMA FlashIsUnnamed ==
  ASSUME NEW code, Sequence(code), NEW vars, Sequence(vars)
  PROVE  Named(CodeDrive(code), {}) /\ Named(VarsDrive(vars), {})
<1> DEFINE f == <<"file=">> \o code
           g == <<"file=">> \o vars
           a == <<"if=", "pflash">>
           b == <<"format=", "raw">>
           c == <<"unit=", "0">>
           d == <<"readonly=", "on">>
           e == <<"unit=", "1">>
<1>1. f[1] = "file=" /\ g[1] = "file="
  BY ValuedPath
<1>2. a[1] = "if=" /\ b[1] = "format=" /\ c[1] = "unit=" /\ d[1] = "readonly=" /\ e[1] = "unit="
  OBVIOUS
<1>3. CodeDrive(code) = {a, b, c, d, f} /\ VarsDrive(vars) = {a, b, e, g}
  BY DEF CodeDrive, VarsDrive
<1> HIDE DEF a, b, c, d, e, f, g
<1>4. \A o \in CodeDrive(code) \union VarsDrive(vars) : o[1] # "id=" /\ o[1] # "bus="
  BY <1>1, <1>2, <1>3
<1>5. QED BY <1>4 DEF Named, Valued

LEMMA DiskIsNamed ==
  ASSUME NEW disk, Sequence(disk)
  PROVE  Named(DiskDrive(disk), {<<"hd">>})
<1> DEFINE f == <<"file=">> \o disk
           a == <<"id=", "hd">>
           b == <<"if=", "none">>
           c == <<"format=", "qcow2">>
           drive == DiskDrive(disk)
           name == <<"hd">>
<1>1. f[1] = "file="
  BY ValuedPath
<1>2. b[1] = "if=" /\ c[1] = "format="
  OBVIOUS
<1>3. drive = {a} \union {b, c, f}
  BY DEF DiskDrive
<1>4. \A key : Valued({a}, key) = One("id=", name, key)
  BY ValuedPair
<1> HIDE DEF a, b, c, f, drive, name
<1>5. \A o \in {b, c, f} : o[1] # "id=" /\ o[1] # "bus="
  BY <1>1, <1>2
<1>6. Valued({b, c, f}, "id=") = {} /\ Valued({b, c, f}, "bus=") = {}
  BY <1>5 DEF Valued
<1>7. \A key : Valued(drive, key) = Valued({a}, key) \union Valued({b, c, f}, key)
  BY <1>3, ValuedBoth
<1>8. Named(drive, {name})
  BY <1>4, <1>6, <1>7 DEF Named, One
<1>9. QED BY <1>8 DEF drive, name

LEMMA CdIsNamed ==
  ASSUME NEW iso, Sequence(iso)
  PROVE  Named(CdDrive(iso), {<<"cd">>})
<1> DEFINE f == <<"file=">> \o iso
           a == <<"id=", "cd">>
           b == <<"if=", "none">>
           c == <<"format=", "raw">>
           d == <<"media=", "cdrom">>
           e == <<"readonly=", "on">>
           drive == CdDrive(iso)
           name == <<"cd">>
<1>1. f[1] = "file="
  BY ValuedPath
<1>2. b[1] = "if=" /\ c[1] = "format=" /\ d[1] = "media=" /\ e[1] = "readonly="
  OBVIOUS
<1>3. drive = {a} \union {b, c, d, e, f}
  BY DEF CdDrive
<1>4. \A key : Valued({a}, key) = One("id=", name, key)
  BY ValuedPair
<1> HIDE DEF a, b, c, d, e, f, drive, name
<1>5. \A o \in {b, c, d, e, f} : o[1] # "id=" /\ o[1] # "bus="
  BY <1>1, <1>2
<1>6. Valued({b, c, d, e, f}, "id=") = {} /\ Valued({b, c, d, e, f}, "bus=") = {}
  BY <1>5 DEF Valued
<1>7. \A key : Valued(drive, key) = Valued({a}, key) \union Valued({b, c, d, e, f}, key)
  BY <1>3, ValuedBoth
<1>8. Named(drive, {name})
  BY <1>4, <1>6, <1>7 DEF Named, One
<1>9. QED BY <1>8 DEF drive, name

LEMMA SocketIsNamed ==
  ASSUME NEW path, Sequence(path)
  PROVE  Named(SocketDev(path), {<<"chrtpm">>})
<1> DEFINE f == <<"path=">> \o path
           a == <<"id=", "chrtpm">>
           b == <<"socket">>
           dev == SocketDev(path)
           name == <<"chrtpm">>
<1>1. f[1] = "path="
  BY ValuedPath
<1>2. b[1] = "socket"
  OBVIOUS
<1>3. dev = {a} \union {b, f}
  BY DEF SocketDev
<1>4. \A key : Valued({a}, key) = One("id=", name, key)
  BY ValuedPair
<1> HIDE DEF a, b, f, dev, name
<1>5. \A o \in {b, f} : o[1] # "id=" /\ o[1] # "bus="
  BY <1>1, <1>2
<1>6. Valued({b, f}, "id=") = {} /\ Valued({b, f}, "bus=") = {}
  BY <1>5 DEF Valued
<1>7. \A key : Valued(dev, key) = Valued({a}, key) \union Valued({b, f}, key)
  BY <1>3, ValuedBoth
<1>8. Named(dev, {name})
  BY <1>4, <1>6, <1>7 DEF Named, One
<1>9. QED BY <1>8 DEF dev, name

-----------------------------------------------------------------------------
(* What each part of the command line wires.                               *)
LEMMA MachineUnwired ==
  ASSUME NEW pair
  PROVE  Unwired(Machine(pair))
<1> DEFINE value == MachineValue(pair)
           sleep == NoSleep
           rtc == <<"base=localtime">>
           a == Flag("-machine", value)
           b == Flag("-global", sleep)
           c == Flag("-rtc", rtc)
<1>1. Machine(pair) = a \o b \o c
  BY DEF Machine, MachineValue, NoSleep
<1>2. Bus(value) = {}
  BY QuietMachine
<1>3. Bus(sleep) = {} /\ Bus(rtc) = {}
  <2>1. "ICH9-LPC.disable_s3=1" # Comma /\ "base=localtime" # Comma
    BY DEF Comma
  <2>2. QED BY <2>1, QuietPiece DEF NoSleep
<1> HIDE DEF value, sleep, rtc
<1>4. "-machine" \notin WiredFlags /\ "-global" \notin WiredFlags /\ "-rtc" \notin WiredFlags
  BY DEF WiredFlags
<1>5. Unwired(a) /\ Unwired(b) /\ Unwired(c)
  BY <1>2, <1>3, <1>4, UnwiredFlag
<1> HIDE DEF a, b, c
<1>6. Unwired(a \o b)
  BY <1>5, UnwiredBoth
<1>7. Unwired((a \o b) \o c)
  BY <1>5, <1>6, UnwiredBoth
<1>8. QED BY <1>1, <1>7

LEMMA ProcessorUnwired ==
  ASSUME NEW config, config.cpus # Comma, config.cpus # "bus=", NEW host
  PROVE  Unwired(Processor(config, host))
<1> DEFINE c == Flag("-smp", <<config.cpus>>)
           a(accel) == Flag("-accel", <<accel>>)
           b(cpu) == Flag("-cpu", <<cpu>>)
<1>1. \/ Processor(config, host) = (a("kvm") \o b("host")) \o c
      \/ Processor(config, host) = (a("tcg") \o b("qemu64")) \o c
  BY DEF Processor
<1>2. "-accel" \notin WiredFlags /\ "-cpu" \notin WiredFlags /\ "-smp" \notin WiredFlags
  BY DEF WiredFlags
<1>3. /\ "kvm" # Comma /\ "tcg" # Comma /\ "host" # Comma /\ "qemu64" # Comma
  BY DEF Comma
<1>4. Bus(<<config.cpus>>) = {}
  BY QuietPiece
<1>5. Bus(<<"kvm">>) = {} /\ Bus(<<"tcg">>) = {} /\ Bus(<<"host">>) = {} /\ Bus(<<"qemu64">>) = {}
  BY <1>3, QuietPiece
<1>6. Unwired(a("kvm")) /\ Unwired(a("tcg")) /\ Unwired(b("host")) /\ Unwired(b("qemu64")) /\ Unwired(c)
  BY <1>2, <1>4, <1>5, UnwiredFlag
<1> HIDE DEF a, b, c
<1>7. Unwired(a("kvm") \o b("host")) /\ Unwired(a("tcg") \o b("qemu64"))
  BY <1>6, UnwiredBoth
<1>8. Unwired((a("kvm") \o b("host")) \o c) /\ Unwired((a("tcg") \o b("qemu64")) \o c)
  BY <1>6, <1>7, UnwiredBoth
<1>9. QED BY <1>1, <1>8

LEMMA UnwiredNothing == Unwired(<<>>)
<1> DEFINE none == <<>>
<1>1. Len(none) = 0 /\ 1..0 = {}
  OBVIOUS
<1>2. Sequence(none) /\ \A flag : Values(none, flag) = {}
  BY NoArgs
<1> HIDE DEF none
<1>3. Unwired(none)
  BY <1>1, <1>2 DEF Unwired, Wires, Ported
<1>4. QED BY <1>3 DEF none

LEMMA FlashUnwired ==
  ASSUME NEW pair, NEW paths, Sequence(paths.vars)
  PROVE  Unwired(FirmwareFlash(pair, paths))
<1> DEFINE code == CodeValue(pair)
           vars == VarsValue(paths)
           secure == SecureFlash
           first == IF pair.secure_boot THEN Flag("-global", secure) ELSE <<>>
           one == Flag("-drive", code)
           two == Flag("-drive", vars)
<1>0. FirmwareFlash(pair, paths) = first \o one \o two
  BY DEF FirmwareFlash, CodeValue, VarsValue, SecureFlash
<1>1. Sequence(<<pair.code>>)
  <2> DEFINE piece == pair.code
  <2> HIDE DEF piece
  <2>1. <<piece>> \in Seq({piece})
    OBVIOUS
  <2>2. QED BY <2>1 DEF Sequence, piece
<1>2. Bus(code) = {} /\ Bus(vars) = {}
  <2>1. QemuReads(code) = CodeDrive(<<pair.code>>)
    BY <1>1, CodeRead DEF CodeValue
  <2>2. QemuReads(vars) = VarsDrive(paths.vars)
    BY VarsRead DEF VarsValue
  <2>3. Named(CodeDrive(<<pair.code>>), {}) /\ Named(VarsDrive(paths.vars), {})
    BY <1>1, FlashIsUnnamed
  <2> HIDE DEF code, vars
  <2>4. QED BY <2>1, <2>2, <2>3 DEF Bus, Named
<1>3. Bus(secure) = {}
  <2>1. "driver=cfi.pflash01,property=secure,value=on" # Comma
    BY DEF Comma
  <2>2. QED BY <2>1, QuietPiece DEF SecureFlash
<1> HIDE DEF code, vars, secure
<1>4. "-global" \notin WiredFlags /\ "-drive" \notin WiredFlags
  BY DEF WiredFlags
<1>5. Unwired(first) /\ Unwired(one) /\ Unwired(two)
  BY <1>2, <1>3, <1>4, UnwiredFlag, UnwiredNothing
<1> HIDE DEF first, one, two
<1>6. Unwired(first \o one)
  BY <1>5, UnwiredBoth
<1>7. Unwired((first \o one) \o two)
  BY <1>5, <1>6, UnwiredBoth
<1>8. QED BY <1>0, <1>7

LEMMA DiskWires ==
  ASSUME NEW paths, Sequence(paths.disk)
  PROVE  Wires(HardDisk(paths, ".0"), {HdValue}, {}, {}, {}, {HdPort})
<1> DEFINE one == Flag("-drive", DiskValue(paths))
           two == Flag("-device", HdValue)
<1>1. HardDisk(paths, ".0") = one \o two
  BY DEF HardDisk, DiskValue, HdValue
<1>2. QemuReads(DiskValue(paths)) = DiskDrive(paths.disk) /\ Named(DiskDrive(paths.disk), {<<"hd">>})
  BY DiskRead, DiskIsNamed DEF DiskValue
<1>3. Bus(DiskValue(paths)) = {}
  BY <1>2 DEF Bus, Named
<1>4. "-drive" \notin WiredFlags
  BY DEF WiredFlags
<1>5. Unwired(one)
  BY <1>3, <1>4, UnwiredFlag
<1>6. Bus(HdValue) = HdPort /\ HdPort # {}
  BY PluggedDevicesAre DEF DeviceIs, Bus, HdPort
<1>7. Wires(two, {HdValue}, {}, {}, {}, {HdPort})
  BY <1>6, WiresDevice
<1> HIDE DEF one, two
<1>8. Wires(one \o two, {HdValue}, {}, {}, {}, {HdPort})
  BY <1>5, <1>7, WiresAfter
<1>9. QED BY <1>1, <1>8

BootOf(order) == <<"order=", order>>

LEMMA BootWires ==
  ASSUME NEW order, order # Comma
  PROVE  Wires(Flag("-boot", BootOf(order)), {}, {}, {}, {BootOf(order)}, {})
BY BootIs, WiresBackend DEF BootOf

LEMMA CdromWires ==
  ASSUME NEW iso, Sequence(iso)
  PROVE  Wires(Cdrom(iso), {RomValue}, {}, {}, {BootOf("dc")}, {CdPort})
<1> DEFINE one == Flag("-drive", CdValue(iso))
           two == Flag("-device", RomValue)
           boot == BootOf("dc")
           three == Flag("-boot", boot)
<1>1. Cdrom(iso) = one \o two \o three
  BY DEF Cdrom, CdValue, RomValue, BootOf
<1>2. QemuReads(CdValue(iso)) = CdDrive(iso) /\ Named(CdDrive(iso), {<<"cd">>})
  BY CdRead, CdIsNamed DEF CdValue
<1>3. Bus(CdValue(iso)) = {}
  BY <1>2 DEF Bus, Named
<1>4. "-drive" \notin WiredFlags
  BY DEF WiredFlags
<1>5. Unwired(one)
  BY <1>3, <1>4, UnwiredFlag
<1>6. Bus(RomValue) = CdPort /\ CdPort # {}
  BY PluggedDevicesAre DEF DeviceIs, Bus, CdPort
<1>7. Wires(two, {RomValue}, {}, {}, {}, {CdPort})
  BY <1>6, WiresDevice
<1>8. Wires(three, {}, {}, {}, {boot}, {})
  <2>1. "dc" # Comma
    BY DEF Comma
  <2>2. QED BY <2>1, BootWires
<1> HIDE DEF one, two, three, boot
<1>9. Wires(one \o two, {RomValue}, {}, {}, {}, {CdPort})
  BY <1>5, <1>7, WiresAfter
<1>10. \A q \in {CdPort} : q \notin {}
  OBVIOUS
<1>11. Wires((one \o two) \o three, {RomValue} \union {}, {} \union {}, {} \union {}, {} \union {boot},
             {CdPort} \union {})
  BY <1>8, <1>9, <1>10, WiresBoth
<1>12. \A S : S \union {} = S /\ {} \union S = S
  OBVIOUS
<1>13. Wires((one \o two) \o three, {RomValue}, {}, {}, {boot}, {CdPort})
  BY <1>11, <1>12
<1>14. QED BY <1>1, <1>13 DEF boot

LEMMA PortsDiffer == HdPort # CdPort /\ HdPort # UsbPort /\ CdPort # UsbPort
<1> DEFINE hd == <<"sata", ".0">>
           cd == <<"sata", ".1">>
           usb == <<"usb", ".0">>
<1>1. hd[2] # cd[2] /\ hd[1] # usb[1] /\ cd[1] # usb[1]
  OBVIOUS
<1>2. HdPort = {hd} /\ CdPort = {cd} /\ UsbPort = {usb}
  BY DEF HdPort, CdPort, UsbPort
<1> HIDE DEF hd, cd, usb
<1>3. hd # cd /\ hd # usb /\ cd # usb
  BY <1>1
<1>4. QED BY <1>2, <1>3

LEMMA StorageWires ==
  ASSUME NEW config, Sequence(config.iso), NEW paths, Sequence(paths.disk)
  PROVE  IF config.iso = NoIso
         THEN Wires(Storage(config, paths), {AhciValue, HdValue}, {}, {}, {BootOf("c")}, {HdPort})
         ELSE Wires(Storage(config, paths), {AhciValue, HdValue, RomValue}, {}, {}, {BootOf("dc")},
                    {HdPort, CdPort})
<1> DEFINE one == Flag("-device", AhciValue)
           two == HardDisk(paths, ".0")
           c == BootOf("c")
           dc == BootOf("dc")
           boot == Flag("-boot", c)
           cdrom == Cdrom(config.iso)
<1>1. Storage(config, paths) = (one \o two) \o (IF config.iso = NoIso THEN boot ELSE cdrom)
  BY DEF Storage, Ahci, AhciValue, BootOf
<1>2. Wires(one, {AhciValue}, {}, {}, {}, {})
  <2>1. Bus(AhciValue) = {}
    BY ControllersAre DEF DeviceIs, Bus
  <2>2. QED BY <2>1, WiresDevice
<1>3. Wires(two, {HdValue}, {}, {}, {}, {HdPort})
  BY DiskWires
<1>4. Wires(boot, {}, {}, {}, {c}, {})
  <2>1. "c" # Comma
    BY DEF Comma
  <2>2. QED BY <2>1, BootWires
<1>5. Wires(cdrom, {RomValue}, {}, {}, {dc}, {CdPort})
  BY CdromWires
<1>6. HdPort # CdPort
  BY PortsDiffer
<1> HIDE DEF one, two, boot, cdrom, c, dc
<1>7. Wires(one \o two, {AhciValue} \union {HdValue}, {} \union {}, {} \union {}, {} \union {}, {} \union {HdPort})
  <2>1. \A p \in {} : p \notin {HdPort}
    OBVIOUS
  <2>2. QED BY <1>2, <1>3, <2>1, WiresBoth
<1>8. \A S : S \union {} = S /\ {} \union S = S
  OBVIOUS
<1>9. {AhciValue} \union {HdValue} = {AhciValue, HdValue}
  OBVIOUS
<1>10. Wires(one \o two, {AhciValue, HdValue}, {}, {}, {}, {HdPort})
  BY <1>7, <1>8, <1>9
<1>11. Wires((one \o two) \o boot, {AhciValue, HdValue}, {}, {}, {c}, {HdPort})
  <2>1. \A p \in {HdPort} : p \notin {}
    OBVIOUS
  <2>2. Wires((one \o two) \o boot, {AhciValue, HdValue} \union {}, {} \union {}, {} \union {},
              {} \union {c}, {HdPort} \union {})
    BY <1>4, <1>10, <2>1, WiresBoth
  <2>3. QED BY <1>8, <2>2
<1>12. Wires((one \o two) \o cdrom, {AhciValue, HdValue, RomValue}, {}, {}, {dc}, {HdPort, CdPort})
  <2>1. \A p \in {HdPort} : p \notin {CdPort}
    BY <1>6
  <2>2. Wires((one \o two) \o cdrom, {AhciValue, HdValue} \union {RomValue}, {} \union {}, {} \union {},
              {} \union {dc}, {HdPort} \union {CdPort})
    BY <1>5, <1>10, <2>1, WiresBoth
  <2>3. {AhciValue, HdValue} \union {RomValue} = {AhciValue, HdValue, RomValue}
    OBVIOUS
  <2>4. {HdPort} \union {CdPort} = {HdPort, CdPort}
    OBVIOUS
  <2>5. QED BY <1>8, <2>2, <2>3, <2>4
<1>13. QED BY <1>1, <1>11, <1>12 DEF c, dc

LEMMA TpmWires ==
  ASSUME NEW paths, Sequence(paths.tpm_socket)
  PROVE  Wires(Tpm(paths), {TisValue}, {}, {TpmdevValue}, {}, {})
<1> DEFINE one == Flag("-chardev", SocketValue(paths))
           two == Flag("-tpmdev", TpmdevValue)
           three == Flag("-device", TisValue)
<1>1. Tpm(paths) = (one \o two) \o three
  BY DEF Tpm, SocketValue, TpmdevValue, TisValue
<1>2. /\ QemuReads(SocketValue(paths)) = SocketDev(paths.tpm_socket)
      /\ Named(SocketDev(paths.tpm_socket), {<<"chrtpm">>})
  BY SocketRead, SocketIsNamed
<1>3. Bus(SocketValue(paths)) = {}
  BY <1>2 DEF Bus, Named
<1>4. "-chardev" \notin WiredFlags
  BY DEF WiredFlags
<1>5. Unwired(one)
  BY <1>3, <1>4, UnwiredFlag
<1>6. Wires(two, {}, {}, {TpmdevValue}, {}, {})
  BY TpmdevIs, WiresBackend
<1>7. Wires(three, {TisValue}, {}, {}, {}, {})
  <2>1. Bus(TisValue) = {}
    BY BackedDevicesAre DEF DeviceIs, Bus
  <2>2. QED BY <2>1, WiresDevice
<1> HIDE DEF one, two, three
<1>8. Wires(one \o two, {}, {}, {TpmdevValue}, {}, {})
  BY <1>5, <1>6, WiresAfter
<1>9. \A p \in {} : p \notin {}
  OBVIOUS
<1>10. Wires((one \o two) \o three, {} \union {TisValue}, {} \union {}, {TpmdevValue} \union {},
             {} \union {}, {} \union {})
  BY <1>7, <1>8, <1>9, WiresBoth
<1>11. \A S : S \union {} = S /\ {} \union S = S
  OBVIOUS
<1>12. Wires((one \o two) \o three, {TisValue}, {}, {TpmdevValue}, {}, {})
  BY <1>10, <1>11
<1>13. QED BY <1>1, <1>12

LEMMA PeripheralsWire ==
  Wires(Peripherals, {NicValue, XhciValue, TabletValue}, {NetValue}, {}, {}, {UsbPort})
<1> DEFINE one == Flag("-netdev", NetValue)
           two == Flag("-device", NicValue)
           three == Flag("-device", XhciValue)
           four == Flag("-device", TabletValue)
           five == Flag("-vga", <<"std">>)
<1>1. Peripherals = (((one \o two) \o three) \o four) \o five
  BY DEF Peripherals, NetValue, NicValue, XhciValue, TabletValue
<1>2. Wires(one, {}, {NetValue}, {}, {}, {})
  BY NetIs, WiresBackend
<1>3. Wires(two, {NicValue}, {}, {}, {}, {})
  <2>1. Bus(NicValue) = {}
    BY BackedDevicesAre DEF DeviceIs, Bus
  <2>2. QED BY <2>1, WiresDevice
<1>4. Wires(three, {XhciValue}, {}, {}, {}, {})
  <2>1. Bus(XhciValue) = {}
    BY ControllersAre DEF DeviceIs, Bus
  <2>2. QED BY <2>1, WiresDevice
<1>5. Wires(four, {TabletValue}, {}, {}, {}, {UsbPort})
  <2>1. Bus(TabletValue) = UsbPort /\ UsbPort # {}
    BY PluggedDevicesAre DEF DeviceIs, Bus, UsbPort
  <2>2. QED BY <2>1, WiresDevice
<1>6. Unwired(five)
  <2>1. "std" # Comma
    BY DEF Comma
  <2>2. "-vga" \notin WiredFlags
    BY DEF WiredFlags
  <2>3. Bus(<<"std">>) = {}
    BY <2>1, QuietPiece
  <2>4. QED BY <2>2, <2>3, UnwiredFlag
<1> HIDE DEF one, two, three, four, five
<1>7. \A S : S \union {} = S /\ {} \union S = S
  OBVIOUS
<1>8. \A S : \A p \in {} : p \notin S
  OBVIOUS
<1>9. Wires(one \o two, {NicValue}, {NetValue}, {}, {}, {})
  <2>1. Wires(one \o two, {} \union {NicValue}, {NetValue} \union {}, {} \union {}, {} \union {}, {} \union {})
    BY <1>2, <1>3, <1>8, WiresBoth
  <2>2. QED BY <1>7, <2>1
<1>10. Wires((one \o two) \o three, {NicValue, XhciValue}, {NetValue}, {}, {}, {})
  <2>1. Wires((one \o two) \o three, {NicValue} \union {XhciValue}, {NetValue} \union {}, {} \union {},
              {} \union {}, {} \union {})
    BY <1>4, <1>8, <1>9, WiresBoth
  <2>2. {NicValue} \union {XhciValue} = {NicValue, XhciValue}
    OBVIOUS
  <2>3. QED BY <1>7, <2>1, <2>2
<1>11. Wires(((one \o two) \o three) \o four, {NicValue, XhciValue, TabletValue}, {NetValue}, {}, {}, {UsbPort})
  <2>1. Wires(((one \o two) \o three) \o four, {NicValue, XhciValue} \union {TabletValue},
              {NetValue} \union {}, {} \union {}, {} \union {}, {} \union {UsbPort})
    BY <1>5, <1>8, <1>10, WiresBoth
  <2>2. {NicValue, XhciValue} \union {TabletValue} = {NicValue, XhciValue, TabletValue}
    OBVIOUS
  <2>3. QED BY <1>7, <2>1, <2>2
<1>12. QED BY <1>1, <1>6, <1>11, WiresBefore

(* What the whole command line wires.                                      *)
DevicesOf(config) ==
  ({AhciValue, HdValue} \union (IF config.iso = NoIso THEN {} ELSE {RomValue}))
    \union (IF config.tpm THEN {TisValue} ELSE {})
    \union {NicValue, XhciValue, TabletValue}

BootsOf(config) == {BootOf(IF config.iso = NoIso THEN "c" ELSE "dc")}

PortsOf(config) == {HdPort} \union (IF config.iso = NoIso THEN {} ELSE {CdPort}) \union {UsbPort}

LEMMA BuildWires ==
  ASSUME NEW config, Sequence(config.iso), Bus(config.name) = {},
         config.cpus # Comma, config.cpus # "bus=",
         config.memory_mib # Comma, config.memory_mib # "bus=",
         NEW host, NEW paths, Sequence(paths.vars), Sequence(paths.disk), Sequence(paths.tpm_socket)
  PROVE  Wires(Build(config, host, paths), DevicesOf(config), {NetValue},
               IF config.tpm THEN {TpmdevValue} ELSE {}, BootsOf(config), PortsOf(config))
<1> DEFINE a == Flag("-name", config.name)
           b == Machine(Best(host.files))
           c == Processor(config, host)
           d == Flag("-m", <<config.memory_mib>>)
           e == FirmwareFlash(Best(host.files), paths)
           f == Storage(config, paths)
           g == IF config.tpm THEN Tpm(paths) ELSE <<>>
           h == Peripherals
           disks == {AhciValue, HdValue} \union (IF config.iso = NoIso THEN {} ELSE {RomValue})
           tpms == IF config.tpm THEN {TisValue} ELSE {}
           tpmdevs == IF config.tpm THEN {TpmdevValue} ELSE {}
           rest == {NicValue, XhciValue, TabletValue}
           boots == BootsOf(config)
           ports == {HdPort} \union (IF config.iso = NoIso THEN {} ELSE {CdPort})
<1>1. Build(config, host, paths) = ((((((a \o b) \o c) \o d) \o e) \o f) \o g) \o h
  BY DEF Build
<1>2. Unwired(a) /\ Unwired(d)
  <2>1. "-name" \notin WiredFlags /\ "-m" \notin WiredFlags
    BY DEF WiredFlags
  <2>2. Bus(<<config.memory_mib>>) = {}
    BY QuietPiece
  <2>3. QED BY <2>1, <2>2, UnwiredFlag
<1>3. Unwired(b) /\ Unwired(c) /\ Unwired(e)
  BY MachineUnwired, ProcessorUnwired, FlashUnwired
<1>4. Wires(f, disks, {}, {}, boots, ports)
  <2>1. CASE config.iso = NoIso
    <3>1. Wires(f, {AhciValue, HdValue}, {}, {}, {BootOf("c")}, {HdPort})
      BY <2>1, StorageWires
    <3>2. disks = {AhciValue, HdValue} /\ ports = {HdPort} /\ boots = {BootOf("c")}
      BY <2>1 DEF BootsOf
    <3> HIDE DEF f, disks, ports, boots
    <3>3. QED BY <3>1, <3>2
  <2>2. CASE config.iso # NoIso
    <3>1. Wires(f, {AhciValue, HdValue, RomValue}, {}, {}, {BootOf("dc")}, {HdPort, CdPort})
      BY <2>2, StorageWires
    <3>2. /\ disks = {AhciValue, HdValue, RomValue} /\ ports = {HdPort, CdPort}
          /\ boots = {BootOf("dc")}
      BY <2>2 DEF BootsOf
    <3> HIDE DEF f, disks, ports, boots
    <3>3. QED BY <3>1, <3>2
  <2>3. QED BY <2>1, <2>2
<1>5. Wires(g, tpms, {}, tpmdevs, {}, {})
  <2>1. CASE config.tpm
    BY <2>1, TpmWires
  <2>2. CASE ~config.tpm
    BY <2>2, UnwiredNothing DEF Unwired
  <2>3. QED BY <2>1, <2>2
<1>6. Wires(h, rest, {NetValue}, {}, {}, {UsbPort})
  BY PeripheralsWire
<1>7. \A p \in ports : p \notin {UsbPort}
  BY PortsDiffer
<1>8. /\ DevicesOf(config) = (disks \union tpms) \union rest
      /\ PortsOf(config) = ports \union {UsbPort}
  BY DEF DevicesOf, PortsOf
<1> HIDE DEF a, b, c, d, e, f, g, h, disks, tpms, tpmdevs, rest, boots, ports
<1>9. Unwired(a \o b)
  BY <1>2, <1>3, UnwiredBoth
<1>10. Unwired((a \o b) \o c)
  BY <1>3, <1>9, UnwiredBoth
<1>11. Unwired(((a \o b) \o c) \o d)
  BY <1>2, <1>10, UnwiredBoth
<1>12. Unwired((((a \o b) \o c) \o d) \o e)
  BY <1>3, <1>11, UnwiredBoth
<1> DEFINE abcde == (((a \o b) \o c) \o d) \o e
<1>13. Unwired(abcde)
  BY <1>12
<1>14. Build(config, host, paths) = ((abcde \o f) \o g) \o h
  BY <1>1
<1> HIDE DEF abcde
<1>15. Wires(abcde \o f, disks, {}, {}, boots, ports)
  BY <1>4, <1>13, WiresAfter
<1>16. \A S : S \union {} = S /\ {} \union S = S
  OBVIOUS
<1>17. \A p \in ports : p \notin {}
  OBVIOUS
<1>18. Wires((abcde \o f) \o g, disks \union tpms, {}, tpmdevs, boots, ports)
  <2>1. Wires((abcde \o f) \o g, disks \union tpms, {} \union {}, {} \union tpmdevs, boots \union {},
              ports \union {})
    BY <1>5, <1>15, <1>17, WiresBoth
  <2>2. QED BY <1>16, <2>1
<1>19. Wires(((abcde \o f) \o g) \o h, (disks \union tpms) \union rest, {NetValue}, tpmdevs, boots,
             ports \union {UsbPort})
  <2>1. Wires(((abcde \o f) \o g) \o h, (disks \union tpms) \union rest, {} \union {NetValue},
              tpmdevs \union {}, boots \union {}, ports \union {UsbPort})
    BY <1>6, <1>7, <1>18, WiresBoth
  <2>2. QED BY <1>16, <2>1
<1>20. Wires(Build(config, host, paths), DevicesOf(config), {NetValue}, tpmdevs, boots, PortsOf(config))
  BY <1>8, <1>14, <1>19
<1>21. QED BY <1>20 DEF tpmdevs, boots

-----------------------------------------------------------------------------
(* Every device finds what it names: for all configurations, hosts and     *)
(* paths.                                                                  *)
GivenBy(values, key) == UNION {Valued(QemuReads(v), key) : v \in values}

LEMMA InIf ==
  ASSUME NEW cond, cond \in BOOLEAN, NEW S
  PROVE  \A x : x \in (IF cond THEN S ELSE {}) <=> cond /\ x \in S
<1>1. CASE cond
  BY <1>1, Zenon
<1>2. CASE ~cond
  BY <1>2, Zenon
<1>3. QED BY <1>1, <1>2

DevicesGive(config) ==
  LET cd == config.iso # NoIso
      devices == DevicesOf(config)
  IN /\ GivenBy(devices, "drive=") = {<<"hd">>} \union (IF cd THEN {<<"cd">>} ELSE {})
     /\ GivenBy(devices, "netdev=") = {<<"net0">>}
     /\ GivenBy(devices, "tpmdev=") = IF config.tpm THEN {<<"tpm0">>} ELSE {}
     /\ GivenBy(devices, "id=") = {<<"sata">>, <<"usb">>}
     /\ GivenBy(devices, "bus=") = (HdPort \union UsbPort) \union (IF cd THEN CdPort ELSE {})

LEMMA DevicesFind ==
  ASSUME NEW config, config.tpm \in BOOLEAN
  PROVE  DevicesGive(config)
<1> DEFINE hd == <<"hd">>
           cd == <<"cd">>
           net == <<"net0">>
           tpm == <<"tpm0">>
           sata == <<"sata">>
           usb == <<"usb">>
           has == config.iso # NoIso
           wanted == config.tpm = TRUE
           devices == DevicesOf(config)
<1>0. has \in BOOLEAN /\ wanted \in BOOLEAN
  OBVIOUS
<1>1. devices = ({AhciValue, HdValue} \union (IF has THEN {RomValue} ELSE {}))
                  \union (IF wanted THEN {TisValue} ELSE {})
                  \union {NicValue, XhciValue, TabletValue}
  BY DEF DevicesOf
<1>2. /\ DeviceIs(AhciValue, {}, {}, {}, {}, {sata}) /\ DeviceIs(XhciValue, {}, {}, {}, {}, {usb})
      /\ DeviceIs(TisValue, {}, {}, {tpm}, {}, {}) /\ DeviceIs(NicValue, {}, {net}, {}, {}, {})
      /\ DeviceIs(HdValue, {hd}, {}, {}, HdPort, {}) /\ DeviceIs(RomValue, {cd}, {}, {}, CdPort, {})
      /\ DeviceIs(TabletValue, {}, {}, {}, UsbPort, {})
  BY ControllersAre, BackedDevicesAre, PluggedDevicesAre
<1> HIDE DEF hd, cd, net, tpm, sata, usb, devices
<1> DEFINE roms == IF has THEN {RomValue} ELSE {}
           tpms == IF wanted THEN {TisValue} ELSE {}
<1>3. (\A v : v \in roms <=> has /\ v \in {RomValue}) /\ \A v : v \in tpms <=> wanted /\ v \in {TisValue}
  BY <1>0, InIf
<1>4. \A v : v \in devices <=> \/ v \in {AhciValue, HdValue, NicValue, XhciValue, TabletValue}
                               \/ v \in roms \/ v \in tpms
  <2> HIDE DEF roms, tpms
  <2>1. devices = ({AhciValue, HdValue} \union roms) \union tpms \union {NicValue, XhciValue, TabletValue}
    BY <1>1 DEF roms, tpms
  <2>2. QED BY <2>1
<1> HIDE DEF roms, tpms
<1>5. \A key, x : x \in GivenBy(devices, key) <=> \E v \in devices : x \in Valued(QemuReads(v), key)
  BY DEF GivenBy
<1> DEFINE In(x, key, v) == x \in Valued(QemuReads(v), key)
<1>6. \A key, x : x \in GivenBy(devices, key) <=>
        \/ In(x, key, AhciValue) \/ In(x, key, HdValue) \/ In(x, key, NicValue) \/ In(x, key, XhciValue)
        \/ In(x, key, TabletValue) \/ (has /\ In(x, key, RomValue)) \/ (wanted /\ In(x, key, TisValue))
  <2> HIDE DEF In
  <2>1. \A key, x : x \in GivenBy(devices, key) <=> \E v \in devices : In(x, key, v)
    BY <1>5 DEF In
  <2>2. \A v : v \in devices <=> \/ v = AhciValue \/ v = HdValue \/ v = NicValue \/ v = XhciValue
                                 \/ v = TabletValue \/ (has /\ v = RomValue) \/ (wanted /\ v = TisValue)
    BY <1>3, <1>4
  <2>3. QED BY <2>1, <2>2
<1>7. \A x : /\ In(x, "drive=", AhciValue) <=> FALSE
             /\ In(x, "drive=", HdValue) <=> x = hd
             /\ In(x, "drive=", NicValue) <=> FALSE
             /\ In(x, "drive=", XhciValue) <=> FALSE
             /\ In(x, "drive=", TabletValue) <=> FALSE
             /\ In(x, "drive=", RomValue) <=> x = cd
             /\ In(x, "drive=", TisValue) <=> FALSE
  BY <1>2 DEF DeviceIs
<1>8. \A x : /\ In(x, "netdev=", AhciValue) <=> FALSE
             /\ In(x, "netdev=", HdValue) <=> FALSE
             /\ In(x, "netdev=", NicValue) <=> x = net
             /\ In(x, "netdev=", XhciValue) <=> FALSE
             /\ In(x, "netdev=", TabletValue) <=> FALSE
             /\ In(x, "netdev=", RomValue) <=> FALSE
             /\ In(x, "netdev=", TisValue) <=> FALSE
  BY <1>2 DEF DeviceIs
<1>9. \A x : /\ In(x, "tpmdev=", AhciValue) <=> FALSE
             /\ In(x, "tpmdev=", HdValue) <=> FALSE
             /\ In(x, "tpmdev=", NicValue) <=> FALSE
             /\ In(x, "tpmdev=", XhciValue) <=> FALSE
             /\ In(x, "tpmdev=", TabletValue) <=> FALSE
             /\ In(x, "tpmdev=", RomValue) <=> FALSE
             /\ In(x, "tpmdev=", TisValue) <=> x = tpm
  BY <1>2 DEF DeviceIs
<1>10. \A x : /\ In(x, "id=", AhciValue) <=> x = sata
              /\ In(x, "id=", HdValue) <=> FALSE
              /\ In(x, "id=", NicValue) <=> FALSE
              /\ In(x, "id=", XhciValue) <=> x = usb
              /\ In(x, "id=", TabletValue) <=> FALSE
              /\ In(x, "id=", RomValue) <=> FALSE
              /\ In(x, "id=", TisValue) <=> FALSE
  BY <1>2 DEF DeviceIs
<1>11. \A x : /\ In(x, "bus=", AhciValue) <=> FALSE
              /\ In(x, "bus=", HdValue) <=> x \in HdPort
              /\ In(x, "bus=", NicValue) <=> FALSE
              /\ In(x, "bus=", XhciValue) <=> FALSE
              /\ In(x, "bus=", TabletValue) <=> x \in UsbPort
              /\ In(x, "bus=", RomValue) <=> x \in CdPort
              /\ In(x, "bus=", TisValue) <=> FALSE
  BY <1>2 DEF DeviceIs
<1> HIDE DEF In
<1>12. GivenBy(devices, "drive=") = {hd} \union (IF has THEN {cd} ELSE {})
  <2>1. \A x : x \in GivenBy(devices, "drive=") <=> x = hd \/ (has /\ x = cd)
    BY <1>6, <1>7
  <2>2. \A x : x \in (IF has THEN {cd} ELSE {}) <=> has /\ x \in {cd}
    BY <1>0, InIf
  <2> DEFINE cds == IF has THEN {cd} ELSE {}
  <2> HIDE DEF cds
  <2>3. \A x : x \in cds <=> has /\ x = cd
    BY <2>2, Zenon DEF cds
  <2>4. \A x : x \in GivenBy(devices, "drive=") <=> x \in {hd} \/ x \in cds
    BY <2>1, <2>3
  <2>5. GivenBy(devices, "drive=") = {hd} \union cds
    BY <2>4
  <2>6. QED BY <2>5 DEF cds
<1>13. GivenBy(devices, "netdev=") = {net}
  <2>1. \A x : x \in GivenBy(devices, "netdev=") <=> x = net
    BY <1>6, <1>8
  <2>2. QED BY <2>1
<1>14. GivenBy(devices, "tpmdev=") = IF wanted THEN {tpm} ELSE {}
  <2>1. \A x : x \in GivenBy(devices, "tpmdev=") <=> wanted /\ x = tpm
    BY <1>6, <1>9
  <2>2. CASE wanted
    BY <2>1, <2>2
  <2>3. CASE ~wanted
    BY <2>1, <2>3
  <2>4. QED BY <2>2, <2>3
<1>15. GivenBy(devices, "id=") = {sata, usb}
  <2>1. \A x : x \in GivenBy(devices, "id=") <=> x = sata \/ x = usb
    BY <1>6, <1>10, Zenon
  <2>2. QED BY <2>1
<1>16. GivenBy(devices, "bus=") = (HdPort \union UsbPort) \union (IF has THEN CdPort ELSE {})
  <2>1. \A x : x \in GivenBy(devices, "bus=") <=> x \in HdPort \/ x \in UsbPort \/ (has /\ x \in CdPort)
    BY <1>6, <1>11
  <2>2. \A x : x \in (IF has THEN CdPort ELSE {}) <=> has /\ x \in CdPort
    BY <1>0, InIf
  <2> DEFINE cds == IF has THEN CdPort ELSE {}
  <2> HIDE DEF cds
  <2>3. \A x : x \in cds <=> has /\ x \in CdPort
    BY <2>2, Zenon DEF cds
  <2>4. \A x : x \in GivenBy(devices, "bus=") <=> x \in HdPort \/ x \in UsbPort \/ x \in cds
    BY <2>1, <2>3
  <2>5. GivenBy(devices, "bus=") = (HdPort \union UsbPort) \union cds
    BY <2>4
  <2>6. QED BY <2>5 DEF cds
<1>17. QED
  BY <1>12, <1>13, <1>14, <1>15, <1>16 DEF DevicesGive, hd, cd, net, tpm, sata, usb, has, wanted, devices

LEMMA GivenRead ==
  ASSUME NEW values, NEW key
  PROVE  \A x : x \in GivenBy(values, key) <=> \E d \in {QemuReads(v) : v \in values} : x \in Valued(d, key)
  BY DEF GivenBy

LEMMA QuietName ==
  ASSUME NEW name, Sequence(name), ValidName(name)
  PROVE  Bus(name) = {}
<1>1. PICK S : name \in Seq(S)
  BY DEF Sequence
<1>2. name # <<>> /\ Len(name) \in Nat \ {0} /\ DOMAIN name = 1..Len(name)
  BY <1>1, EmptySeq DEF ValidName
<1>3. \A piece \in Ordinary \union {"-", "_", "."} : piece # Comma
  BY OrdinaryAssumption, Zenon DEF Comma
<1>4. \A piece \in Ordinary \union {"-", "_", "."} : piece # "bus="
  BY OrdinaryAssumption, Zenon
<1>5. \A i \in DOMAIN name : name[i] # Comma /\ name[i] # "bus="
  BY <1>3, <1>4 DEF ValidName, Allowed
<1>6. QED BY <1>2, <1>5, QuietText

(* The names of the drives and of the socket, in the VM of the input.      *)
LEMMA BackendsOfInput ==
  ASSUME InputOK, HasArgv
  PROVE  /\ GivenBy(Values(Argv, "-drive"), "id=")
              = {<<"hd">>} \union (IF input.config.iso = NoIso THEN {} ELSE {<<"cd">>})
         /\ GivenBy(Values(Argv, "-chardev"), "id=") = IF input.config.tpm THEN {<<"chrtpm">>} ELSE {}
<1> DEFINE own == VmPaths(input.env, input.directory)
           code == Best(input.host.files).code
           iso == input.config.iso
           tpm == input.config.tpm
           hd == <<"hd">>
           cd == <<"cd">>
           chr == <<"chrtpm">>
           a == CodeDrive(<<code>>)
           b == VarsDrive(own.vars)
           c == DiskDrive(own.disk)
           d == CdDrive(iso)
           s == SocketDev(own.tpm_socket)
           drives == {QemuReads(v) : v \in Values(Argv, "-drive")}
           devs == {QemuReads(v) : v \in Values(Argv, "-chardev")}
<1>1. /\ EnvOK(input.env) /\ NameOK(input.directory) /\ Sequence(iso)
      /\ input.directory \in Names /\ tpm \in BOOLEAN
  BY InputVm
<1>2. Sequence(own.vars) /\ Sequence(own.disk) /\ Sequence(own.tpm_socket)
  BY <1>1, FilesOfVmAre DEF EndsIn
<1>3. drives = {a, b, c} \union (IF iso = NoIso THEN {} ELSE {d})
  BY <1>1, DrivesOfInput DEF Argv, Paths, Drives, DrivesFor
<1>4. devs = IF tpm THEN {s} ELSE {}
  <2>1. Paths = own
    BY DEF Paths, LoadedPaths
  <2>2. QED BY <2>1, SocketOfInput
<1>5. Sequence(<<code>>)
  <2> HIDE DEF code
  <2>1. <<code>> \in Seq({code})
    OBVIOUS
  <2>2. QED BY <2>1 DEF Sequence
<1>6. /\ Valued(a, "id=") = {} /\ Valued(b, "id=") = {} /\ Valued(c, "id=") = {hd}
      /\ Valued(d, "id=") = {cd} /\ Valued(s, "id=") = {chr}
  BY <1>1, <1>2, <1>5, FlashIsUnnamed, DiskIsNamed, CdIsNamed, SocketIsNamed DEF Named
<1>7. \A x : x \in GivenBy(Values(Argv, "-drive"), "id=") <=> \E e \in drives : x \in Valued(e, "id=")
  BY GivenRead
<1>8. \A x : x \in GivenBy(Values(Argv, "-chardev"), "id=") <=> \E e \in devs : x \in Valued(e, "id=")
  BY GivenRead
<1> HIDE DEF a, b, c, d, s, drives, devs, hd, cd, chr, iso, tpm
<1>9. GivenBy(Values(Argv, "-drive"), "id=") = {hd} \union (IF iso = NoIso THEN {} ELSE {cd})
  <2>1. CASE iso = NoIso
    <3>1. drives = {a, b, c}
      BY <1>3, <2>1
    <3>2. \A x : x \in GivenBy(Values(Argv, "-drive"), "id=") <=> x = hd
      BY <1>6, <1>7, <3>1
    <3>3. QED BY <2>1, <3>2
  <2>2. CASE iso # NoIso
    <3>1. drives = {a, b, c, d}
      BY <1>3, <2>2
    <3>2. \A x : x \in GivenBy(Values(Argv, "-drive"), "id=") <=> x = hd \/ x = cd
      BY <1>6, <1>7, <3>1
    <3>3. QED BY <2>2, <3>2
  <2>3. QED BY <2>1, <2>2
<1>10. GivenBy(Values(Argv, "-chardev"), "id=") = IF tpm THEN {chr} ELSE {}
  <2>1. CASE tpm
    <3>1. devs = {s}
      BY <1>4, <2>1
    <3>2. \A x : x \in GivenBy(Values(Argv, "-chardev"), "id=") <=> x = chr
      BY <1>6, <1>8, <3>1
    <3>3. QED BY <2>1, <3>2
  <2>2. CASE ~tpm
    <3>1. devs = {}
      BY <1>4, <2>2
    <3>2. \A x : x \notin GivenBy(Values(Argv, "-chardev"), "id=")
      BY <1>8, <3>1
    <3>3. QED BY <2>2, <3>2
  <2>3. QED BY <2>1, <2>2
<1>11. QED BY <1>9, <1>10 DEF hd, cd, chr, iso, tpm

LEMMA WiresOfInput ==
  ASSUME InputOK, HasArgv
  PROVE  Wires(Argv, DevicesOf(input.config), {NetValue},
               IF input.config.tpm THEN {TpmdevValue} ELSE {}, BootsOf(input.config), PortsOf(input.config))
<1> DEFINE config == input.config
<1>1. /\ EnvOK(input.env) /\ NameOK(input.directory) /\ Sequence(config.iso)
  BY InputVm
<1>2. config.name \in Names /\ config.cpus = "cpus" /\ config.memory_mib = "memory"
  <2>1. input \in Vms
    BY InputKinds DEF HasArgv
  <2>2. QED BY <2>1 DEF Vms
<1>3. Sequence(config.name) /\ ValidName(config.name)
  <2>1. \A name \in Names : Sequence(name)
    BY PathsAssumption DEF Sequence
  <2>2. QED BY <1>2, <2>1, NamesAssumption
<1>4. Bus(config.name) = {}
  BY <1>3, QuietName
<1>5. "cpus" # Comma /\ "memory" # Comma
  BY DEF Comma
<1>6. Paths = VmPaths(input.env, input.directory)
  BY DEF Paths, LoadedPaths
<1>7. Sequence(Paths.vars) /\ Sequence(Paths.disk) /\ Sequence(Paths.tpm_socket)
  BY <1>1, <1>6, FilesOfVmAre DEF EndsIn
<1>8. Argv = Build(config, input.host, Paths)
  BY DEF Argv
<1> HIDE DEF config
<1>9. config.cpus # Comma /\ config.cpus # "bus=" /\ config.memory_mib # Comma /\ config.memory_mib # "bus="
  BY <1>2, <1>5
<1>10. Wires(Build(config, input.host, Paths), DevicesOf(config), {NetValue},
             IF config.tpm THEN {TpmdevValue} ELSE {}, BootsOf(config), PortsOf(config))
  BY <1>1, <1>4, <1>7, <1>9, BuildWires
<1>11. QED BY <1>8, <1>10 DEF config

(* Every device finds the backend it names, no backend is left over, no    *)
(* two devices share a port, and the guest boots from the medium exactly   *)
(* when there is one: for all names, hosts, environments and paths.        *)
THEOREM AllIsWired == Spec => []Wired
<1>1. InputOK => Wired
  <2> SUFFICES ASSUME InputOK, HasArgv PROVE Wired
    BY DEF Wired
  <2> DEFINE argv == Argv
             read == [i \in DOMAIN argv |-> QemuReads(argv[i].value)]
             ValuesOf(flag, key) ==
               UNION {Valued(read[i], key) : i \in {j \in DOMAIN argv : argv[j].flag = flag}}
             ports == [i \in {j \in DOMAIN argv : Valued(read[j], "bus=") # {}} |-> Valued(read[i], "bus=")]
             devices == DevicesOf(input.config)
             config == input.config
             iso == input.config.iso
             tpm == input.config.tpm
  <2>1. Wires(argv, devices, {NetValue}, IF tpm THEN {TpmdevValue} ELSE {}, BootsOf(config), PortsOf(config))
    BY WiresOfInput
  <2>2. tpm \in BOOLEAN
    BY InputVm
  <2>3. DevicesGive(config)
    BY <2>2, DevicesFind
  <2>4. /\ GivenBy(Values(argv, "-drive"), "id=") = {<<"hd">>} \union (IF iso = NoIso THEN {} ELSE {<<"cd">>})
        /\ GivenBy(Values(argv, "-chardev"), "id=") = IF tpm THEN {<<"chrtpm">>} ELSE {}
    BY BackendsOfInput
  <2> HIDE DEF argv
  <2>5. ASSUME NEW flag, NEW key PROVE ValuesOf(flag, key) = GivenBy(Values(argv, flag), key)
    <3>1. \A i \in DOMAIN argv : read[i] = QemuReads(argv[i].value)
      OBVIOUS
    <3> HIDE DEF read
    <3>2. \A x : x \in ValuesOf(flag, key)
                   <=> \E i \in DOMAIN argv : argv[i].flag = flag /\ x \in Valued(QemuReads(argv[i].value), key)
      BY <3>1
    <3>3. \A x : x \in GivenBy(Values(argv, flag), key)
                   <=> \E i \in DOMAIN argv : argv[i].flag = flag /\ x \in Valued(QemuReads(argv[i].value), key)
      BY DEF GivenBy, Values
    <3> HIDE DEF ValuesOf
    <3>4. QED BY <3>2, <3>3
  <2> HIDE DEF ValuesOf
  <2>6. /\ Values(argv, "-device") = devices
        /\ Values(argv, "-netdev") = {NetValue}
        /\ Values(argv, "-tpmdev") = IF tpm THEN {TpmdevValue} ELSE {}
        /\ Values(argv, "-boot") = BootsOf(config)
    BY <2>1 DEF Wires
  <2>7. /\ GivenBy({NetValue}, "id=") = {<<"net0">>}
        /\ GivenBy(IF tpm THEN {TpmdevValue} ELSE {}, "id=") = IF tpm THEN {<<"tpm0">>} ELSE {}
        /\ GivenBy(IF tpm THEN {TpmdevValue} ELSE {}, "chardev=") = IF tpm THEN {<<"chrtpm">>} ELSE {}
    BY NetIs, TpmdevIs DEF GivenBy
  <2>8. ValuesOf("-device", "drive=") = ValuesOf("-drive", "id=")
    BY <2>3, <2>4, <2>5, <2>6 DEF DevicesGive
  <2>9. ValuesOf("-device", "netdev=") = ValuesOf("-netdev", "id=")
    BY <2>3, <2>5, <2>6, <2>7 DEF DevicesGive
  <2>10. ValuesOf("-device", "tpmdev=") = ValuesOf("-tpmdev", "id=")
    BY <2>3, <2>5, <2>6, <2>7 DEF DevicesGive
  <2>11. ValuesOf("-tpmdev", "chardev=") = ValuesOf("-chardev", "id=")
    BY <2>4, <2>5, <2>6, <2>7
  <2>12. {<<port[1]>> : port \in ValuesOf("-device", "bus=")} = ValuesOf("-device", "id=")
    <3> DEFINE hd == <<"sata", ".0">>
               cd == <<"sata", ".1">>
               usb == <<"usb", ".0">>
               one(port) == <<port[1]>>
    <3>1. ValuesOf("-device", "bus=") = ({hd} \union {usb}) \union (IF iso # NoIso THEN {cd} ELSE {})
      BY <2>3, <2>5, <2>6 DEF DevicesGive, HdPort, CdPort, UsbPort
    <3>2. ValuesOf("-device", "id=") = {<<"sata">>, <<"usb">>}
      BY <2>3, <2>5, <2>6 DEF DevicesGive
    <3>3. one(hd) = <<"sata">> /\ one(cd) = <<"sata">> /\ one(usb) = <<"usb">>
      OBVIOUS
    <3> HIDE DEF hd, cd, usb, one
    <3>4. {one(port) : port \in ValuesOf("-device", "bus=")} = {one(hd), one(usb)}
      <4>1. CASE iso = NoIso
        BY <3>1, <4>1
      <4>2. CASE iso # NoIso
        BY <3>1, <3>3, <4>2
      <4>3. QED BY <4>1, <4>2
    <3>5. {one(port) : port \in ValuesOf("-device", "bus=")} = ValuesOf("-device", "id=")
      BY <3>2, <3>3, <3>4
    <3>6. QED BY <3>5 DEF one
  <2>13. IsInjective(ports)
    <3>1. Sequence(argv) /\ Ported(argv, PortsOf(config))
      BY <2>1 DEF Wires
    <3>2. DOMAIN argv = 1..Len(argv)
      BY <3>1 DEF Sequence
    <3>3. \A i \in DOMAIN argv : Valued(read[i], "bus=") = Bus(argv[i].value)
      BY DEF Bus
    <3>4. \A i \in DOMAIN ports : i \in DOMAIN argv /\ Bus(argv[i].value) # {} /\ ports[i] = Bus(argv[i].value)
      BY <3>3
    <3> HIDE DEF ports, read
    <3>5. \A i, j \in DOMAIN ports : ports[i] = ports[j] => i = j
      BY <3>1, <3>2, <3>4 DEF Ported
    <3>6. QED BY <3>5 DEF IsInjective
  <2>14. <<"dc">> \in ValuesOf("-boot", "order=") <=> <<"cd">> \in ValuesOf("-drive", "id=")
    <3> DEFINE c == <<"c">>
               dc == <<"dc">>
               hd == <<"hd">>
               cd == <<"cd">>
    <3>1. c # dc /\ hd # cd
      <4>1. c[1] # dc[1] /\ hd[1] # cd[1]
        OBVIOUS
      <4>2. QED BY <4>1
    <3>2. "c" # Comma /\ "dc" # Comma
      BY DEF Comma
    <3>3. Valued(QemuReads(BootOf("c")), "order=") = {c} /\ Valued(QemuReads(BootOf("dc")), "order=") = {dc}
      BY <3>2, BootIs DEF BootOf
    <3>4. ValuesOf("-drive", "id=") = {hd} \union (IF iso = NoIso THEN {} ELSE {cd})
      BY <2>4, <2>5
    <3>5. ValuesOf("-boot", "order=") = IF iso = NoIso THEN {c} ELSE {dc}
      <4>1. BootsOf(config) = IF iso = NoIso THEN {BootOf("c")} ELSE {BootOf("dc")}
        BY DEF BootsOf
      <4>2. ValuesOf("-boot", "order=") = GivenBy(BootsOf(config), "order=")
        BY <2>5, <2>6
      <4> HIDE DEF c, dc
      <4>3. GivenBy({BootOf("c")}, "order=") = {c} /\ GivenBy({BootOf("dc")}, "order=") = {dc}
        BY <3>3 DEF GivenBy
      <4>4. QED BY <4>1, <4>2, <4>3
    <3> HIDE DEF c, dc, hd, cd, iso
    <3>6. dc \in ValuesOf("-boot", "order=") <=> cd \in ValuesOf("-drive", "id=")
      <4>1. CASE iso = NoIso
        BY <3>1, <3>4, <3>5, <4>1
      <4>2. CASE iso # NoIso
        BY <3>1, <3>4, <3>5, <4>2
      <4>3. QED BY <4>1, <4>2
    <3>7. QED BY <3>6 DEF dc, cd
  <2> HIDE DEF ports, read
  <2>15. QED
    BY <2>8, <2>9, <2>10, <2>11, <2>12, <2>13, <2>14, Zenon DEF Wired, ValuesOf, ports, read, argv
<1>2. QED BY <1>1, TextsTyped, PTL
=============================================================================
