---------------------------- MODULE ParsersProofs ----------------------------
(***************************************************************************)
(* Proofs about what preflight reads from the host's files and from what   *)
(* programs print, for files of any length and any lines.  The induction,  *)
(* folds and sequences that these and the proofs about command lines rest  *)
(* on come first.                                                          *)
(***************************************************************************)
EXTENDS Texts, TLAPS, WellFoundedInduction, SequenceTheorems, FiniteSetTheorems

-----------------------------------------------------------------------------
(* Induction.  The induction theorems of the library take the formula as a *)
(* parameter, which the provers cannot instantiate; a set can be.          *)

LEMMA NatHasLeast ==
  ASSUME NEW T, T \subseteq Nat, T # {}
  PROVE  \E m \in T : \A k \in T : m <= k
<1> DEFINE R == {ss \in Nat \X Nat : ss[1] < ss[2]}
<1>1. IsWellFoundedOn(R, Nat)
  BY NatLessThanWellFounded DEF OpToRel
<1> HIDE DEF R
<1>2. PICK m \in T : \A k \in T : <<k, m>> \notin R
  BY <1>1, WFMin
<1>3. ASSUME NEW k \in T PROVE m <= k
  <2>1. k \in Nat /\ m \in Nat /\ <<k, m>> \notin R
    BY <1>2
  <2>2. ~(k < m)
    BY <2>1 DEF R
  <2>3. QED BY <2>1, <2>2
<1>4. QED BY <1>3

(* A set of numbers with the first one and the next of each holds them all.*)
LEMMA UpTo ==
  ASSUME NEW T, NEW n \in Nat, 0 \in T, \A k \in 0..(n-1) : k \in T => k + 1 \in T
  PROVE  \A k \in 0..n : k \in T
<1> DEFINE Out == {k \in 0..n : k \notin T}
<1>1. SUFFICES ASSUME Out # {} PROVE FALSE
  OBVIOUS
<1>2. PICK m \in Out : \A k \in Out : m <= k
  <2>1. Out \subseteq Nat
    OBVIOUS
  <2>2. QED BY <1>1, <2>1, NatHasLeast
<1>3. m \in 0..n /\ m # 0 /\ m \notin T
  OBVIOUS
<1>4. m - 1 \in 0..(n-1) /\ m - 1 \notin Out
  BY <1>2, <1>3
<1>5. m - 1 \in T /\ (m - 1) + 1 = m
  BY <1>3, <1>4
<1>6. QED BY <1>3, <1>4, <1>5

-----------------------------------------------------------------------------
(* Folding.  FoldLeft is a function on the sets of positions, defined by   *)
(* recursion: that there is one must be proved before it can be used.      *)

IsFold(f, n, X, base, g) ==
  /\ f \in [SUBSET (1..n) -> X]
  /\ \A s \in SUBSET (1..n) :
       f[s] = IF s = {} THEN base ELSE g[<<f[s \ {Max(s)}], Max(s)>>]

LEMMA FoldExists ==
  ASSUME NEW n \in Nat, NEW X, NEW base \in X, NEW g \in [X \X (1..n) -> X]
  PROVE  \E f : IsFold(f, n, X, base, g)
<1> DEFINE T == {k \in 0..n : \E f : IsFold(f, k, X, base, g)}
<1>1. 0 \in T
  <2> DEFINE f == [s \in SUBSET (1..0) |-> base]
  <2>1. \A s \in SUBSET (1..0) : s = {}
    OBVIOUS
  <2>2. IsFold(f, 0, X, base, g)
    BY <2>1 DEF IsFold
  <2> HIDE DEF f
  <2>3. QED BY <2>2
<1>2. ASSUME NEW k \in 0..(n-1), k \in T PROVE k + 1 \in T
  <2>1. PICK f : IsFold(f, k, X, base, g)
    BY <1>2
  <2> DEFINE h == [s \in SUBSET (1..(k+1)) |->
                     IF k+1 \in s THEN g[<<f[s \ {k+1}], k+1>>] ELSE f[s]]
  <2>2. \A s \in SUBSET (1..(k+1)) : /\ s \ {k+1} \in SUBSET (1..k)
                                     /\ k+1 \notin s => s \in SUBSET (1..k)
    OBVIOUS
  <2>3. k+1 \in 1..n
    OBVIOUS
  <2>4. h \in [SUBSET (1..(k+1)) -> X]
    BY <2>1, <2>2, <2>3 DEF IsFold
  <2>5. ASSUME NEW s \in SUBSET (1..(k+1))
        PROVE h[s] = IF s = {} THEN base ELSE g[<<h[s \ {Max(s)}], Max(s)>>]
    <3>1. CASE k+1 \in s
      <4>1. \A y \in s : k+1 >= y
        OBVIOUS
      <4>2. \A x \in s : (\A y \in s : x >= y) => x = k+1
        BY <3>1
      <4>3. Max(s) = k+1
        BY <3>1, <4>1, <4>2 DEF Max
      <4>4. h[s \ {k+1}] = f[s \ {k+1}]
        BY <2>2
      <4>5. QED BY <3>1, <4>3, <4>4
    <3>2. CASE k+1 \notin s
      <4>1. s \in SUBSET (1..k) /\ h[s] = f[s]
        BY <2>2, <3>2
      <4>2. s \ {Max(s)} \in SUBSET (1..k) /\ h[s \ {Max(s)}] = f[s \ {Max(s)}]
        BY <4>1, <3>2
      <4>3. QED BY <2>1, <4>1, <4>2 DEF IsFold
    <3>3. QED BY <3>1, <3>2
  <2>6. IsFold(h, k+1, X, base, g)
    BY <2>4, <2>5 DEF IsFold
  <2>7. k+1 \in 0..n
    OBVIOUS
  <2> HIDE DEF h
  <2>8. QED BY <2>6, <2>7
<1>3. n \in T
  <2> HIDE DEF T
  <2>1. n \in 0..n
    OBVIOUS
  <2>2. QED BY <1>1, <1>2, <2>1, UpTo
<1>4. QED BY <1>3

(* A nonempty set of positions has a least and a greatest one.             *)
LEMMA LeastOf ==
  ASSUME NEW n \in Nat, NEW s \in SUBSET (1..n), s # {}
  PROVE  Min(s) \in s /\ \A y \in s : Min(s) <= y
<1>1. s \subseteq Nat
  OBVIOUS
<1>2. PICK m \in s : \A y \in s : m <= y
  BY <1>1, NatHasLeast
<1>3. \E x \in s : \A y \in s : x <= y
  BY <1>2
<1>4. QED BY <1>3 DEF Min

LEMMA GreatestOf ==
  ASSUME NEW n \in Nat, NEW s \in SUBSET (1..n), s # {}
  PROVE  Max(s) \in s /\ \A y \in s : Max(s) >= y
<1> DEFINE T == {n - x : x \in s}
<1>1. PICK e \in s : TRUE
  OBVIOUS
<1>2. n - e \in T /\ \A x \in s : n - x \in Nat /\ n - x \in T
  OBVIOUS
<1>3. T \subseteq Nat /\ T # {}
  BY <1>2
<1>4. PICK m \in T : \A k \in T : m <= k
  <2> HIDE DEF T
  <2>1. QED BY <1>3, NatHasLeast
<1>5. PICK x \in s : m = n - x
  OBVIOUS
<1>6. ASSUME NEW y \in s PROVE x >= y
  <2>1. n - x <= n - y
    BY <1>2, <1>4, <1>5
  <2>2. x \in Nat /\ y \in Nat
    OBVIOUS
  <2>3. QED BY <2>1, <2>2
<1>7. \E z \in s : \A y \in s : z >= y
  BY <1>6
<1>8. QED BY <1>7 DEF Max

(* The positions up to k are those up to k - 1, and then k.                *)
LEMMA PositionsUpTo ==
  ASSUME NEW n \in Nat
  PROVE  /\ 1..0 = {}
         /\ \A k \in 1..n : /\ 1..k \in SUBSET (1..n) /\ 1..k # {}
                            /\ Max(1..k) = k /\ (1..k) \ {k} = 1..(k-1)
<1>1. 1..0 = {}
  OBVIOUS
<1>2. ASSUME NEW k \in 1..n
      PROVE  /\ 1..k \in SUBSET (1..n) /\ 1..k # {}
             /\ Max(1..k) = k /\ (1..k) \ {k} = 1..(k-1)
  <2>1. 1..k \in SUBSET (1..n) /\ k \in 1..k
    OBVIOUS
  <2>2. Max(1..k) \in 1..k /\ Max(1..k) >= k
    BY <2>1, GreatestOf
  <2>3. Max(1..k) = k
    BY <2>2
  <2>4. (1..k) \ {k} = 1..(k-1)
    OBVIOUS
  <2>5. QED BY <2>1, <2>3, <2>4
<1>3. QED BY <1>1, <1>2

-----------------------------------------------------------------------------
(* Sequences: of whatever they are made, piece by piece and put together.  *)
Sequence(s) == \E S : s \in Seq(S)

LEMMA SequenceBoth ==
  ASSUME NEW one, Sequence(one), NEW two, Sequence(two)
  PROVE  Sequence(one \o two)
<1>1. PICK S, Q : one \in Seq(S) /\ two \in Seq(Q)
  BY DEF Sequence
<1>2. one \in Seq(S \union Q) /\ two \in Seq(S \union Q)
  BY <1>1
<1>3. one \o two \in Seq(S \union Q)
  BY <1>2
<1>4. QED BY <1>3 DEF Sequence

LEMMA OneMorePiece ==
  ASSUME NEW P, NEW start \in Seq(P), NEW text \in Seq(P), NEW k \in 1..Len(text)
  PROVE  start \o SubSeq(text, 1, k) = Append(start \o SubSeq(text, 1, k-1), text[k])
<1> DEFINE left == start \o SubSeq(text, 1, k)
           right == Append(start \o SubSeq(text, 1, k-1), text[k])
<1>1. /\ SubSeq(text, 1, k) \in Seq(P) /\ Len(SubSeq(text, 1, k)) = k
      /\ \A i \in 1..k : SubSeq(text, 1, k)[i] = text[i]
  OBVIOUS
<1>2. /\ SubSeq(text, 1, k-1) \in Seq(P) /\ Len(SubSeq(text, 1, k-1)) = k-1
      /\ \A i \in 1..(k-1) : SubSeq(text, 1, k-1)[i] = text[i]
  OBVIOUS
<1>3. text[k] \in P
  OBVIOUS
<1>4. left \in Seq(P) /\ right \in Seq(P) /\ Len(left) = Len(right)
  BY <1>1, <1>2, <1>3
<1>5. \A i \in 1..Len(left) : left[i] = right[i]
  BY <1>1, <1>2, <1>3
<1> HIDE DEF left, right
<1>6. left = right
  BY <1>4, <1>5, SeqEqual
<1>7. QED BY <1>6 DEF left, right

LEMMA Growing ==
  ASSUME NEW P, NEW text \in Seq(P)
  PROVE  /\ SubSeq(text, 1, 0) = <<>> /\ SubSeq(text, 1, Len(text)) = text
         /\ \A k \in 1..Len(text) : /\ SubSeq(text, 1, k) = Append(SubSeq(text, 1, k-1), text[k])
                                    /\ SubSeq(text, 1, k-1) \in Seq(P) /\ text[k] \in P
<1>1. SubSeq(text, 1, 0) = <<>>
  BY SubSeqEmpty
<1>2. SubSeq(text, 1, Len(text)) = text
  <2> DEFINE all == SubSeq(text, 1, Len(text))
  <2>1. all \in Seq(P) /\ Len(all) = Len(text) /\ \A i \in 1..Len(all) : all[i] = text[i]
    OBVIOUS
  <2> HIDE DEF all
  <2>2. all = text
    BY <2>1, SeqEqual
  <2>3. QED BY <2>2 DEF all
<1>3. ASSUME NEW k \in 1..Len(text)
      PROVE  /\ SubSeq(text, 1, k) = Append(SubSeq(text, 1, k-1), text[k])
             /\ SubSeq(text, 1, k-1) \in Seq(P) /\ text[k] \in P
  <2>1. <<>> \in Seq(P)
    BY EmptySeq
  <2>2. <<>> \o SubSeq(text, 1, k) = Append(<<>> \o SubSeq(text, 1, k-1), text[k])
    BY <2>1, OneMorePiece
  <2>3. SubSeq(text, 1, k) \in Seq(P) /\ SubSeq(text, 1, k-1) \in Seq(P) /\ text[k] \in P
    OBVIOUS
  <2>4. QED BY <2>2, <2>3, ConcatEmptySeq
<1>4. QED BY <1>1, <1>2, <1>3

(* FlattenSeq is a function on the positions, defined by recursion.        *)
IsFlat(f, n, seqs) ==
  f = [i \in 1..n |-> IF i = 1 THEN seqs[i] ELSE f[i-1] \o seqs[i]]

LEMMA FlatExists ==
  ASSUME NEW P, NEW seqs \in Seq(Seq(P)), NEW n \in Nat, n = Len(seqs)
  PROVE  \E f : IsFlat(f, n, seqs)
<1> DEFINE T == {k \in 0..n : \E f : IsFlat(f, k, seqs)}
<1>1. 0 \in T
  <2> DEFINE f == [i \in 1..0 |-> seqs[i]]
  <2>1. IsFlat(f, 0, seqs)
    BY DEF IsFlat
  <2>2. 0 \in 0..n
    OBVIOUS
  <2> HIDE DEF f
  <2>3. QED BY <2>1, <2>2
<1>2. ASSUME NEW k \in 0..(n-1), k \in T PROVE k + 1 \in T
  <2>1. PICK f : IsFlat(f, k, seqs)
    BY <1>2
  <2> DEFINE h == [i \in 1..(k+1) |-> IF i <= k THEN f[i]
                                      ELSE IF i = 1 THEN seqs[i] ELSE f[i-1] \o seqs[i]]
  <2>2. ASSUME NEW i \in 1..(k+1) PROVE h[i] = IF i = 1 THEN seqs[i] ELSE h[i-1] \o seqs[i]
    <3>1. \A j \in 1..k : f[j] = IF j = 1 THEN seqs[j] ELSE f[j-1] \o seqs[j]
      BY <2>1 DEF IsFlat
    <3>2. CASE i = 1
      BY <3>1, <3>2
    <3>3. CASE i # 1
      <4>1. i - 1 \in 1..k /\ i - 1 \in 1..(k+1) /\ h[i-1] = f[i-1]
        BY <3>3
      <4>2. h[i] = f[i-1] \o seqs[i]
        <5>1. CASE i <= k
          <6>1. i \in 1..k /\ h[i] = f[i]
            BY <5>1
          <6>2. f[i] = f[i-1] \o seqs[i]
            BY <3>1, <3>3, <6>1
          <6>3. QED BY <6>1, <6>2
        <5>2. CASE ~(i <= k)
          BY <3>3, <5>2
        <5>3. QED BY <5>1, <5>2
      <4>3. QED BY <3>3, <4>1, <4>2
    <3>4. QED BY <3>2, <3>3
  <2>2a. IsFlat(h, k+1, seqs)
    <3> DEFINE R(i) == IF i = 1 THEN seqs[i] ELSE h[i-1] \o seqs[i]
    <3>1. h = [i \in 1..(k+1) |-> h[i]]
      OBVIOUS
    <3> HIDE DEF h
    <3>2. [i \in 1..(k+1) |-> h[i]] = [i \in 1..(k+1) |-> R(i)]
      BY <2>2
    <3>3. QED BY <3>1, <3>2 DEF IsFlat
  <2>3. k + 1 \in 0..n
    OBVIOUS
  <2> HIDE DEF h
  <2>4. QED BY <2>2a, <2>3
<1>3. n \in 0..n
  OBVIOUS
<1>4. n \in T
  <2> HIDE DEF T
  <2>1. QED BY <1>1, <1>2, <1>3, UpTo
<1>5. QED BY <1>4

(* The sequences are put together one after another.                       *)
Flattens(flat, n, seqs, P) ==
  /\ \A i \in 1..n : flat[i] \in Seq(P)
  /\ flat[1] = seqs[1]
  /\ \A i \in 2..n : flat[i] = flat[i-1] \o seqs[i]
  /\ FlattenSeq(seqs) = flat[n]

LEMMA FlattenSteps ==
  ASSUME NEW P, NEW seqs \in Seq(Seq(P)), NEW n \in Nat, n = Len(seqs), n # 0
  PROVE  \E flat : Flattens(flat, n, seqs, P)
<1> DEFINE flat == CHOOSE f : IsFlat(f, n, seqs)
<1>1. IsFlat(flat, n, seqs)
  BY FlatExists
<1>2. FlattenSeq(seqs) = flat[n]
  BY DEF FlattenSeq, IsFlat
<1> HIDE DEF flat
<1>3. flat[1] = seqs[1]
  BY <1>1 DEF IsFlat
<1>4. ASSUME NEW i \in 2..n PROVE flat[i] = flat[i-1] \o seqs[i]
  <2>1. i \in 1..n /\ i # 1
    OBVIOUS
  <2>2. QED BY <1>1, <2>1 DEF IsFlat
<1> DEFINE T == {k \in 0..(n-1) : flat[k+1] \in Seq(P)}
<1>5. 0 \in T
  BY <1>3
<1>6. ASSUME NEW k \in 0..((n-1)-1), k \in T PROVE k + 1 \in T
  <2>1. (k+1) + 1 \in 2..n /\ ((k+1) + 1) - 1 = k + 1 /\ k + 1 \in 0..(n-1)
    OBVIOUS
  <2>2. flat[(k+1)+1] = flat[k+1] \o seqs[(k+1)+1]
    BY <1>4, <2>1
  <2>3. flat[k+1] \in Seq(P) /\ seqs[(k+1)+1] \in Seq(P)
    BY <1>6, <2>1
  <2>4. flat[(k+1)+1] \in Seq(P)
    BY <2>2, <2>3, ConcatProperties
  <2>5. QED BY <2>1, <2>4
<1>7. \A k \in 0..(n-1) : k \in T
  <2>1. n - 1 \in Nat
    OBVIOUS
  <2> HIDE DEF T
  <2>2. QED BY <1>5, <1>6, <2>1, UpTo
<1>8. ASSUME NEW i \in 1..n PROVE flat[i] \in Seq(P)
  <2>1. i - 1 \in 0..(n-1) /\ (i - 1) + 1 = i
    OBVIOUS
  <2>2. QED BY <1>7, <2>1
<1>9. QED BY <1>2, <1>3, <1>4, <1>8 DEF Flattens

-----------------------------------------------------------------------------
(* parse_cpuinfo.                                                          *)

(* What the parser knows of the CPU after some of the lines.               *)
CpuStates(lines) ==
  [model : {<<Nothing>>} \union {lines[i].words : i \in DOMAIN lines},
   logical_cores : Nat,
   virt : {Nothing} \union {VirtOf(lines[i].words) : i \in DOMAIN lines}]

LEMMA CpuLineType ==
  ASSUME NEW lines, NEW cpu \in CpuStates(lines), NEW i \in DOMAIN lines
  PROVE  CpuLine(cpu, lines[i]) \in CpuStates(lines)
<1> DEFINE M == {<<Nothing>>} \union {lines[j].words : j \in DOMAIN lines}
           V == {Nothing} \union {VirtOf(lines[j].words) : j \in DOMAIN lines}
           line == lines[i]
<1>1. /\ cpu = [model |-> cpu.model, logical_cores |-> cpu.logical_cores, virt |-> cpu.virt]
      /\ cpu.model \in M /\ cpu.virt \in V
      /\ cpu.logical_cores \in Nat /\ cpu.logical_cores + 1 \in Nat
      /\ CpuStates(lines) = [model : M, logical_cores : Nat, virt : V]
  BY DEF CpuStates
<1>2. line.words \in M /\ VirtOf(line.words) \in V
  OBVIOUS
<1> HIDE DEF M, V, line
<1>3. CASE line.key = "processor"
  BY <1>1, <1>2, <1>3 DEF CpuLine, line
<1>4. CASE line.key = "model name"
  BY <1>1, <1>2, <1>4 DEF CpuLine, line
<1>5. CASE line.key \in {"flags", "Features"}
  BY <1>1, <1>2, <1>5 DEF CpuLine, line
<1>6. CASE line.key \notin {"processor", "model name", "flags", "Features"}
  BY <1>1, <1>6 DEF CpuLine, line
<1>7. QED BY <1>3, <1>4, <1>5, <1>6

(* The file is read line by line, from the first to the last.              *)
ReadsCpu(acc, lines) ==
  /\ acc \in [0..Len(lines) -> CpuStates(lines)]
  /\ acc[0] = NoCpu
  /\ \A k \in 1..Len(lines) : acc[k] = CpuLine(acc[k-1], lines[k])

LEMMA CpuSteps ==
  ASSUME NEW S, NEW lines \in Seq(S)
  PROVE  \E acc : ReadsCpu(acc, lines) /\ ParseCpuinfo(lines) = acc[Len(lines)]
<1> SUFFICES ASSUME NEW n \in Nat, n = Len(lines)
             PROVE  \E acc : ReadsCpu(acc, lines) /\ ParseCpuinfo(lines) = acc[n]
  OBVIOUS
<1> DEFINE Def(f) == [s \in SUBSET (1..n) |->
                        IF s = {} THEN NoCpu ELSE CpuLine(f[s \ {Max(s)}], lines[Max(s)])]
           F == CHOOSE f : f = Def(f)
           X == CpuStates(lines)
<1>1. DOMAIN lines = 1..n
  OBVIOUS
<1>2. NoCpu \in X
  BY DEF NoCpu, CpuStates
<1>3. F = Def(F)
  <2> DEFINE g == [p \in X \X (1..n) |-> CpuLine(p[1], lines[p[2]])]
  <2>1. g \in [X \X (1..n) -> X]
    BY <1>1, CpuLineType
  <2> HIDE DEF X
  <2>2. PICK f : IsFold(f, n, X, NoCpu, g)
    <3> HIDE DEF g
    <3>1. QED BY <1>2, <2>1, FoldExists
  <2>3. ASSUME NEW s \in SUBSET (1..n), s # {}
        PROVE  f[s] = CpuLine(f[s \ {Max(s)}], lines[Max(s)])
    <3>1. Max(s) \in 1..n
      BY <2>3, GreatestOf
    <3>2. f[s \ {Max(s)}] \in X
      BY <2>2 DEF IsFold
    <3>3. QED BY <2>2, <2>3, <3>1, <3>2 DEF IsFold
  <2>4. f = Def(f)
    BY <2>2, <2>3 DEF IsFold
  <2> HIDE DEF Def
  <2>5. QED BY <2>4
<1>4. ParseCpuinfo(lines) = F[1..n]
  BY <1>1 DEF ParseCpuinfo, FoldLeft, MapThenFoldSet
<1> DEFINE acc == [k \in 0..n |-> F[1..k]]
<1> HIDE DEF F
<1>5. acc[0] = NoCpu
  <2>1. {} \in SUBSET (1..n) /\ 1..0 = {}
    OBVIOUS
  <2>2. F[{}] = NoCpu
    BY <1>3, <2>1
  <2>3. 0 \in 0..n
    OBVIOUS
  <2>4. QED BY <2>1, <2>2, <2>3
<1>6. ASSUME NEW k \in 1..n PROVE acc[k] = CpuLine(acc[k-1], lines[k])
  <2>1. /\ 1..k \in SUBSET (1..n) /\ 1..k # {}
        /\ Max(1..k) = k /\ (1..k) \ {k} = 1..(k-1)
    BY PositionsUpTo
  <2>2. F[1..k] = CpuLine(F[1..(k-1)], lines[k])
    BY <1>3, <2>1
  <2>3. k \in 0..n /\ k-1 \in 0..n
    OBVIOUS
  <2>4. QED BY <2>2, <2>3
<1>7. ParseCpuinfo(lines) = acc[n]
  BY <1>4
<1>8. \A k \in 0..n : acc[k] \in X
  <2> DEFINE T == {k \in 0..n : acc[k] \in X}
  <2>1. 0 \in T
    BY <1>2, <1>5
  <2>2. ASSUME NEW k \in 0..(n-1), k \in T PROVE k + 1 \in T
    <3>1. k + 1 \in 1..n /\ k + 1 \in 0..n /\ (k + 1) - 1 = k
      OBVIOUS
    <3>2. acc[k+1] = CpuLine(acc[k], lines[k+1])
      BY <1>6, <3>1
    <3>3. acc[k] \in X
      BY <2>2
    <3> HIDE DEF acc
    <3>4. acc[k+1] \in X
      BY <1>1, <3>1, <3>2, <3>3, CpuLineType
    <3>5. QED BY <3>1, <3>4
  <2> HIDE DEF T
  <2>3. \A k \in 0..n : k \in T
    BY <2>1, <2>2, UpTo
  <2>4. QED BY <2>3 DEF T
<1>9. acc = [k \in 0..n |-> acc[k]]
  OBVIOUS
<1> HIDE DEF acc, X
<1>10. acc \in [0..n -> X]
  BY <1>8, <1>9
<1>11. ReadsCpu(acc, lines)
  BY <1>5, <1>6, <1>10 DEF ReadsCpu, X
<1>12. QED BY <1>7, <1>11

(* An extension is found in a list of words exactly when it is one of them.*)
LEMMA VirtOfWords ==
  ASSUME NEW S, NEW words \in Seq(S)
  PROVE  /\ VirtOf(words) # Nothing <=> {"vmx", "svm"} \intersect ToSet(words) # {}
         /\ VirtOf(words) \in {"vmx", "svm", Nothing}
         /\ VirtOf(words) # Nothing => VirtOf(words) \in ToSet(words)
<1> DEFINE I == {i \in 1..Len(words) : words[i] \in {"vmx", "svm"}}
<1>1. Len(words) \in Nat /\ DOMAIN words = 1..Len(words)
  OBVIOUS
<1>2. CASE I = {}
  BY <1>1, <1>2 DEF VirtOf, FirstThat, SelectInSeq, ToSet
<1>3. CASE I # {}
  <2>1. Min(I) \in I
    BY <1>1, <1>3, LeastOf
  <2>2. /\ Min(I) # 0 /\ Min(I) \in DOMAIN words
        /\ words[Min(I)] \in {"vmx", "svm"} /\ words[Min(I)] \in ToSet(words)
    <3>1. \A i \in I : i # 0 /\ i \in DOMAIN words /\ words[i] \in {"vmx", "svm"}
      BY <1>1
    <3>2. \A i \in I : words[i] \in ToSet(words)
      BY <3>1 DEF ToSet
    <3> HIDE DEF I
    <3>3. QED BY <2>1, <3>1, <3>2
  <2>3. VirtOf(words) = words[Min(I)]
    BY <1>3, <2>2 DEF VirtOf, FirstThat, SelectInSeq
  <2>4. QED BY <2>2, <2>3 DEF Nothing
<1>4. QED BY <1>2, <1>3

(* Of the first k lines: those a processor starts with, and the extensions *)
(* they list.                                                              *)
ProcessorLines(lines, k) == {i \in 1..k : lines[i].key = "processor"}

ListedIn(lines, k) == UNION {Extensions(lines[i]) : i \in 1..k}

(* Every line read tells of itself: what is found is one of the extensions *)
(* the lines read list, if there are any, and the cores are the processor  *)
(* lines read.                                                             *)
LEMMA CpuCounted ==
  ASSUME NEW S, NEW lines \in Seq(S), NEW acc, ReadsCpu(acc, lines),
         \A i \in DOMAIN lines : \E W : lines[i].words \in Seq(W)
  PROVE  \A k \in 0..Len(lines) :
           /\ acc[k].virt \in ListedIn(lines, k) \union {Nothing}
           /\ ListedIn(lines, k) # {} => acc[k].virt # Nothing
           /\ IsFiniteSet(ProcessorLines(lines, k))
           /\ acc[k].logical_cores = Cardinality(ProcessorLines(lines, k))
<1> DEFINE P(k) == ProcessorLines(lines, k)
           L(k) == ListedIn(lines, k)
           T == {k \in 0..Len(lines) : /\ acc[k].virt \in L(k) \union {Nothing}
                                       /\ L(k) # {} => acc[k].virt # Nothing
                                       /\ IsFiniteSet(P(k))
                                       /\ acc[k].logical_cores = Cardinality(P(k))}
<1>1. 0 \in T
  <2>1. P(0) = {} /\ L(0) = {}
    BY DEF ProcessorLines, ListedIn
  <2>2. acc[0] = NoCpu
    BY DEF ReadsCpu
  <2> HIDE DEF P, L
  <2>3. IsFiniteSet(P(0)) /\ Cardinality(P(0)) = 0
    BY <2>1, FS_EmptySet
  <2>4. QED BY <2>1, <2>2, <2>3 DEF NoCpu
<1>2. ASSUME NEW k \in 0..(Len(lines)-1), k \in T PROVE k + 1 \in T
  <2> DEFINE line == lines[k+1]
             cpu == acc[k]
  <2>1. k + 1 \in 1..Len(lines) /\ (k + 1) - 1 = k /\ k \in 0..Len(lines)
        /\ k + 1 \in 0..Len(lines)
    OBVIOUS
  <2>2. acc[k+1] = CpuLine(cpu, line)
    BY <2>1 DEF ReadsCpu
  <2>3. cpu \in CpuStates(lines) /\ k + 1 \in DOMAIN lines
    BY <2>1 DEF ReadsCpu
  <2>4. cpu = [model |-> cpu.model, logical_cores |-> cpu.logical_cores, virt |-> cpu.virt]
        /\ cpu.logical_cores \in Nat
    BY <2>3 DEF CpuStates
  <2>5. /\ VirtOf(line.words) # Nothing <=> {"vmx", "svm"} \intersect ToSet(line.words) # {}
        /\ VirtOf(line.words) \in ({"vmx", "svm"} \intersect ToSet(line.words)) \union {Nothing}
    BY <2>3, VirtOfWords
  <2>6. 1..(k+1) = (1..k) \union {k+1}
    BY <2>1
  <2>7. L(k+1) = L(k) \union Extensions(line)
    BY <2>6 DEF ListedIn
  <2>8. k + 1 \notin P(k)
    BY DEF ProcessorLines
  <2>9. /\ IsFiniteSet(P(k)) /\ cpu.logical_cores = Cardinality(P(k))
        /\ cpu.virt \in L(k) \union {Nothing}
        /\ L(k) # {} => cpu.virt # Nothing
    BY <1>2
  <2>10. IsFiniteSet(P(k) \union {k+1}) /\ Cardinality(P(k) \union {k+1}) = Cardinality(P(k)) + 1
    <3> HIDE DEF P
    <3>1. QED BY <2>8, <2>9, FS_AddElement
  <2>11. P(k+1) = IF line.key = "processor" THEN P(k) \union {k+1} ELSE P(k)
    BY <2>6 DEF ProcessorLines
  <2> HIDE DEF P, L, line, cpu
  <2>12. /\ IsFiniteSet(P(k+1))
         /\ acc[k+1].logical_cores = Cardinality(P(k+1))
    <3>1. CASE line.key = "processor"
      BY <2>2, <2>4, <2>9, <2>10, <2>11, <3>1 DEF CpuLine
    <3>2. CASE line.key # "processor"
      <4>1. acc[k+1].logical_cores = cpu.logical_cores
        BY <2>2, <2>4, <3>2 DEF CpuLine
      <4>2. QED BY <2>9, <2>11, <3>2, <4>1
    <3>3. QED BY <3>1, <3>2
  <2>13. /\ acc[k+1].virt \in L(k+1) \union {Nothing}
         /\ L(k+1) # {} => acc[k+1].virt # Nothing
    <3>1. CASE line.key \in {"flags", "Features"} /\ cpu.virt = Nothing
      <4>1. acc[k+1].virt = VirtOf(line.words)
        BY <2>2, <2>4, <3>1 DEF CpuLine
      <4>2. Extensions(line) = {"vmx", "svm"} \intersect ToSet(line.words)
        BY <3>1 DEF Extensions
      <4>3. L(k) = {}
        BY <2>9, <3>1
      <4>4. QED BY <2>5, <2>7, <4>1, <4>2, <4>3
    <3>2. CASE line.key \in {"flags", "Features"} /\ cpu.virt # Nothing
      <4>1. acc[k+1].virt = cpu.virt
        BY <2>2, <2>4, <3>2 DEF CpuLine
      <4>2. QED BY <2>7, <2>9, <3>2, <4>1
    <3>3. CASE line.key \notin {"flags", "Features"}
      <4>1. acc[k+1].virt = cpu.virt
        BY <2>2, <2>4, <3>3 DEF CpuLine
      <4>2. Extensions(line) = {}
        BY <3>3 DEF Extensions
      <4>3. QED BY <2>7, <2>9, <4>1, <4>2
    <3>4. QED BY <3>1, <3>2, <3>3
  <2>14. QED BY <2>1, <2>12, <2>13
<1>3. \A k \in 0..Len(lines) : k \in T
  <2> HIDE DEF T
  <2>1. Len(lines) \in Nat
    OBVIOUS
  <2>2. QED BY <1>1, <1>2, <2>1, UpTo
<1>4. QED BY <1>3

(* What is known stays as it is, whatever is read after it.                *)
LEMMA CpuStays ==
  ASSUME NEW S, NEW lines \in Seq(S), NEW acc, ReadsCpu(acc, lines),
         NEW m \in 0..Len(lines)
  PROVE  /\ acc[m].model # <<Nothing>> => acc[Len(lines)].model = acc[m].model
         /\ acc[m].virt # Nothing => acc[Len(lines)].virt = acc[m].virt
<1> DEFINE Known(k) == /\ acc[m].model # <<Nothing>> => acc[k].model = acc[m].model
                       /\ acc[m].virt # Nothing => acc[k].virt = acc[m].virt
           rest == Len(lines) - m
           T == {j \in 0..rest : Known(m + j)}
<1>1. 0 \in T
  OBVIOUS
<1>2. ASSUME NEW j \in 0..(rest-1), j \in T PROVE j + 1 \in T
  <2> DEFINE k == m + j
  <2>1. k + 1 \in 1..Len(lines) /\ (k + 1) - 1 = k /\ k \in 0..Len(lines)
        /\ m + (j + 1) = k + 1 /\ j + 1 \in 0..rest
    OBVIOUS
  <2>2. acc[k+1] = CpuLine(acc[k], lines[k+1]) /\ acc[k] \in CpuStates(lines)
    BY <2>1 DEF ReadsCpu
  <2>3. acc[k] = [model |-> acc[k].model, logical_cores |-> acc[k].logical_cores,
                  virt |-> acc[k].virt]
    BY <2>2 DEF CpuStates
  <2>4. Known(k)
    BY <1>2
  <2>5. acc[k+1].model = acc[k].model \/ acc[k].model = <<Nothing>>
    BY <2>2, <2>3 DEF CpuLine
  <2>6. acc[k+1].virt = acc[k].virt \/ acc[k].virt = Nothing
    BY <2>2, <2>3 DEF CpuLine
  <2> HIDE DEF k
  <2>7. Known(k+1)
    BY <2>4, <2>5, <2>6
  <2>8. QED BY <2>1, <2>7
<1>3. rest \in Nat /\ m + rest = Len(lines) /\ rest \in 0..rest
  OBVIOUS
<1>4. \A j \in 0..rest : j \in T
  <2> HIDE DEF T, rest
  <2>1. QED BY <1>1, <1>2, <1>3, UpTo
<1>5. rest \in T
  BY <1>3, <1>4
<1>6. QED BY <1>3, <1>5

-----------------------------------------------------------------------------
(* What the input can be.                                                  *)
FileKinds == {"cpuinfo", "group", "meminfo", "version", "path"}

Vms == [kind : {"vm"}, directory : Names,
        config : [name : Names, cpus : {"cpus"}, memory_mib : {"memory"},
                  iso : Isos \union {NoIso}, tpm : BOOLEAN],
        host : [kvm : Kvms \union {"device_missing"}, files : FirmwareSets],
        env : Envs]

FilesRead(kind) == [kind : {kind}, lines : Seq(LinesOf(kind))]

InputOK ==
  \/ input \in Vms
  \/ input \in [kind : {"name"}, text : Seq(NamePieces)]
  \/ \E kind \in FileKinds : input \in FilesRead(kind)
  \/ input = [kind |-> "os_release", lines |-> input.lines, meant |-> input.meant]

LEMMA InputKinds ==
  ASSUME InputOK
  PROVE  /\ input.kind \in FileKinds \union {"vm", "name", "os_release"}
         /\ input.kind = "vm" <=> input \in Vms
         /\ input.kind = "name" <=> input \in [kind : {"name"}, text : Seq(NamePieces)]
         /\ input.kind \in FileKinds => input \in FilesRead(input.kind)
         /\ input.kind = "os_release" =>
              input = [kind |-> "os_release", lines |-> input.lines, meant |-> input.meant]
<1>1. CASE input \in Vms
  BY <1>1 DEF Vms, FileKinds
<1>2. CASE input \in [kind : {"name"}, text : Seq(NamePieces)]
  BY <1>2 DEF Vms, FileKinds
<1>3. ASSUME NEW kind \in FileKinds, input \in FilesRead(kind) PROVE input.kind = kind
  BY <1>3 DEF FilesRead
<1>4. CASE \E kind \in FileKinds : input \in FilesRead(kind)
  BY <1>3, <1>4 DEF Vms, FileKinds
<1>5. CASE input = [kind |-> "os_release", lines |-> input.lines, meant |-> input.meant]
  BY <1>5 DEF Vms, FileKinds
<1>6. QED BY <1>1, <1>2, <1>4, <1>5 DEF InputOK

(* Every text a user or a system can make is one the program can be given. *)
THEOREM TextsTyped == Spec => []InputOK
<1>1. Init => InputOK
  <2> SUFFICES ASSUME Init PROVE InputOK
    OBVIOUS
  <2>1. CASE \E directory, name \in Names, files \in FirmwareSets, env \in Envs :
               input = Vm(directory, name, NoIso, TRUE, "device_missing", files, env)
    BY <2>1 DEF InputOK, Vms, Vm
  <2>2. CASE input = [kind |-> "name", text |-> <<>>]
    BY <2>2 DEF InputOK
  <2>3. CASE \E kind \in FileKinds : input = [kind |-> kind, lines |-> <<>>]
    BY <2>3 DEF InputOK, FilesRead
  <2>4. CASE input = [kind |-> "os_release", lines |-> <<>>, meant |-> NoOsRelease]
    BY <2>4 DEF InputOK
  <2>5. QED BY <2>1, <2>2, <2>3, <2>4 DEF Init, FileKinds
<1>2. InputOK /\ [Next]_input => InputOK'
  <2> SUFFICES ASSUME InputOK, [Next]_input PROVE InputOK'
    OBVIOUS
  <2>1. CASE Edit
    <3>1. input \in Vms
      BY <2>1, InputKinds DEF Edit
    <3>2. ASSUME NEW iso \in Isos, input' = [input EXCEPT !.config.iso = iso] PROVE input' \in Vms
      BY <3>1, <3>2 DEF Vms
    <3>3. ASSUME NEW tpm \in BOOLEAN, input' = [input EXCEPT !.config.tpm = tpm] PROVE input' \in Vms
      BY <3>1, <3>3 DEF Vms
    <3>4. ASSUME NEW kvm \in Kvms, input' = [input EXCEPT !.host.kvm = kvm] PROVE input' \in Vms
      BY <3>1, <3>4 DEF Vms
    <3>5. ASSUME NEW files \in FirmwareSets, input' = [input EXCEPT !.host.files = files]
          PROVE  input' \in Vms
      BY <3>1, <3>5 DEF Vms
    <3>6. QED BY <2>1, <3>2, <3>3, <3>4, <3>5 DEF Edit, EditConfig, EditHost, InputOK, Vms
  <2>2. CASE Type
    <3>1. input \in [kind : {"name"}, text : Seq(NamePieces)]
      BY <2>2, InputKinds DEF Type
    <3>2. PICK piece \in NamePieces : input' = [input EXCEPT !.text = Append(@, piece)]
      BY <2>2 DEF Type
    <3>3. Append(input.text, piece) \in Seq(NamePieces)
      BY <3>1
    <3>4. input' \in [kind : {"name"}, text : Seq(NamePieces)]
      BY <3>1, <3>2, <3>3
    <3>5. QED BY <3>4 DEF InputOK
  <2>3. CASE Grow
    <3>1. input.kind \in FileKinds /\ input \in FilesRead(input.kind)
      BY <2>3, InputKinds DEF Grow, FileKinds
    <3>2. PICK line \in LinesOf(input.kind) : input' = [input EXCEPT !.lines = Append(@, line)]
      BY <2>3 DEF Grow
    <3>3. Append(input.lines, line) \in Seq(LinesOf(input.kind))
      BY <3>1, <3>2 DEF FilesRead
    <3>4. input' \in FilesRead(input.kind)
      BY <3>1, <3>2, <3>3 DEF FilesRead
    <3>5. QED BY <3>1, <3>4 DEF InputOK, FilesRead
  <2>4. CASE Assign
    <3>1. input = [kind |-> "os_release", lines |-> input.lines, meant |-> input.meant]
      BY <2>4, InputKinds DEF Assign
    <3>2. PICK lines, meant : input' = [input EXCEPT !.lines = lines, !.meant = meant]
      BY <2>4 DEF Assign
    <3> DEFINE before == [kind |-> "os_release", lines |-> input.lines, meant |-> input.meant]
    <3>3. input' = [before EXCEPT !.lines = lines, !.meant = meant]
      BY <3>1, <3>2
    <3>4. input' = [kind |-> "os_release", lines |-> lines, meant |-> meant]
      BY <3>3
    <3>5. input' = [kind |-> "os_release", lines |-> input'.lines, meant |-> input'.meant]
      BY <3>4
    <3>6. QED BY <3>5 DEF InputOK
  <2>5. CASE UNCHANGED input
    BY <2>5 DEF InputOK, FilesRead, Vms
  <2>6. QED BY <2>1, <2>2, <2>3, <2>4, <2>5 DEF Next
<1>3. QED BY <1>1, <1>2, PTL DEF Spec

-----------------------------------------------------------------------------
(* Of a /proc/cpuinfo of any length, an extension the first processor      *)
(* block lists is found, nothing is found that no flags line lists, and    *)
(* every block counts as a core (parse_cpuinfo).                           *)
THEOREM CpuIsFound == Spec => []CpuFound
<1>1. InputOK => CpuFound
  <2> SUFFICES ASSUME InputOK, input.kind = "cpuinfo" PROVE CpuFound
    BY DEF CpuFound
  <2> DEFINE lines == input.lines
             n == Len(lines)
             cpu == ParseCpuinfo(lines)
             First == {i \in DOMAIN lines : Cardinality(Processors(1..i)) <= 1}
  <2>1. lines \in Seq(CpuLines)
    BY InputKinds DEF FileKinds, FilesRead, LinesOf
  <2>2. ASSUME NEW i \in DOMAIN lines PROVE \E W : lines[i].words \in Seq(W)
    <3>1. lines[i] \in CpuLines
      BY <2>1
    <3>2. lines[i].words \in Seq(ToSet(lines[i].words))
      BY <3>1, CpuLinesAssumption
    <3>3. QED BY <3>2
  <2>3. PICK acc : ReadsCpu(acc, lines) /\ cpu = acc[n]
    BY <2>1, CpuSteps
  <2>4. n \in Nat /\ n \in 0..n /\ DOMAIN lines = 1..n
    BY <2>1
  <2>5. \A k : Processors(1..k) = ProcessorLines(lines, k) /\ ExtensionsOn(1..k) = ListedIn(lines, k)
    BY DEF Processors, ProcessorLines, ExtensionsOn, ListedIn
  <2>6. \A k \in 0..n : /\ acc[k].virt \in ExtensionsOn(1..k) \union {Nothing}
                        /\ ExtensionsOn(1..k) # {} => acc[k].virt # Nothing
                        /\ IsFiniteSet(Processors(1..k))
                        /\ acc[k].logical_cores = Cardinality(Processors(1..k))
    BY <2>1, <2>2, <2>3, <2>5, CpuCounted
  <2>7. /\ cpu.virt \in ExtensionsOn(DOMAIN lines) \union {Nothing}
        /\ cpu.logical_cores = Cardinality(Processors(DOMAIN lines))
    BY <2>3, <2>4, <2>6
  <2>8. ASSUME NEW i \in First, Extensions(lines[i]) # {} PROVE cpu.virt \in ExtensionsOn(First)
    <3>1. i \in 1..n /\ i \in 0..n /\ Cardinality(Processors(1..i)) <= 1
      BY <2>4
    <3>2. ExtensionsOn(1..i) # {}
      <4>1. i \in 1..i
        BY <3>1
      <4>2. Extensions(input.lines[i]) \subseteq ExtensionsOn(1..i)
        BY <4>1 DEF ExtensionsOn
      <4>3. QED BY <2>8, <4>2
    <3>3. acc[i].virt # Nothing /\ acc[i].virt \in ExtensionsOn(1..i)
      BY <2>6, <3>1, <3>2
    <3>4. PICK j \in 1..i : acc[i].virt \in Extensions(lines[j])
      BY <3>3 DEF ExtensionsOn
    <3>5. j \in 0..n /\ j \in DOMAIN lines
      BY <2>4, <3>1
    <3>6. Processors(1..j) \subseteq Processors(1..i)
      BY <3>1 DEF Processors
    <3>7. /\ Cardinality(Processors(1..j)) <= Cardinality(Processors(1..i))
          /\ Cardinality(Processors(1..j)) \in Nat /\ Cardinality(Processors(1..i)) \in Nat
      BY <2>6, <3>1, <3>5, <3>6, FS_Subset, FS_CardinalityType
    <3>8. j \in First
      BY <3>1, <3>5, <3>7
    <3>9. cpu.virt = acc[i].virt
      BY <2>1, <2>3, <3>1, <3>3, CpuStays
    <3>10. QED BY <3>4, <3>8, <3>9 DEF ExtensionsOn
  <2>9. ExtensionsOn(First) # {} => cpu.virt \in ExtensionsOn(First)
    BY <2>8 DEF ExtensionsOn
  <2>10. QED BY <2>7, <2>9 DEF CpuFound
<1>2. QED BY <1>1, TextsTyped, PTL

-----------------------------------------------------------------------------
(* The first of the lines that pass a test, in a file and in its beginning.*)
LEMMA FirstOfPrefix ==
  ASSUME NEW n \in Nat, NEW I \in SUBSET (1..n), NEW m \in Nat,
         I \intersect (1..m) # {}
  PROVE  Min(I \intersect (1..m)) = Min(I)
<1> DEFINE J == I \intersect (1..m)
<1>1. J \in SUBSET (1..n) /\ I # {} /\ J # {}
  OBVIOUS
<1>2. /\ Min(J) \in J /\ \A y \in J : Min(J) <= y
      /\ Min(I) \in I /\ \A y \in I : Min(I) <= y
  <2> HIDE DEF J
  <2>1. QED BY <1>1, LeastOf
<1>3. Min(J) \in I /\ Min(J) <= m /\ Min(I) \in 1..n /\ Min(J) \in 1..n
  <2>1. \A y \in J : y \in I /\ y <= m /\ y \in 1..n
    OBVIOUS
  <2>2. \A y \in I : y \in 1..n
    OBVIOUS
  <2> HIDE DEF J
  <2>3. QED BY <1>2, <2>1, <2>2
<1>4. Min(I) <= Min(J)
  BY <1>2, <1>3
<1>5. Min(I) \in J
  BY <1>2, <1>3, <1>4
<1>6. Min(J) <= Min(I)
  BY <1>2, <1>5
<1>7. Min(J) = Min(I)
  BY <1>3, <1>4, <1>6
<1>8. QED BY <1>7

(* The lines of /etc/group that have a gid, and what the parser makes of   *)
(* them: the group of the first.                                           *)
OfGid(lines, gid) == {i \in 1..Len(lines) : GidOf(lines[i]) = gid}

LEMMA GroupNamed ==
  ASSUME NEW S, NEW lines \in Seq(S), NEW gid
  PROVE  ParseGroupName(lines, gid) =
           IF OfGid(lines, gid) = {} THEN <<Nothing>> ELSE lines[Min(OfGid(lines, gid))][1]
<1> DEFINE I == OfGid(lines, gid)
<1>1. CASE I = {}
  BY <1>1 DEF ParseGroupName, FirstThat, SelectInSeq, OfGid
<1>2. CASE I # {}
  <2>1. I \in SUBSET (1..Len(lines)) /\ Len(lines) \in Nat
    BY DEF OfGid
  <2>2. Min(I) \in I
    <3> HIDE DEF I
    <3>1. QED BY <1>2, <2>1, LeastOf
  <2>3. Min(I) # 0
    BY <2>1, <2>2
  <2>4. QED BY <1>2, <2>3 DEF ParseGroupName, FirstThat, SelectInSeq, OfGid
<1>3. QED BY <1>1, <1>2

(* The group the KVM advice names is the one that owns the device, in an   *)
(* /etc/group of any length (parse_group_name).                            *)
THEOREM GroupIsFound == Spec => []GroupFound
<1>1. InputOK => GroupFound
  <2> SUFFICES ASSUME InputOK, input.kind = "group" PROVE GroupFound
    BY DEF GroupFound
  <2> DEFINE lines == input.lines
  <2>1. lines \in Seq(GroupLines)
    BY InputKinds DEF FileKinds, FilesRead, LinesOf
  <2> SUFFICES ASSUME NEW i \in DOMAIN lines
               PROVE  LET gid == GidOf(lines[i])
                      IN \E j \in DOMAIN lines : /\ GidOf(lines[j]) = gid
                                                 /\ ParseGroupName(lines, gid) = lines[j][1]
    BY DEF GroupFound
  <2> DEFINE gid == GidOf(lines[i])
             I == OfGid(lines, gid)
  <2>2. /\ i \in I /\ DOMAIN lines = 1..Len(lines)
        /\ I \in SUBSET (1..Len(lines)) /\ Len(lines) \in Nat
    BY <2>1 DEF OfGid
  <2>3. Min(I) \in I
    <3> HIDE DEF I
    <3>1. QED BY <2>2, LeastOf
  <2>4. Min(I) \in DOMAIN lines /\ GidOf(lines[Min(I)]) = gid
    BY <2>2, <2>3 DEF OfGid
  <2>5. ParseGroupName(lines, gid) = lines[Min(I)][1]
    BY <2>1, <2>2, GroupNamed
  <2>6. QED BY <2>4, <2>5
<1>2. QED BY <1>1, TextsTyped, PTL

-----------------------------------------------------------------------------
(* A file and its first lines.                                             *)
LEMMA Beginning ==
  ASSUME NEW S, NEW lines \in Seq(S), NEW n \in 0..Len(lines)
  PROVE  /\ SubSeq(lines, 1, n) \in Seq(S) /\ Len(SubSeq(lines, 1, n)) = n
         /\ n \in Nat /\ Len(lines) \in Nat
         /\ \A i \in 1..n : /\ SubSeq(lines, 1, n)[i] = lines[i]
                            /\ i \in 1..Len(lines)
OBVIOUS

LEMMA CpuOfBeginning ==
  ASSUME NEW S, NEW lines \in Seq(S), NEW n \in 0..Len(lines),
         NEW acc, ReadsCpu(acc, lines)
  PROVE  ParseCpuinfo(SubSeq(lines, 1, n)) = acc[n]
<1> DEFINE first == SubSeq(lines, 1, n)
<1>1. /\ first \in Seq(S) /\ Len(first) = n /\ n \in Nat
      /\ \A i \in 1..n : first[i] = lines[i] /\ i \in 1..Len(lines)
  BY Beginning
<1> HIDE DEF first
<1>2. PICK other : ReadsCpu(other, first) /\ ParseCpuinfo(first) = other[n]
  BY <1>1, CpuSteps
<1> DEFINE T == {k \in 0..n : other[k] = acc[k]}
<1>3. 0 \in T
  BY <1>1, <1>2 DEF ReadsCpu
<1>4. ASSUME NEW k \in 0..(n-1), k \in T PROVE k + 1 \in T
  <2>1. k + 1 \in 1..n /\ (k + 1) - 1 = k /\ k + 1 \in 0..n
    BY <1>1
  <2>2. other[k+1] = CpuLine(other[k], lines[k+1]) /\ acc[k+1] = CpuLine(acc[k], lines[k+1])
    BY <1>1, <1>2, <2>1 DEF ReadsCpu
  <2>3. QED BY <1>4, <2>1, <2>2
<1>5. n \in 0..n
  BY <1>1
<1>6. n \in T
  <2> HIDE DEF T
  <2>1. QED BY <1>1, <1>3, <1>4, <1>5, UpTo
<1>7. QED BY <1>2, <1>6 DEF first

(* What /proc/meminfo says of a key: what its first line with it does.     *)
OfKey(lines, key) == {i \in 1..Len(lines) : lines[i].key = key}

Figure(words) == IF words = <<>> THEN NotANumber ELSE Number(words[1])

LEMMA MemRead ==
  ASSUME NEW S, NEW lines \in Seq(S), NEW key
  PROVE  ParseMeminfo(lines, key) =
           IF OfKey(lines, key) = {} THEN NotANumber ELSE Figure(lines[Min(OfKey(lines, key))].words)
<1> DEFINE I == OfKey(lines, key)
<1>1. CASE I = {}
  BY <1>1 DEF ParseMeminfo, FirstThat, SelectInSeq, OfKey, Noise
<1>2. CASE I # {}
  <2>1. I \in SUBSET (1..Len(lines)) /\ Len(lines) \in Nat
    BY DEF OfKey
  <2>2. Min(I) \in I
    <3> HIDE DEF I
    <3>1. QED BY <1>2, <2>1, LeastOf
  <2>3. Min(I) # 0
    BY <2>1, <2>2
  <2>4. QED BY <1>2, <2>3 DEF ParseMeminfo, FirstThat, SelectInSeq, OfKey, Figure
<1>3. QED BY <1>1, <1>2

(* The directories of PATH with the program, and the one that is taken.    *)
WithProgram(path) == {i \in 1..Len(path) : path[i].dir # "" /\ IsExecutable(path[i])}

LEMMA PathSearched ==
  ASSUME NEW S, NEW path \in Seq(S)
  PROVE  FindIn(path).dir =
           IF WithProgram(path) = {} THEN Nothing ELSE path[Min(WithProgram(path))].dir
<1> DEFINE I == WithProgram(path)
<1>1. CASE I = {}
  BY <1>1 DEF FindIn, FirstThat, SelectInSeq, WithProgram
<1>2. CASE I # {}
  <2>1. /\ I \in SUBSET (1..Len(path))
        /\ Len(path) \in Nat
    <3>1. \A i \in I : i \in 1..Len(path)
      BY Zenon DEF WithProgram
    <3> HIDE DEF I
    <3>2. QED BY <3>1
  <2>2. Min(I) \in I
    <3> HIDE DEF I
    <3>1. QED BY <1>2, <2>1, LeastOf
  <2>3. Min(I) # 0
    BY <2>1, <2>2
  <2>4. QED BY <1>2, <2>3 DEF FindIn, FirstThat, SelectInSeq, WithProgram
<1>3. QED BY <1>1, <1>2

(* A processor that comes online, a group or a directory added at the end  *)
(* changes no earlier answer, whatever the file and however long.          *)
THEOREM WhatIsFoundStays == Spec => []AnswersStick
<1>1. InputOK => AnswersStick
  <2> SUFFICES ASSUME InputOK, input.kind \in {"cpuinfo", "group", "meminfo", "path"},
                      NEW n \in 0..Len(input.lines),
                      NEW a \in Answers(SubSeq(input.lines, 1, n), input.kind)
               PROVE  a[2] = <<Nothing>> \/ a \in Answers(input.lines, input.kind)
    BY DEF AnswersStick
  <2> DEFINE lines == input.lines
             first == SubSeq(lines, 1, n)
             S == LinesOf(input.kind)
  <2>1. lines \in Seq(S)
    BY InputKinds DEF FileKinds, FilesRead
  <2>2. /\ first \in Seq(S) /\ Len(first) = n /\ n \in Nat /\ Len(lines) \in Nat
        /\ \A i \in 1..n : first[i] = lines[i] /\ i \in 1..Len(lines)
    BY <2>1, Beginning
  <2>2a. n \in Nat /\ Len(lines) \in Nat
    BY <2>2
  <2> HIDE DEF lines, first, S
  <2>3. CASE input.kind = "cpuinfo"
    <3>1. PICK acc : ReadsCpu(acc, lines) /\ ParseCpuinfo(lines) = acc[Len(lines)]
      BY <2>1, CpuSteps
    <3>2. ParseCpuinfo(first) = acc[n]
      BY <2>1, <3>1, CpuOfBeginning DEF first, lines
    <3>3. /\ acc[n].model # <<Nothing>> => acc[Len(lines)].model = acc[n].model
          /\ acc[n].virt # Nothing => acc[Len(lines)].virt = acc[n].virt
      BY <2>1, <3>1, CpuStays DEF lines
    <3>4. a \in {<<"model", acc[n].model>>, <<"virt", <<acc[n].virt>>>>}
      BY <2>3, <3>2 DEF Answers, first, lines
    <3>5. Answers(lines, input.kind) =
            {<<"model", acc[Len(lines)].model>>, <<"virt", <<acc[Len(lines)].virt>>>>}
      BY <2>3, <3>1 DEF Answers
    <3>6. QED BY <3>3, <3>4, <3>5 DEF lines
  <2>4. CASE input.kind = "group"
    <3>1. PICK gid \in 0..NumMax : a = <<gid, ParseGroupName(first, gid)>>
      BY <2>4 DEF Answers, first, lines
    <3>2. <<gid, ParseGroupName(lines, gid)>> \in Answers(lines, input.kind)
      BY <2>4 DEF Answers
    <3>3. /\ OfGid(first, gid) = OfGid(lines, gid) \intersect (1..n)
          /\ OfGid(lines, gid) \in SUBSET (1..Len(lines))
      BY <2>2 DEF OfGid
    <3>4. ASSUME OfGid(first, gid) # {}
          PROVE  ParseGroupName(first, gid) = ParseGroupName(lines, gid)
      <4> DEFINE I == OfGid(lines, gid)
                 i == Min(I)
      <4>1. /\ I \intersect (1..n) # {} /\ I # {} /\ I \in SUBSET (1..Len(lines))
            /\ OfGid(first, gid) = I \intersect (1..n)
        BY <3>3, <3>4
      <4> HIDE DEF I
      <4>2. Min(I \intersect (1..n)) = i
        BY <2>2a, <4>1, FirstOfPrefix
      <4>3. OfGid(first, gid) \in SUBSET (1..n) /\ Min(OfGid(first, gid)) = i
        BY <4>1, <4>2
      <4>4. i \in 1..n
        BY <2>2, <3>4, <4>3, LeastOf
      <4>5. first[i] = lines[i]
        BY <2>2, <4>4
      <4>6. ParseGroupName(first, gid) = first[i][1]
        BY <2>2, <3>4, <4>3, GroupNamed
      <4>7. ParseGroupName(lines, gid) = lines[i][1]
        BY <2>1, <4>1, GroupNamed DEF I
      <4>8. QED BY <4>5, <4>6, <4>7
    <3>5. OfGid(first, gid) = {} => ParseGroupName(first, gid) = <<Nothing>>
      BY <2>2, GroupNamed
    <3>6. QED BY <3>1, <3>2, <3>4, <3>5 DEF lines
  <2>5. CASE input.kind = "meminfo"
    <3>1. PICK key \in {"MemTotal", "MemAvailable"} : a = <<key, Shown(ParseMeminfo(first, key))>>
      BY <2>5 DEF Answers, first, lines
    <3>2. <<key, Shown(ParseMeminfo(lines, key))>> \in Answers(lines, input.kind)
      BY <2>5 DEF Answers
    <3>3. /\ OfKey(first, key) = OfKey(lines, key) \intersect (1..n)
          /\ OfKey(lines, key) \in SUBSET (1..Len(lines))
      BY <2>2 DEF OfKey
    <3>4. ASSUME OfKey(first, key) # {}
          PROVE  ParseMeminfo(first, key) = ParseMeminfo(lines, key)
      <4> DEFINE I == OfKey(lines, key)
                 i == Min(I)
      <4>1. /\ I \intersect (1..n) # {} /\ I # {} /\ I \in SUBSET (1..Len(lines))
            /\ OfKey(first, key) = I \intersect (1..n)
        BY <3>3, <3>4
      <4> HIDE DEF I
      <4>2. Min(I \intersect (1..n)) = i
        BY <2>2a, <4>1, FirstOfPrefix
      <4>3. OfKey(first, key) \in SUBSET (1..n) /\ Min(OfKey(first, key)) = i
        BY <4>1, <4>2
      <4>4. i \in 1..n
        BY <2>2, <3>4, <4>3, LeastOf
      <4>5. first[i] = lines[i]
        BY <2>2, <4>4
      <4>6. ParseMeminfo(first, key) = Figure(first[i].words)
        BY <2>2, <3>4, <4>3, MemRead
      <4>7. ParseMeminfo(lines, key) = Figure(lines[i].words)
        BY <2>1, <4>1, MemRead DEF I
      <4>8. QED BY <4>5, <4>6, <4>7
    <3>5. OfKey(first, key) = {} => Shown(ParseMeminfo(first, key)) = <<Nothing>>
      BY <2>2, MemRead DEF Shown
    <3>6. QED BY <3>1, <3>2, <3>4, <3>5 DEF lines
  <2>6. CASE input.kind = "path"
    <3>1. a = <<"dir", <<FindIn(first).dir>>>>
      BY <2>6 DEF Answers, first, lines
    <3>2. <<"dir", <<FindIn(lines).dir>>>> \in Answers(lines, input.kind)
      BY <2>6 DEF Answers
    <3>3. /\ WithProgram(first) = WithProgram(lines) \intersect (1..n)
          /\ WithProgram(lines) \in SUBSET (1..Len(lines))
      BY <2>2 DEF WithProgram
    <3>4. ASSUME WithProgram(first) # {} PROVE FindIn(first).dir = FindIn(lines).dir
      <4> DEFINE I == WithProgram(lines)
                 i == Min(I)
      <4>1. /\ I \intersect (1..n) # {} /\ I # {} /\ I \in SUBSET (1..Len(lines))
            /\ WithProgram(first) = I \intersect (1..n)
        BY <3>3, <3>4
      <4> HIDE DEF I
      <4>2. Min(I \intersect (1..n)) = i
        BY <2>2a, <4>1, FirstOfPrefix
      <4>3. WithProgram(first) \in SUBSET (1..n) /\ Min(WithProgram(first)) = i
        BY <4>1, <4>2
      <4>4. i \in 1..n
        BY <2>2, <3>4, <4>3, LeastOf
      <4>5. first[i] = lines[i]
        BY <2>2, <4>4
      <4>6. FindIn(first).dir = first[i].dir
        BY <2>2, <3>4, <4>3, PathSearched
      <4>7. FindIn(lines).dir = lines[i].dir
        BY <2>1, <4>1, PathSearched DEF I
      <4>8. QED BY <4>5, <4>6, <4>7
    <3>5. WithProgram(first) = {} => FindIn(first).dir = Nothing
      BY <2>2, PathSearched
    <3>6. QED BY <3>1, <3>2, <3>4, <3>5 DEF lines
  <2>7. QED BY <2>3, <2>4, <2>5, <2>6 DEF lines
<1>2. QED BY <1>1, TextsTyped, PTL

-----------------------------------------------------------------------------
(* str::split: reading a text takes the parts from one state to another.   *)
PartsRead(done, part) == [done |-> done, part |-> part]

Cuts(separator, before, text, after) ==
  \E h : /\ h[0] = before
         /\ \A k \in 1..Len(text) : h[k] = CutAt(h[k-1], text[k], separator)
         /\ h[Len(text)] = after

PartStates(P) == [done : Seq(Seq(P)), part : Seq(P)]

LEMMA CutAtSeparator ==
  ASSUME NEW done, NEW part, NEW separator
  PROVE  CutAt(PartsRead(done, part), separator, separator) = PartsRead(Append(done, part), <<>>)
BY DEF CutAt, PartsRead

LEMMA CutAtOther ==
  ASSUME NEW done, NEW part, NEW separator, NEW piece, piece # separator
  PROVE  CutAt(PartsRead(done, part), piece, separator) = PartsRead(done, Append(part, piece))
<1> DEFINE acc == PartsRead(done, part)
<1>1. CutAt(acc, piece, separator) = [acc EXCEPT !.part = Append(@, piece)]
  BY Zenon DEF CutAt
<1>2. [acc EXCEPT !.part = Append(@, piece)] = PartsRead(done, Append(part, piece))
  BY DEF PartsRead
<1>3. QED BY <1>1, <1>2

LEMMA CutAtType ==
  ASSUME NEW P, NEW separator
  PROVE  /\ PartsRead(<<>>, <<>>) \in PartStates(P)
         /\ \A acc \in PartStates(P), piece \in P : CutAt(acc, piece, separator) \in PartStates(P)
<1>1. <<>> \in Seq(P) /\ <<>> \in Seq(Seq(P))
  BY EmptySeq
<1>2. ASSUME NEW acc \in PartStates(P), NEW piece \in P
      PROVE  CutAt(acc, piece, separator) \in PartStates(P)
  <2>1. acc.done \in Seq(Seq(P)) /\ acc.part \in Seq(P)
    BY DEF PartStates
  <2>2. Append(acc.done, acc.part) \in Seq(Seq(P)) /\ Append(acc.part, piece) \in Seq(P)
    BY <2>1
  <2>3. CASE piece = separator
    BY <1>1, <2>2, <2>3 DEF CutAt, PartStates
  <2>4. CASE piece # separator
    BY <2>2, <2>4 DEF CutAt, PartStates
  <2>5. QED BY <2>3, <2>4
<1>3. QED BY <1>1, <1>2 DEF PartsRead, PartStates

(* split gives the parts there are at the end of the text.                 *)
LEMMA SplitGives ==
  ASSUME NEW text, Sequence(text), NEW separator, NEW after,
         Cuts(separator, PartsRead(<<>>, <<>>), text, after)
  PROVE  SplitAt(text, separator) = Append(after.done, after.part)
<1>0. PICK P : text \in Seq(P)
  BY DEF Sequence
<1> SUFFICES ASSUME NEW n \in Nat, n = Len(text)
             PROVE  SplitAt(text, separator) = Append(after.done, after.part)
  BY <1>0
<1> DEFINE Nowhere == PartsRead(<<>>, <<>>)
           Def(f) == [s \in SUBSET (1..n) |->
                        IF s = {} THEN Nowhere ELSE CutAt(f[s \ {Max(s)}], text[Max(s)], separator)]
           F == CHOOSE f : f = Def(f)
           X == PartStates(P)
<1>1. DOMAIN text = 1..n /\ \A i \in 1..n : text[i] \in P
  BY <1>0
<1>2. F = Def(F)
  <2> DEFINE g == [p \in X \X (1..n) |-> CutAt(p[1], text[p[2]], separator)]
  <2>1. g \in [X \X (1..n) -> X] /\ Nowhere \in X
    BY <1>1, CutAtType
  <2> HIDE DEF X, Nowhere
  <2>2. PICK f : IsFold(f, n, X, Nowhere, g)
    <3> HIDE DEF g
    <3>1. QED BY <2>1, FoldExists
  <2>3. ASSUME NEW s \in SUBSET (1..n), s # {}
        PROVE  f[s] = CutAt(f[s \ {Max(s)}], text[Max(s)], separator)
    <3>1. Max(s) \in 1..n
      BY <2>3, GreatestOf
    <3>2. f[s \ {Max(s)}] \in X
      BY <2>2 DEF IsFold
    <3>3. QED BY <2>2, <2>3, <3>1, <3>2 DEF IsFold
  <2>4. f = Def(f)
    BY <2>2, <2>3 DEF IsFold
  <2> HIDE DEF Def
  <2>5. QED BY <2>4
<1>3. SplitAt(text, separator) = LET end == F[1..n] IN Append(end.done, end.part)
  BY <1>1 DEF SplitAt, FoldLeft, MapThenFoldSet, PartsRead
<1>4. PICK h : /\ h[0] = Nowhere
               /\ \A k \in 1..n : h[k] = CutAt(h[k-1], text[k], separator)
               /\ h[n] = after
  BY DEF Cuts
<1> HIDE DEF F
<1> DEFINE T == {k \in 0..n : F[1..k] = h[k]}
<1>5. 0 \in T
  <2>1. {} \in SUBSET (1..n) /\ 1..0 = {} /\ 0 \in 0..n
    OBVIOUS
  <2>2. F[{}] = Nowhere
    BY <1>2, <2>1
  <2>3. QED BY <1>4, <2>1, <2>2
<1>6. ASSUME NEW j \in 0..(n-1), j \in T PROVE j + 1 \in T
  <2> DEFINE k == j + 1
  <2>1. k \in 1..n /\ k - 1 = j /\ k \in 0..n
    OBVIOUS
  <2> HIDE DEF k
  <2>2. /\ 1..k \in SUBSET (1..n) /\ 1..k # {}
        /\ Max(1..k) = k /\ (1..k) \ {k} = 1..(k-1)
    BY <2>1, PositionsUpTo
  <2>3. F[1..k] = CutAt(F[1..(k-1)], text[k], separator)
    BY <1>2, <2>2
  <2>4. F[1..k] = h[k]
    BY <1>4, <1>6, <2>1, <2>3
  <2>5. QED BY <2>1, <2>4 DEF k
<1>7. \A k \in 0..n : k \in T
  <2> HIDE DEF T
  <2>1. QED BY <1>5, <1>6, UpTo
<1>8. F[1..n] = after
  BY <1>4, <1>7
<1>9. QED BY <1>3, <1>8

(* A separator ends a part; a text without one goes to the part that is    *)
(* being read; and one text is read after another.                         *)
LEMMA CutsSeparator ==
  ASSUME NEW done, NEW part, NEW separator
  PROVE  Cuts(separator, PartsRead(done, part), <<separator>>, PartsRead(Append(done, part), <<>>))
<1> DEFINE before == PartsRead(done, part)
           after == PartsRead(Append(done, part), <<>>)
           h == [k \in {0, 1} |-> IF k = 0 THEN before ELSE after]
<1>1. CutAt(before, separator, separator) = after
  BY CutAtSeparator
<1>2. h[0] = before /\ h[1] = after
  OBVIOUS
<1>3. Len(<<separator>>) = 1 /\ \A k \in 1..1 : k = 1 /\ k - 1 = 0 /\ <<separator>>[k] = separator
  OBVIOUS
<1> HIDE DEF h, before, after
<1>4. Cuts(separator, before, <<separator>>, after)
  BY <1>1, <1>2, <1>3 DEF Cuts
<1>5. QED BY <1>4 DEF before, after

LEMMA CutsText ==
  ASSUME NEW P, NEW part \in Seq(P), NEW text \in Seq(P), NEW done, NEW separator,
         \A i \in 1..Len(text) : text[i] # separator
  PROVE  Cuts(separator, PartsRead(done, part), text, PartsRead(done, part \o text))
<1> DEFINE n == Len(text)
           Got(k) == part \o SubSeq(text, 1, k)
           h == [k \in 0..n |-> PartsRead(done, Got(k))]
<1>1. Got(0) = part /\ Got(n) = part \o text
  BY Growing, ConcatEmptySeq
<1>2. n \in Nat /\ 0 \in 0..n /\ n \in 0..n
  OBVIOUS
<1>3. ASSUME NEW k \in 1..n PROVE h[k] = CutAt(h[k-1], text[k], separator)
  <2>1. k \in 0..n /\ k - 1 \in 0..n
    OBVIOUS
  <2>2. Got(k) = Append(Got(k-1), text[k])
    BY OneMorePiece
  <2>3. h[k] = PartsRead(done, Got(k)) /\ h[k-1] = PartsRead(done, Got(k-1))
    BY <2>1
  <2> DEFINE got == Got(k-1)
             piece == text[k]
  <2>4. piece # separator
    OBVIOUS
  <2>5. Got(k) = Append(got, piece) /\ h[k-1] = PartsRead(done, got)
    BY <2>2, <2>3
  <2> HIDE DEF got, piece, Got, h
  <2>6. CutAt(PartsRead(done, got), piece, separator) = PartsRead(done, Append(got, piece))
    BY <2>4, CutAtOther
  <2>7. h[k] = CutAt(h[k-1], piece, separator)
    BY <2>3, <2>5, <2>6
  <2>8. QED BY <2>7 DEF piece
<1>4. h[0] = PartsRead(done, part) /\ h[n] = PartsRead(done, part \o text)
  <2> HIDE DEF Got
  <2>1. h[0] = PartsRead(done, Got(0)) /\ h[n] = PartsRead(done, Got(n))
    BY <1>2
  <2> HIDE DEF h
  <2>2. QED BY <1>1, <2>1
<1> HIDE DEF h
<1>5. QED BY <1>3, <1>4 DEF Cuts

LEMMA CutsBoth ==
  ASSUME NEW one, Sequence(one), NEW two, Sequence(two), NEW separator,
         NEW before, NEW between, NEW after,
         Cuts(separator, before, one, between), Cuts(separator, between, two, after)
  PROVE  Cuts(separator, before, one \o two, after)
<1> DEFINE m == Len(one)
           n == Len(two)
<1>1. PICK h : /\ h[0] = before
               /\ \A k \in 1..m : h[k] = CutAt(h[k-1], one[k], separator)
               /\ h[m] = between
  BY DEF Cuts
<1>2. PICK r : /\ r[0] = between
               /\ \A k \in 1..n : r[k] = CutAt(r[k-1], two[k], separator)
               /\ r[n] = after
  BY DEF Cuts
<1>0. PICK P : one \in Seq(P) /\ two \in Seq(P)
  <2>1. PICK S, Q : one \in Seq(S) /\ two \in Seq(Q)
    BY DEF Sequence
  <2>2. one \in Seq(S \union Q) /\ two \in Seq(S \union Q)
    BY <2>1
  <2>3. QED BY <2>2
<1>3. /\ m \in Nat /\ n \in Nat /\ Len(one \o two) = m + n
      /\ \A k \in 1..(m+n) : (one \o two)[k] = IF k <= m THEN one[k] ELSE two[k - m]
  BY <1>0
<1> DEFINE b == [k \in 0..(m+n) |-> IF k <= m THEN h[k] ELSE r[k - m]]
<1> HIDE DEF m, n
<1>4. b[0] = before
  BY <1>1, <1>3
<1>5. b[m+n] = after
  <2>1. CASE n = 0
    BY <1>1, <1>2, <1>3, <2>1
  <2>2. CASE n # 0
    BY <1>2, <1>3, <2>2
  <2>3. QED BY <2>1, <2>2
<1>6. ASSUME NEW k \in 1..(m+n) PROVE b[k] = CutAt(b[k-1], (one \o two)[k], separator)
  <2>1. k \in 0..(m+n) /\ k - 1 \in 0..(m+n)
    BY <1>3
  <2>2. CASE k <= m
    <3>1. k \in 1..m /\ b[k] = h[k] /\ b[k-1] = h[k-1] /\ (one \o two)[k] = one[k]
      BY <1>3, <2>1, <2>2
    <3>2. QED BY <1>1, <3>1
  <2>3. CASE ~(k <= m)
    <3>1. k - m \in 1..n /\ b[k] = r[k - m] /\ (one \o two)[k] = two[k - m]
      BY <1>3, <2>1, <2>3
    <3>2. b[k-1] = r[(k - m) - 1]
      <4>1. CASE k - 1 = m
        BY <1>1, <1>2, <1>3, <2>1, <4>1
      <4>2. CASE k - 1 # m
        BY <1>3, <2>1, <2>3, <4>2
      <4>3. QED BY <4>1, <4>2
    <3>3. QED BY <1>2, <3>1, <3>2
  <2>4. QED BY <2>2, <2>3
<1> HIDE DEF b
<1>7. QED BY <1>3, <1>4, <1>5, <1>6 DEF Cuts

(* One more part, after a separator.                                       *)
LEMMA CutsPart ==
  ASSUME NEW text, Sequence(text), NEW part, Sequence(part), NEW separator,
         \A i \in 1..Len(part) : part[i] # separator,
         NEW before, NEW done, NEW last, Cuts(separator, before, text, PartsRead(done, last))
  PROVE  Cuts(separator, before, text \o (<<separator>> \o part), PartsRead(Append(done, last), part))
<1>1. PICK P : part \in Seq(P)
  BY DEF Sequence
<1>2. Sequence(<<separator>>) /\ <<>> \in Seq(P) /\ <<>> \o part = part
  <2>1. <<separator>> \in Seq({separator})
    OBVIOUS
  <2>2. QED BY <1>1, <2>1, EmptySeq, ConcatEmptySeq DEF Sequence
<1>3. Cuts(separator, PartsRead(done, last), <<separator>>, PartsRead(Append(done, last), <<>>))
  BY CutsSeparator
<1>4. Cuts(separator, PartsRead(Append(done, last), <<>>), part, PartsRead(Append(done, last), <<>> \o part))
  BY <1>1, <1>2, CutsText
<1>5. Cuts(separator, PartsRead(done, last), <<separator>> \o part, PartsRead(Append(done, last), part))
  BY <1>2, <1>3, <1>4, CutsBoth
<1>6. Sequence(<<separator>> \o part)
  BY <1>2, SequenceBoth
<1>7. QED BY <1>5, <1>6, CutsBoth

-----------------------------------------------------------------------------
(* Numbers: what Printed writes of one is read as that number.             *)
Numerals == {"0", "1", "2", "3", "4", "5", "6", "7", "8", "9"}

Figured(piece) == SelectInSeq(Digits, LAMBDA e : e = piece)

LEMMA DigitsAre ==
  /\ Len(Digits) = 10 /\ \A i \in 1..10 : Digits[i] \in Numerals
  /\ \A i, j \in 1..10 : Digits[i] = Digits[j] => i = j
  /\ \A piece : IsDigit(piece) <=> piece \in Numerals
<1>1. Len(Digits) = 10 /\ \A i \in 1..10 : Digits[i] \in Numerals
  <2>1. Len(Digits) = 10 /\ Digits \in Seq(Numerals)
    BY DEF Digits, Numerals
  <2>2. ASSUME NEW i \in 1..10 PROVE Digits[i] \in Numerals
    <3>1. i \in 1..Len(Digits)
      BY <2>1
    <3>2. QED BY <2>1, <3>1, ElementOfSeq
  <2>3. QED BY <2>1, <2>2
<1>2. ASSUME NEW i \in 1..10, NEW j \in 1..10, Digits[i] = Digits[j] PROVE i = j
  <2> DEFINE Where == <<"0", "1", "2", "3", "4", "5", "6", "7", "8", "9">>
  <2>1. i \in {1, 2, 3, 4, 5, 6, 7, 8, 9, 10} /\ j \in {1, 2, 3, 4, 5, 6, 7, 8, 9, 10}
    OBVIOUS
  <2>2. QED BY <1>2, <2>1 DEF Digits
<1>3. ASSUME NEW piece PROVE IsDigit(piece) <=> piece \in Numerals
  <2>1. IsDigit(piece) => piece \in Numerals
    BY <1>1 DEF IsDigit, Contains
  <2>2. ASSUME piece \in Numerals PROVE \E i \in 1..10 : Digits[i] = piece
    <3>1. /\ Digits[1] = "0" /\ Digits[2] = "1" /\ Digits[3] = "2" /\ Digits[4] = "3"
          /\ Digits[5] = "4" /\ Digits[6] = "5" /\ Digits[7] = "6" /\ Digits[8] = "7"
          /\ Digits[9] = "8" /\ Digits[10] = "9"
      BY DEF Digits
    <3>2. /\ 1 \in 1..10 /\ 2 \in 1..10 /\ 3 \in 1..10 /\ 4 \in 1..10 /\ 5 \in 1..10
          /\ 6 \in 1..10 /\ 7 \in 1..10 /\ 8 \in 1..10 /\ 9 \in 1..10 /\ 10 \in 1..10
      OBVIOUS
    <3>3. QED BY <2>2, <3>1, <3>2 DEF Numerals
  <2>3. QED BY <1>1, <2>1, <2>2 DEF IsDigit, Contains
<1>4. QED BY <1>1, <1>2, <1>3

LEMMA FiguredIs ==
  /\ \A piece : Figured(piece) \in Nat
  /\ \A i \in 1..10 : Figured(Digits[i]) = i
<1>1. ASSUME NEW piece PROVE Figured(piece) \in Nat
  <2> DEFINE I == {i \in 1..Len(Digits) : Digits[i] = piece}
  <2>1. I \in SUBSET (1..10)
    BY DigitsAre
  <2>2. Figured(piece) = IF I # {} THEN Min(I) ELSE 0
    BY DEF Figured, SelectInSeq
  <2> HIDE DEF I
  <2>3. CASE I = {}
    BY <2>2, <2>3
  <2>4. CASE I # {}
    <3>1. Min(I) \in I
      BY <2>1, <2>4, LeastOf
    <3>2. Figured(piece) = Min(I)
      BY <2>2, <2>4
    <3>3. Min(I) \in 1..10
      BY <2>1, <3>1
    <3>4. QED BY <3>2, <3>3
  <2>5. QED BY <2>3, <2>4
<1>2. ASSUME NEW i \in 1..10 PROVE Figured(Digits[i]) = i
  <2> DEFINE I == {j \in 1..Len(Digits) : Digits[j] = Digits[i]}
  <2>1. I = {i}
    BY DigitsAre
  <2>2. Figured(Digits[i]) = IF I # {} THEN Min(I) ELSE 0
    BY DEF Figured, SelectInSeq
  <2>3. Min({i}) \in {i}
    <3>1. {i} \in SUBSET (1..10) /\ {i} # {}
      OBVIOUS
    <3>2. QED BY <3>1, LeastOf
  <2> HIDE DEF I
  <2>4. QED BY <2>1, <2>2, <2>3
<1>3. QED BY <1>1, <1>2

(* A number is read digit by digit, from the first to the last.            *)
LEMMA NumberSteps ==
  ASSUME NEW text \in Seq(Numerals), text # <<>>
  PROVE  \E h : /\ h[0] = 0
                /\ \A k \in 1..Len(text) : h[k] = 10 * h[k-1] + Figured(text[k]) - 1
                /\ Number(text) = IF h[Len(text)] <= NumMax THEN h[Len(text)] ELSE NotANumber
<1> SUFFICES ASSUME NEW n \in Nat, n = Len(text)
             PROVE  \E h : /\ h[0] = 0
                           /\ \A k \in 1..n : h[k] = 10 * h[k-1] + Figured(text[k]) - 1
                           /\ Number(text) = IF h[n] <= NumMax THEN h[n] ELSE NotANumber
  OBVIOUS
<1> DEFINE Def(f) == [s \in SUBSET (1..n) |->
                        IF s = {} THEN 0
                        ELSE 10 * f[s \ {Max(s)}] + Figured(text[Max(s)]) - 1]
           F == CHOOSE f : f = Def(f)
           h == [k \in 0..n |-> F[1..k]]
<1>1. DOMAIN text = 1..n /\ \A i \in 1..n : text[i] \in Numerals
  OBVIOUS
<1>2. F = Def(F)
  <2> DEFINE g == [p \in Int \X (1..n) |-> 10 * p[1] + Figured(text[p[2]]) - 1]
  <2>1. g \in [Int \X (1..n) -> Int]
    <3>1. ASSUME NEW p \in Int \X (1..n)
          PROVE  10 * p[1] + Figured(text[p[2]]) - 1 \in Int
      <4>1. p[1] \in Int /\ Figured(text[p[2]]) \in Nat
        BY FiguredIs
      <4>2. QED BY <4>1
    <3>2. QED BY <3>1
  <2>2. PICK f : IsFold(f, n, Int, 0, g)
    <3> HIDE DEF g
    <3>1. 0 \in Int
      OBVIOUS
    <3>2. QED BY <2>1, <3>1, FoldExists
  <2>3. ASSUME NEW s \in SUBSET (1..n), s # {}
        PROVE  f[s] = 10 * f[s \ {Max(s)}] + Figured(text[Max(s)]) - 1
    <3>1. Max(s) \in 1..n
      BY <2>3, GreatestOf
    <3>2. f[s \ {Max(s)}] \in Int
      BY <2>2 DEF IsFold
    <3>3. QED BY <2>2, <2>3, <3>1, <3>2 DEF IsFold
  <2>4. f = Def(f)
    BY <2>2, <2>3 DEF IsFold
  <2> HIDE DEF Def
  <2>5. QED BY <2>4
<1>3. Number(text) = IF F[1..n] <= NumMax THEN F[1..n] ELSE NotANumber
  <2>1. ~(text = <<>> \/ \E i \in DOMAIN text : ~IsDigit(text[i]))
    BY <1>1, DigitsAre
  <2>2. Number(text) = LET m == F[1..n] IN IF m <= NumMax THEN m ELSE NotANumber
    BY <1>1, <2>1 DEF Number, FoldLeft, MapThenFoldSet, Figured
  <2>3. QED BY <2>2
<1> HIDE DEF F
<1>4. h[0] = 0
  <2>1. {} \in SUBSET (1..n) /\ 1..0 = {} /\ 0 \in 0..n
    OBVIOUS
  <2>2. F[{}] = 0
    BY <1>2, <2>1
  <2>3. QED BY <2>1, <2>2
<1>5. ASSUME NEW k \in 1..n PROVE h[k] = 10 * h[k-1] + Figured(text[k]) - 1
  <2>1. /\ 1..k \in SUBSET (1..n) /\ 1..k # {}
        /\ Max(1..k) = k /\ (1..k) \ {k} = 1..(k-1)
    BY PositionsUpTo
  <2>2. F[1..k] = 10 * F[1..(k-1)] + Figured(text[k]) - 1
    BY <1>2, <2>1
  <2>3. k \in 0..n /\ k - 1 \in 0..n
    OBVIOUS
  <2>4. QED BY <2>2, <2>3
<1>6. Number(text) = IF h[n] <= NumMax THEN h[n] ELSE NotANumber
  BY <1>3
<1> HIDE DEF h
<1>7. QED BY <1>4, <1>5, <1>6

LEMMA DecimalIs ==
  ASSUME NEW n \in 0..99
  PROVE  Decimal(n) \in Seq(Numerals) /\ Decimal(n) # <<>>
<1>1. CASE n < 10
  <2>1. n + 1 \in 1..10
    BY <1>1
  <2>2. Digits[n + 1] \in Numerals
    BY <2>1, DigitsAre
  <2>3. QED BY <1>1, <2>2 DEF Decimal
<1>2. CASE ~(n < 10)
  <2>1. (n \div 10) + 1 \in 1..10 /\ (n % 10) + 1 \in 1..10
    BY <1>2
  <2>2. Digits[(n \div 10) + 1] \in Numerals /\ Digits[(n % 10) + 1] \in Numerals
    BY <2>1, DigitsAre
  <2>3. QED BY <1>2, <2>2 DEF Decimal
<1>3. QED BY <1>1, <1>2

LEMMA NumberReadBack ==
  ASSUME NEW n \in 0..99, n <= NumMax
  PROVE  Number(Decimal(n)) = n
<1> DEFINE text == Decimal(n)
<1>1. PICK h : /\ h[0] = 0
               /\ \A k \in 1..Len(text) : h[k] = 10 * h[k-1] + Figured(text[k]) - 1
               /\ Number(text) = IF h[Len(text)] <= NumMax THEN h[Len(text)] ELSE NotANumber
  BY DecimalIs, NumberSteps
<1>2. h[Len(text)] = n
  <2>1. CASE n < 10
    <3>1. text = <<Digits[n + 1]>> /\ n + 1 \in 1..10
      BY <2>1 DEF Decimal
    <3>2. Len(text) = 1 /\ text[1] = Digits[n + 1] /\ 1 \in 1..Len(text) /\ 1 - 1 = 0
      BY <3>1
    <3> HIDE DEF text
    <3>3. h[1] = 10 * 0 + Figured(Digits[n + 1]) - 1
      BY <1>1, <3>2
    <3>4. Figured(Digits[n + 1]) = n + 1
      BY <3>1, FiguredIs
    <3>5. QED BY <3>2, <3>3, <3>4
  <2>2. CASE ~(n < 10)
    <3> DEFINE tens == n \div 10
               ones == n % 10
    <3>1. text = <<Digits[tens + 1], Digits[ones + 1]>>
      BY <2>2 DEF Decimal
    <3>2. tens + 1 \in 1..10 /\ ones + 1 \in 1..10 /\ n = 10 * tens + ones /\ tens \in Int /\ ones \in Int
      BY <2>2
    <3> HIDE DEF tens, ones
    <3>3. /\ Len(text) = 2 /\ text[1] = Digits[tens + 1] /\ text[2] = Digits[ones + 1]
          /\ 1 \in 1..Len(text) /\ 2 \in 1..Len(text) /\ 1 - 1 = 0 /\ 2 - 1 = 1
      BY <3>1
    <3> HIDE DEF text
    <3>4. h[1] = 10 * 0 + Figured(Digits[tens + 1]) - 1 /\ h[2] = 10 * h[1] + Figured(Digits[ones + 1]) - 1
      BY <1>1, <3>3
    <3>5. Figured(Digits[tens + 1]) = tens + 1 /\ Figured(Digits[ones + 1]) = ones + 1
      BY <3>2, FiguredIs
    <3>6. QED BY <3>2, <3>3, <3>4, <3>5
  <2>3. QED BY <2>1, <2>2
<1> HIDE DEF text
<1>3. Number(text) = n
  BY <1>1, <1>2
<1>4. QED BY <1>3 DEF text

(* The numbers and dots a word starts with are taken whole.                *)
LEMMA PrefixIs ==
  ASSUME NEW P, NEW text \in Seq(Numerals \union {"."}), NEW suffix \in Seq(P),
         suffix # <<>> => suffix[1] \notin Numerals \union {"."}
  PROVE  NumericPrefix(text \o suffix) = text
<1> DEFINE m == Len(text)
           word == text \o suffix
           I == {i \in 1..Len(word) : ~(IsDigit(word[i]) \/ word[i] = ".")}
           stop == IF I # {} THEN Min(I) ELSE 0
<1>1. NumericPrefix(word) = IF stop = 0 THEN word ELSE SubSeq(word, 1, stop - 1)
  BY DEF NumericPrefix, SelectInSeq
<1>2. /\ m \in Nat /\ Len(suffix) \in Nat /\ Len(word) = m + Len(suffix)
      /\ \A i \in 1..m : word[i] = text[i]
      /\ suffix # <<>> => word[m + 1] = suffix[1] /\ m + 1 \in 1..Len(word)
  OBVIOUS
<1>3. \A i \in 1..m : i \notin I
  BY <1>2, DigitsAre
<1>4. CASE suffix = <<>>
  <2>1. word = text /\ I = {}
    BY <1>3, <1>4, ConcatEmptySeq
  <2>2. stop = 0
    BY <2>1
  <2> HIDE DEF word, I, stop
  <2>3. QED BY <1>1, <2>1, <2>2 DEF word
<1>5. CASE suffix # <<>>
  <2>1. m + 1 \in I
    BY <1>2, <1>5, DigitsAre
  <2>2. I \in SUBSET (1..Len(word)) /\ Len(word) \in Nat
    BY <1>2
  <2>3. SubSeq(word, 1, m) = text
    <3>1. text \in Seq(Numerals \union {"."} \union P) /\ suffix \in Seq(Numerals \union {"."} \union P)
      OBVIOUS
    <3>2. SubSeq(text \o suffix, 1, Len(text)) = text
      <4> DEFINE first == SubSeq(text \o suffix, 1, Len(text))
      <4>1. /\ first \in Seq(Numerals \union {"."} \union P) /\ Len(first) = Len(text)
            /\ \A i \in 1..Len(first) : first[i] = text[i]
        BY <3>1
      <4> HIDE DEF first
      <4>2. first = text
        BY <3>1, <4>1, SeqEqual
      <4>3. QED BY <4>2 DEF first
    <3>3. QED BY <3>2
  <2> HIDE DEF I
  <2>4. Min(I) \in I /\ Min(I) <= m + 1
    BY <2>1, <2>2, LeastOf
  <2> HIDE DEF word, m
  <2>5. Min(I) = m + 1
    <3>1. Min(I) \notin 1..m
      BY <1>3, <2>4, Zenon
    <3>2. Min(I) \in 1..Len(word)
      BY <2>2, <2>4
    <3>3. QED BY <1>2, <2>4, <3>1, <3>2
  <2>6. stop = m + 1 /\ stop - 1 = m /\ stop # 0
    BY <1>2, <2>1, <2>5
  <2> HIDE DEF stop
  <2>7. QED BY <1>1, <2>3, <2>6 DEF word
<1>6. QED BY <1>4, <1>5

-----------------------------------------------------------------------------
(* A version is read back, with what follows it.                           *)
Figures == {n \in 0..99 : n <= NumMax}

LEMMA DecimalText ==
  ASSUME NEW n \in Figures
  PROVE  /\ Decimal(n) \in Seq(Numerals) /\ Sequence(Decimal(n))
         /\ \A i \in 1..Len(Decimal(n)) : Decimal(n)[i] # "."
         /\ Number(Decimal(n)) = n
<1>1. n \in 0..99 /\ n <= NumMax
  BY DEF Figures
<1>2. Decimal(n) \in Seq(Numerals) /\ Number(Decimal(n)) = n
  BY <1>1, DecimalIs, NumberReadBack
<1>3. \A i \in 1..Len(Decimal(n)) : Decimal(n)[i] \in Numerals
  BY <1>2
<1>4. "." \notin Numerals
  BY DEF Numerals
<1>5. QED BY <1>2, <1>3, <1>4 DEF Sequence

LEMMA PrintedIs ==
  ASSUME NEW a \in Figures, NEW b \in Figures, NEW c \in Figures
  PROVE  /\ Printed(<<a, b, c>>) \in Seq(Numerals \union {"."})
         /\ SplitAt(Printed(<<a, b, c>>), ".")
              = IF c = 0 THEN <<Decimal(a), Decimal(b)>> ELSE <<Decimal(a), Decimal(b), Decimal(c)>>
<1> DEFINE A == Decimal(a)
           B == Decimal(b)
           C == Decimal(c)
           Two == A \o (<<".">> \o B)
           Three == Two \o (<<".">> \o C)
           N == Numerals \union {"."}
<1>1. /\ Sequence(A) /\ Sequence(B) /\ Sequence(C)
      /\ A \in Seq(Numerals) /\ B \in Seq(Numerals) /\ C \in Seq(Numerals)
      /\ \A i \in 1..Len(A) : A[i] # "."
      /\ \A i \in 1..Len(B) : B[i] # "."
      /\ \A i \in 1..Len(C) : C[i] # "."
  BY DecimalText
<1>2. A \in Seq(N) /\ B \in Seq(N) /\ C \in Seq(N) /\ <<".">> \in Seq(N)
  BY <1>1
<1>3. Printed(<<a, b, c>>) = IF c = 0 THEN Two ELSE Three
  <2> DEFINE v == <<a, b, c>>
             tail == IF c = 0 THEN <<>> ELSE <<".">> \o C
  <2>1. v[1] = a /\ v[2] = b /\ v[3] = c
    OBVIOUS
  <2>2. Printed(v) = A \o <<".">> \o B \o tail
    BY <2>1 DEF Printed
  <2>3. A \o <<".">> \o B = Two /\ Two \in Seq(N)
    <3> HIDE DEF A, B, N
    <3>1. QED BY <1>2, ConcatAssociative, ConcatProperties
  <2> HIDE DEF Two
  <2>4. CASE c = 0
    BY <2>2, <2>3, <2>4, ConcatEmptySeq
  <2>5. CASE c # 0
    BY <2>2, <2>3, <2>5
  <2>6. QED BY <2>4, <2>5
<1>4. Two \in Seq(N) /\ Three \in Seq(N) /\ Sequence(Two) /\ Sequence(Three)
  <2> HIDE DEF A, B, C, N
  <2>1. Two \in Seq(N)
    BY <1>2, ConcatProperties
  <2>2. Three \in Seq(N)
    <3> HIDE DEF Two
    <3>1. QED BY <1>2, <2>1, ConcatProperties
  <2>3. QED BY <2>1, <2>2 DEF Sequence
<1> HIDE DEF A, B, C, N
<1>5. Cuts(".", PartsRead(<<>>, <<>>), A, PartsRead(<<>>, A))
  <2>1. <<>> \in Seq(Numerals) /\ <<>> \o A = A
    BY <1>1, EmptySeq, ConcatEmptySeq
  <2>2. QED BY <1>1, <2>1, CutsText
<1>6. Cuts(".", PartsRead(<<>>, <<>>), Two, PartsRead(Append(<<>>, A), B))
  BY <1>1, <1>5, CutsPart
<1> HIDE DEF Two
<1>7. Cuts(".", PartsRead(<<>>, <<>>), Three, PartsRead(Append(Append(<<>>, A), B), C))
  BY <1>1, <1>4, <1>6, CutsPart
<1> HIDE DEF Three
<1>8. SplitAt(Two, ".") = <<A, B>>
  <2> DEFINE after == PartsRead(Append(<<>>, A), B)
  <2>1. SplitAt(Two, ".") = Append(after.done, after.part)
    BY <1>4, <1>6, SplitGives
  <2>2. QED BY <2>1 DEF PartsRead
<1>9. SplitAt(Three, ".") = <<A, B, C>>
  <2> DEFINE after == PartsRead(Append(Append(<<>>, A), B), C)
  <2>1. SplitAt(Three, ".") = Append(after.done, after.part)
    BY <1>4, <1>7, SplitGives
  <2>2. QED BY <2>1 DEF PartsRead
<1>10. QED BY <1>3, <1>4, <1>8, <1>9 DEF A, B, C, N

LEMMA VersionIs ==
  ASSUME NEW a \in Figures, NEW b \in Figures, NEW c \in Figures,
         NEW P, NEW suffix \in Seq(P), suffix # <<>> => suffix[1] \notin Numerals \union {"."}
  PROVE  VersionFromToken(Printed(<<a, b, c>>) \o suffix) = <<a, b, c>>
<1> DEFINE word == Printed(<<a, b, c>>) \o suffix
           parts == SplitAt(NumericPrefix(word), ".")
           Part(i) == IF i \in DOMAIN parts THEN Number(parts[i]) ELSE NotANumber
           OrZero(n) == IF n = NotANumber THEN 0 ELSE n
<1>1. NumericPrefix(word) = Printed(<<a, b, c>>)
  BY PrintedIs, PrefixIs
<1>2. parts = IF c = 0 THEN <<Decimal(a), Decimal(b)>> ELSE <<Decimal(a), Decimal(b), Decimal(c)>>
  BY <1>1, PrintedIs
<1>3. /\ Number(Decimal(a)) = a /\ Number(Decimal(b)) = b /\ Number(Decimal(c)) = c
      /\ a \in Nat /\ b \in Nat /\ c \in Nat
  BY DecimalText DEF Figures
<1>4. VersionFromToken(word) = IF Len(parts) < 2 \/ Part(1) = NotANumber THEN NoVersionAt
                               ELSE <<Part(1), OrZero(Part(2)), OrZero(Part(3))>>
  BY DEF VersionFromToken
<1> HIDE DEF word, parts
<1>5. Len(parts) >= 2 /\ Part(1) = a /\ Part(2) = b /\ OrZero(Part(3)) = c
  <2>1. CASE c = 0
    BY <1>2, <1>3, <2>1 DEF NotANumber
  <2>2. CASE c # 0
    BY <1>2, <1>3, <2>2 DEF NotANumber
  <2>3. QED BY <2>1, <2>2
<1> HIDE DEF Part
<1>6. a # NotANumber /\ b # NotANumber /\ ~(Len(parts) < 2)
  <2>1. Len(parts) \in Int
    BY <1>2
  <2>2. QED BY <1>3, <1>5, <2>1 DEF NotANumber
<1>7. VersionFromToken(word) = <<a, b, c>>
  BY <1>4, <1>5, <1>6
<1>8. QED BY <1>7 DEF word

(* The first word that holds a version is the one.                         *)
LEMMA FirstVersion ==
  ASSUME NEW P, NEW words \in Seq(P), NEW word \in P, NEW other \in P,
         \A i \in 1..Len(words) : VersionFromToken(words[i]) = NoVersionAt,
         VersionFromToken(word) # NoVersionAt
  PROVE  ParseVersion(Append(words, word) \o <<other>>) = VersionFromToken(word)
<1> DEFINE line == Append(words, word) \o <<other>>
           n == Len(words)
           I == {i \in 1..Len(line) : VersionFromToken(line[i]) # NoVersionAt}
           first == IF I # {} THEN Min(I) ELSE 0
<1>1. ParseVersion(line) = IF first = 0 THEN NoVersionAt ELSE VersionFromToken(line[first])
  BY DEF ParseVersion, SelectInSeq
<1>2. /\ n \in Nat /\ Len(line) = n + 2 /\ line[n + 1] = word
      /\ \A i \in 1..n : line[i] = words[i]
  OBVIOUS
<1> HIDE DEF line
<1>3. n + 1 \in I /\ I \in SUBSET (1..(n + 2)) /\ n + 2 \in Nat
  BY <1>2
<1>4. \A i \in 1..n : i \notin I
  BY <1>2
<1> HIDE DEF I
<1>5. Min(I) \in I /\ Min(I) <= n + 1
  BY <1>3, LeastOf
<1>6. Min(I) = n + 1
  <2>1. Min(I) \notin 1..n
    BY <1>4, <1>5, Zenon
  <2>2. Min(I) \in 1..(n + 2)
    BY <1>3, <1>5
  <2> HIDE DEF n
  <2>3. QED BY <1>2, <1>5, <2>1, <2>2
<1>7. first = n + 1 /\ first # 0
  BY <1>2, <1>3, <1>6
<1> HIDE DEF first
<1>8. ParseVersion(line) = VersionFromToken(word)
  BY <1>1, <1>2, <1>7
<1>9. QED BY <1>8 DEF line

(* The version a binary prints is the one that is read, after whatever     *)
(* words and whatever follows it (parse_version).                          *)
THEOREM VersionIsRead == Spec => []VersionReadBack
<1>1. InputOK => VersionReadBack
  <2> SUFFICES ASSUME InputOK, input.kind = "version", NEW v \in Versions,
                      NEW suffix \in {<<>>, <<"(">>, <<"-", "rc", "1", ".", "2">>}
               PROVE  ParseVersion(Append(input.lines, Printed(v) \o suffix) \o <<Printed(<<1, 0, 0>>)>>) = v
    BY DEF VersionReadBack
  <2> DEFINE words == input.lines
             word == Printed(v) \o suffix
             other == Printed(<<1, 0, 0>>)
             P == PlainWords \union {word, other}
  <2>1. words \in Seq(PlainWords)
    BY InputKinds DEF FileKinds, FilesRead, LinesOf
  <2>2. /\ v = <<v[1], v[2], v[3]>>
        /\ v[1] \in Figures /\ v[2] \in Figures /\ v[3] \in Figures
    <3>1. 1 \in 1..3 /\ 2 \in 1..3 /\ 3 \in 1..3
      OBVIOUS
    <3>2. QED BY <3>1, VersionsAssumption DEF Figures
  <2>3. /\ suffix \in Seq({"(", "-", "rc", "1", ".", "2"})
        /\ suffix # <<>> => suffix[1] \notin Numerals \union {"."}
    <3>1. CASE suffix = <<>>
      BY <3>1, EmptySeq
    <3>2. CASE suffix = <<"(">>
      BY <3>2 DEF Numerals
    <3>3. CASE suffix = <<"-", "rc", "1", ".", "2">>
      <4>1. suffix[1] = "-"
        BY <3>3
      <4>2. QED BY <3>3, <4>1 DEF Numerals
    <3>4. QED BY <3>1, <3>2, <3>3
  <2>4. VersionFromToken(word) = v
    BY <2>2, <2>3, VersionIs
  <2>5. v # NoVersionAt
    <3>1. \A a, b, c : <<a, b, c>> # NoVersionAt
      <4>1. ASSUME NEW a, NEW b, NEW c PROVE <<a, b, c>> # NoVersionAt
        <5>1. Len(<<a, b, c>>) = 3 /\ Len(NoVersionAt) = 0
          BY DEF NoVersionAt
        <5> HIDE DEF NoVersionAt
        <5>2. CASE <<a, b, c>> = NoVersionAt
          <6>1. Len(<<a, b, c>>) = Len(NoVersionAt)
            BY <5>2, Zenon
          <6>2. QED BY <5>1, <6>1
        <5>3. QED BY <5>2
      <4>2. QED BY <4>1
    <3>2. QED BY <2>2, <3>1, Zenon
  <2>6. \A i \in 1..Len(words) : VersionFromToken(words[i]) = NoVersionAt
    BY <2>1, PlainWordsAssumption
  <2>7. words \in Seq(P) /\ word \in P /\ other \in P
    BY <2>1
  <2> HIDE DEF words, word, other, P
  <2>8. ParseVersion(Append(words, word) \o <<other>>) = v
    BY <2>4, <2>5, <2>6, <2>7, FirstVersion
  <2>9. QED BY <2>8 DEF words, word, other
<1>2. QED BY <1>1, TextsTyped, PTL

-----------------------------------------------------------------------------
(* Quotes and blanks: what a distribution writes is what is read.          *)
LEMMA QuotedReadBack ==
  ASSUME NEW P, NEW text \in Seq(P), Quotes \intersect P = {}, NEW quote \in Quotes \union {NoQuote}
  PROVE  Unquote(Quoted(quote, text)) = text
<1>1. CASE quote = NoQuote
  <2>1. Quoted(quote, text) = text
    BY <1>1 DEF Quoted
  <2>2. Len(text) >= 2 => text[1] \in P
    OBVIOUS
  <2>3. ~(Len(text) >= 2 /\ text[1] \in Quotes)
    BY <2>2
  <2>4. QED BY <2>1, <2>3 DEF Unquote
<1>2. CASE quote # NoQuote
  <2> DEFINE all == <<quote>> \o text \o <<quote>>
             n == Len(text)
             Q == P \union {quote}
  <2>1. Quoted(quote, text) = all /\ quote \in Quotes
    BY <1>2 DEF Quoted
  <2>2. /\ all \in Seq(Q) /\ n \in Nat /\ Len(all) = n + 2 /\ all[1] = quote /\ all[n + 2] = quote
        /\ \A i \in 1..n : all[i + 1] = text[i]
    OBVIOUS
  <2>3. SubSeq(all, 2, n + 1) = text
    <3> DEFINE inner == SubSeq(all, 2, n + 1)
    <3> HIDE DEF all
    <3>1. inner \in Seq(Q) /\ Len(inner) = n /\ \A i \in 1..n : inner[i] = all[i + 1]
      BY <2>2
    <3>2. text \in Seq(Q) /\ \A i \in 1..Len(inner) : inner[i] = text[i]
      BY <2>2, <3>1
    <3> HIDE DEF inner
    <3>3. inner = text
      BY <3>1, <3>2, SeqEqual
    <3>4. QED BY <3>3 DEF inner
  <2> HIDE DEF all
  <2>4. Last(all) = quote /\ Len(all) >= 2 /\ Len(all) - 1 = n + 1
    BY <2>2 DEF Last
  <2>5. Unquote(all) = SubSeq(all, 2, n + 1)
    BY <2>1, <2>2, <2>4 DEF Unquote
  <2>6. QED BY <2>1, <2>3, <2>5
<1>3. QED BY <1>1, <1>2

(* The parts of a text that are words are all kept, in their order.        *)
LEMMA WordsSteps ==
  ASSUME NEW P, NEW value, NEW parts \in Seq(Seq(P)), SplitAt(value, Blank) = parts
  PROVE  \E h : /\ h[0] = <<>>
                /\ \A k \in 1..Len(parts) : h[k] = WithWord(h[k-1], parts[k])
                /\ Words(value) = h[Len(parts)]
<1> SUFFICES ASSUME NEW n \in Nat, n = Len(parts)
             PROVE  \E h : /\ h[0] = <<>>
                           /\ \A k \in 1..n : h[k] = WithWord(h[k-1], parts[k])
                           /\ Words(value) = h[n]
  OBVIOUS
<1> DEFINE Def(f) == [s \in SUBSET (1..n) |->
                        IF s = {} THEN <<>> ELSE WithWord(f[s \ {Max(s)}], parts[Max(s)])]
           F == CHOOSE f : f = Def(f)
           h == [k \in 0..n |-> F[1..k]]
           X == Seq(Seq(P))
<1>1. DOMAIN parts = 1..n /\ \A i \in 1..n : parts[i] \in Seq(P)
  OBVIOUS
<1>2. F = Def(F)
  <2> DEFINE g == [p \in X \X (1..n) |-> WithWord(p[1], parts[p[2]])]
  <2>1. <<>> \in X /\ \A words \in X, part \in Seq(P) : WithWord(words, part) \in X
    BY EmptySeq, AppendProperties DEF WithWord
  <2>2. g \in [X \X (1..n) -> X]
    BY <1>1, <2>1
  <2> HIDE DEF X
  <2>3. PICK f : IsFold(f, n, X, <<>>, g)
    <3> HIDE DEF g
    <3>1. QED BY <2>1, <2>2, FoldExists
  <2>4. ASSUME NEW s \in SUBSET (1..n), s # {}
        PROVE  f[s] = WithWord(f[s \ {Max(s)}], parts[Max(s)])
    <3>1. Max(s) \in 1..n
      BY <2>4, GreatestOf
    <3>2. f[s \ {Max(s)}] \in X
      BY <2>3 DEF IsFold
    <3>3. QED BY <2>3, <2>4, <3>1, <3>2 DEF IsFold
  <2>5. f = Def(f)
    BY <2>3, <2>4 DEF IsFold
  <2> HIDE DEF Def
  <2>6. QED BY <2>5
<1>3. Words(value) = F[1..n]
  BY <1>1 DEF Words, FoldLeft, MapThenFoldSet
<1> HIDE DEF F
<1>4. h[0] = <<>>
  <2>1. {} \in SUBSET (1..n) /\ 1..0 = {} /\ 0 \in 0..n
    OBVIOUS
  <2>2. F[{}] = <<>>
    BY <1>2, <2>1
  <2>3. QED BY <2>1, <2>2
<1>5. ASSUME NEW k \in 1..n PROVE h[k] = WithWord(h[k-1], parts[k])
  <2>1. /\ 1..k \in SUBSET (1..n) /\ 1..k # {}
        /\ Max(1..k) = k /\ (1..k) \ {k} = 1..(k-1)
    BY PositionsUpTo
  <2>2. F[1..k] = WithWord(F[1..(k-1)], parts[k])
    BY <1>2, <2>1
  <2>3. k \in 0..n /\ k - 1 \in 0..n
    OBVIOUS
  <2>4. QED BY <2>2, <2>3
<1>6. Words(value) = h[n]
  BY <1>3
<1> HIDE DEF h
<1>7. QED BY <1>4, <1>5, <1>6

LEMMA WordsKept ==
  ASSUME NEW P, NEW value, NEW parts \in Seq(Seq(P)), SplitAt(value, Blank) = parts,
         \A i \in 1..Len(parts) : parts[i] # <<>>
  PROVE  Words(value) = parts
<1> DEFINE n == Len(parts)
<1>1. PICK h : /\ h[0] = <<>>
               /\ \A k \in 1..n : h[k] = WithWord(h[k-1], parts[k])
               /\ Words(value) = h[n]
  BY WordsSteps
<1> DEFINE T == {k \in 0..n : h[k] = SubSeq(parts, 1, k)}
<1>2. n \in Nat /\ 0 \in 0..n /\ n \in 0..n
  OBVIOUS
<1>3. 0 \in T
  BY <1>1, <1>2, Growing
<1>4. ASSUME NEW j \in 0..(n-1), j \in T PROVE j + 1 \in T
  <2> DEFINE k == j + 1
  <2>1. k \in 1..n /\ k - 1 = j /\ k \in 0..n
    BY <1>2
  <2> HIDE DEF k
  <2>2. SubSeq(parts, 1, k) = Append(SubSeq(parts, 1, j), parts[k]) /\ parts[k] # <<>>
    BY <2>1, Growing
  <2>3. h[k] = WithWord(SubSeq(parts, 1, j), parts[k])
    BY <1>1, <1>4, <2>1
  <2>4. h[k] = SubSeq(parts, 1, k)
    BY <2>2, <2>3 DEF WithWord
  <2>5. QED BY <2>1, <2>4 DEF k
<1>5. n \in T
  <2> HIDE DEF T, n
  <2>1. QED BY <1>2, <1>3, <1>4, UpTo
<1>6. SubSeq(parts, 1, n) = parts
  BY Growing
<1>7. QED BY <1>1, <1>5, <1>6

(* Names joined by blanks are taken apart into the same names.             *)
LEMMA JoinedReadBack ==
  ASSUME NEW P, Blank \notin P, NEW ids \in Seq(Seq(P)),
         \A i \in 1..Len(ids) : ids[i] # <<>>
  PROVE  Words(Joined(ids)) = ids /\ Joined(ids) \in Seq(P \union {Blank})
<1> DEFINE n == Len(ids)
           Q == P \union {Blank}
           seqs == [i \in DOMAIN ids |-> IF i = 1 THEN ids[i] ELSE <<Blank>> \o ids[i]]
<1>1. n \in Nat /\ DOMAIN ids = 1..n
  OBVIOUS
<1>2. ASSUME NEW i \in 1..n
      PROVE  /\ ids[i] \in Seq(P) /\ ids[i] \in Seq(Q) /\ Sequence(ids[i])
             /\ \A j \in 1..Len(ids[i]) : ids[i][j] # Blank
  <2> DEFINE id == ids[i]
  <2>1. id \in Seq(P)
    OBVIOUS
  <2> HIDE DEF id
  <2>2. id \in Seq(Q) /\ \A j \in 1..Len(id) : id[j] # Blank
    BY <2>1
  <2>3. QED BY <2>1, <2>2 DEF id, Sequence
<1>3. seqs \in Seq(Seq(Q)) /\ Len(seqs) = n
  <2>1. \A i \in 1..n : <<Blank>> \o ids[i] \in Seq(Q)
    <3>1. <<Blank>> \in Seq(Q)
      OBVIOUS
    <3> HIDE DEF Q, n
    <3>2. QED BY <1>2, <3>1, ConcatProperties
  <2> HIDE DEF Q
  <2>2. \A i \in 1..n : seqs[i] \in Seq(Q)
    BY <1>1, <1>2, <2>1
  <2>3. seqs = [i \in 1..n |-> seqs[i]]
    BY <1>1
  <2> HIDE DEF seqs
  <2>4. QED BY <1>1, <2>2, <2>3
<1>4. Joined(ids) = FlattenSeq(seqs)
  BY DEF Joined
<1>5. CASE n = 0
  <2>1. Joined(ids) = seqs /\ seqs = <<>> /\ ids = <<>>
    <3> HIDE DEF seqs
    <3>1. FlattenSeq(seqs) = seqs
      BY <1>3, <1>5 DEF FlattenSeq
    <3>2. QED BY <1>3, <1>4, <1>5, <3>1, EmptySeq
  <2>2. Cuts(Blank, PartsRead(<<>>, <<>>), <<>>, PartsRead(<<>>, <<>>)) /\ Sequence(<<>>)
    <3> DEFINE nothing == <<>>
    <3>1. nothing \in Seq({}) /\ nothing \o nothing = nothing /\ 1..Len(nothing) = {}
      BY EmptySeq, ConcatEmptySeq
    <3> HIDE DEF nothing
    <3>2. Cuts(Blank, PartsRead(nothing, nothing), nothing, PartsRead(nothing, nothing \o nothing))
      BY <3>1, CutsText
    <3>3. Cuts(Blank, PartsRead(nothing, nothing), nothing, PartsRead(nothing, nothing)) /\ Sequence(nothing)
      BY <3>1, <3>2 DEF Sequence
    <3>4. QED BY <3>3 DEF nothing
  <2> DEFINE parts == << <<>> >>
  <2>3. SplitAt(<<>>, Blank) = parts
    <3> DEFINE after == PartsRead(<<>>, <<>>)
    <3>1. SplitAt(<<>>, Blank) = Append(after.done, after.part)
      BY <2>2, SplitGives
    <3>2. QED BY <3>1 DEF PartsRead
  <2>4. parts \in Seq(Seq(P)) /\ Len(parts) = 1 /\ parts[1] = <<>>
    OBVIOUS
  <2> HIDE DEF parts
  <2>5. PICK h : /\ h[0] = <<>>
                 /\ \A k \in 1..Len(parts) : h[k] = WithWord(h[k-1], parts[k])
                 /\ Words(<<>>) = h[Len(parts)]
    BY <2>3, <2>4, WordsSteps
  <2>6. Words(<<>>) = <<>>
    <3>1. 1 \in 1..Len(parts) /\ 1 - 1 = 0
      BY <2>4
    <3>2. h[1] = WithWord(<<>>, <<>>)
      BY <2>4, <2>5, <3>1
    <3>3. QED BY <2>4, <2>5, <3>2 DEF WithWord
  <2>7. QED BY <2>1, <2>6, EmptySeq
<1>6. CASE n # 0
  <2>1. PICK flat : Flattens(flat, n, seqs, Q)
    <3> HIDE DEF seqs, Q, n
    <3>1. QED BY <1>1, <1>3, <1>6, FlattenSteps
  <2>2. flat[1] = ids[1] /\ \A i \in 2..n : flat[i] = flat[i-1] \o (<<Blank>> \o ids[i])
    <3>1. 1 \in 1..n /\ \A i \in 2..n : i \in 1..n /\ i # 1
      BY <1>1, <1>6
    <3>2. seqs[1] = ids[1] /\ \A i \in 2..n : seqs[i] = <<Blank>> \o ids[i]
      BY <1>1, <3>1
    <3> HIDE DEF seqs
    <3>3. QED BY <2>1, <3>2 DEF Flattens
  <2>3. \A i \in 1..n : flat[i] \in Seq(Q) /\ Sequence(flat[i])
    BY <2>1 DEF Flattens, Sequence
  <2>4. FlattenSeq(seqs) = flat[n]
    BY <2>1 DEF Flattens
  <2> HIDE DEF seqs, Q
  <2> DEFINE Nowhere == PartsRead(<<>>, <<>>)
             Before(k) == Cuts(Blank, Nowhere, flat[k+1], PartsRead(SubSeq(ids, 1, k), ids[k+1]))
             T == {k \in 0..(n-1) : Before(k)}
  <2>5. 0 \in T
    <3>1. 1 \in 1..n /\ 0 \in 0..(n-1) /\ 0 + 1 = 1
      BY <1>1, <1>6
    <3>2. SubSeq(ids, 1, 0) = <<>>
      BY Growing
    <3>3. <<>> \in Seq(P) /\ <<>> \o ids[1] = ids[1]
      BY <1>2, <3>1, EmptySeq, ConcatEmptySeq
    <3>4. Cuts(Blank, Nowhere, ids[1], PartsRead(<<>>, ids[1]))
      BY <1>2, <3>1, <3>3, CutsText
    <3>5. QED BY <2>2, <3>1, <3>2, <3>4
  <2>6. ASSUME NEW j \in 0..((n-1)-1), j \in T PROVE j + 1 \in T
    <3> DEFINE k == j + 1
    <3>1. k \in 1..n /\ k + 1 \in 2..n /\ k + 1 \in 1..n /\ k \in 0..(n-1) /\ (k + 1) - 1 = k
      BY <1>1
    <3>2. Cuts(Blank, Nowhere, flat[k], PartsRead(SubSeq(ids, 1, j), ids[k]))
      BY <2>6
    <3>3. SubSeq(ids, 1, k) = Append(SubSeq(ids, 1, j), ids[k])
      <4>1. k - 1 = j
        BY <1>1
      <4>2. QED BY <3>1, <4>1, Growing
    <3> HIDE DEF k, Nowhere
    <3>4. flat[k+1] = flat[k] \o (<<Blank>> \o ids[k+1])
      BY <2>2, <3>1
    <3>5. Sequence(flat[k]) /\ Sequence(ids[k+1]) /\ \A i \in 1..Len(ids[k+1]) : ids[k+1][i] # Blank
      BY <1>2, <2>3, <3>1
    <3> DEFINE text == flat[k]
               part == ids[k+1]
               done == SubSeq(ids, 1, j)
               last == ids[k]
    <3> HIDE DEF text, part, done, last
    <3>6. Cuts(Blank, Nowhere, text \o (<<Blank>> \o part), PartsRead(Append(done, last), part))
      BY <3>2, <3>5, CutsPart DEF text, part, done, last
    <3>7. Cuts(Blank, Nowhere, flat[k+1], PartsRead(SubSeq(ids, 1, k), ids[k+1]))
      BY <3>3, <3>4, <3>6 DEF text, part, done, last
    <3>8. QED BY <3>1, <3>7 DEF k
  <2>7. n - 1 \in T
    <3>1. n - 1 \in Nat /\ n - 1 \in 0..(n-1)
      BY <1>1, <1>6
    <3> HIDE DEF T
    <3>2. QED BY <2>5, <2>6, <3>1, UpTo
  <2>8. Cuts(Blank, Nowhere, flat[n], PartsRead(SubSeq(ids, 1, n - 1), ids[n]))
    <3>1. (n - 1) + 1 = n
      BY <1>1
    <3>2. Before(n - 1)
      BY <2>7
    <3>3. QED BY <3>1, <3>2
  <2>9. n \in 1..n /\ SubSeq(ids, 1, n) = ids /\ SubSeq(ids, 1, n) = Append(SubSeq(ids, 1, n - 1), ids[n])
    <3>1. n \in 1..n
      BY <1>1, <1>6
    <3>2. QED BY <3>1, Growing
  <2>10. SplitAt(flat[n], Blank) = ids
    <3> DEFINE after == PartsRead(SubSeq(ids, 1, n - 1), ids[n])
    <3>1. SplitAt(flat[n], Blank) = Append(after.done, after.part)
      BY <2>3, <2>8, <2>9, SplitGives
    <3>2. after.done = SubSeq(ids, 1, n - 1) /\ after.part = ids[n]
      BY DEF PartsRead
    <3>3. QED BY <2>9, <3>1, <3>2
  <2>11. Words(flat[n]) = ids
    BY <2>10, WordsKept
  <2>12. QED BY <1>4, <2>3, <2>4, <2>9, <2>11 DEF Q
<1>7. QED BY <1>5, <1>6

-----------------------------------------------------------------------------
(* parse_os_release: the file is read line by line.                        *)
OsStates(lines) ==
  [id : {<<>>} \union {<<Unquote(lines[i].value)>> : i \in DOMAIN lines},
   id_like : {<<>>} \union {Words(Unquote(lines[i].value)) : i \in DOMAIN lines}]

LEMMA OsLineIs ==
  ASSUME NEW os, NEW line
  PROVE  /\ line.comment => OsReleaseLine(os, line) = os
         /\ ~line.comment /\ line.key = "ID"
              => OsReleaseLine(os, line) = [os EXCEPT !.id = <<Unquote(line.value)>>]
         /\ ~line.comment /\ line.key = "ID_LIKE"
              => OsReleaseLine(os, line) = [os EXCEPT !.id_like = Words(Unquote(line.value))]
         /\ line.key \notin {"ID", "ID_LIKE"} => OsReleaseLine(os, line) = os
BY DEF OsReleaseLine

LEMMA OsLineType ==
  ASSUME NEW lines, NEW os \in OsStates(lines), NEW i \in DOMAIN lines
  PROVE  OsReleaseLine(os, lines[i]) \in OsStates(lines)
<1> DEFINE M == {<<>>} \union {<<Unquote(lines[j].value)>> : j \in DOMAIN lines}
           V == {<<>>} \union {Words(Unquote(lines[j].value)) : j \in DOMAIN lines}
           line == lines[i]
<1>1. /\ os = [id |-> os.id, id_like |-> os.id_like] /\ os.id \in M /\ os.id_like \in V
      /\ OsStates(lines) = [id : M, id_like : V]
  BY DEF OsStates
<1>2. <<Unquote(line.value)>> \in M /\ Words(Unquote(line.value)) \in V
  OBVIOUS
<1> HIDE DEF M, V, line
<1>3. CASE line.comment \/ line.key \notin {"ID", "ID_LIKE"}
  BY <1>3, OsLineIs DEF line
<1>4. CASE ~line.comment /\ line.key = "ID"
  <2>1. OsReleaseLine(os, line) = [os EXCEPT !.id = <<Unquote(line.value)>>]
    BY <1>4, OsLineIs
  <2>2. QED BY <1>1, <1>2, <2>1 DEF line
<1>5. CASE ~line.comment /\ line.key = "ID_LIKE"
  <2>1. OsReleaseLine(os, line) = [os EXCEPT !.id_like = Words(Unquote(line.value))]
    BY <1>5, OsLineIs
  <2>2. QED BY <1>1, <1>2, <2>1 DEF line
<1>6. QED BY <1>3, <1>4, <1>5

LEMMA OsSteps ==
  ASSUME NEW S, NEW lines \in Seq(S)
  PROVE  \E acc : /\ acc[0] = NoOsRelease
                  /\ \A k \in 1..Len(lines) : acc[k] = OsReleaseLine(acc[k-1], lines[k])
                  /\ ParseOsRelease(lines) = acc[Len(lines)]
<1> SUFFICES ASSUME NEW n \in Nat, n = Len(lines)
             PROVE  \E acc : /\ acc[0] = NoOsRelease
                             /\ \A k \in 1..n : acc[k] = OsReleaseLine(acc[k-1], lines[k])
                             /\ ParseOsRelease(lines) = acc[n]
  OBVIOUS
<1> DEFINE Def(f) == [s \in SUBSET (1..n) |->
                        IF s = {} THEN NoOsRelease
                        ELSE OsReleaseLine(f[s \ {Max(s)}], lines[Max(s)])]
           F == CHOOSE f : f = Def(f)
           acc == [k \in 0..n |-> F[1..k]]
           X == OsStates(lines)
<1>1. DOMAIN lines = 1..n
  OBVIOUS
<1>2. F = Def(F)
  <2> DEFINE g == [p \in X \X (1..n) |-> OsReleaseLine(p[1], lines[p[2]])]
  <2>1. NoOsRelease \in X
    BY DEF NoOsRelease, OsStates
  <2>2. g \in [X \X (1..n) -> X]
    BY <1>1, OsLineType
  <2> HIDE DEF X
  <2>3. PICK f : IsFold(f, n, X, NoOsRelease, g)
    <3> HIDE DEF g
    <3>1. QED BY <2>1, <2>2, FoldExists
  <2>4. ASSUME NEW s \in SUBSET (1..n), s # {}
        PROVE  f[s] = OsReleaseLine(f[s \ {Max(s)}], lines[Max(s)])
    <3>1. Max(s) \in 1..n
      BY <2>4, GreatestOf
    <3>2. f[s \ {Max(s)}] \in X
      BY <2>3 DEF IsFold
    <3>3. QED BY <2>3, <2>4, <3>1, <3>2 DEF IsFold
  <2>5. f = Def(f)
    BY <2>3, <2>4 DEF IsFold
  <2> HIDE DEF Def
  <2>6. QED BY <2>5
<1>3. ParseOsRelease(lines) = F[1..n]
  BY <1>1 DEF ParseOsRelease, FoldLeft, MapThenFoldSet
<1> HIDE DEF F
<1>4. acc[0] = NoOsRelease
  <2>1. {} \in SUBSET (1..n) /\ 1..0 = {} /\ 0 \in 0..n
    OBVIOUS
  <2>2. F[{}] = NoOsRelease
    BY <1>2, <2>1
  <2>3. QED BY <2>1, <2>2
<1>5. ASSUME NEW k \in 1..n PROVE acc[k] = OsReleaseLine(acc[k-1], lines[k])
  <2>1. /\ 1..k \in SUBSET (1..n) /\ 1..k # {}
        /\ Max(1..k) = k /\ (1..k) \ {k} = 1..(k-1)
    BY PositionsUpTo
  <2>2. F[1..k] = OsReleaseLine(F[1..(k-1)], lines[k])
    BY <1>2, <2>1
  <2>3. k \in 0..n /\ k - 1 \in 0..n
    OBVIOUS
  <2>4. QED BY <2>2, <2>3
<1>6. ParseOsRelease(lines) = acc[n]
  BY <1>3
<1> HIDE DEF acc
<1>7. QED BY <1>4, <1>5, <1>6

LEMMA OsMore ==
  ASSUME NEW S, NEW lines \in Seq(S), NEW line \in S
  PROVE  ParseOsRelease(Append(lines, line)) = OsReleaseLine(ParseOsRelease(lines), line)
<1> DEFINE n == Len(lines)
           all == Append(lines, line)
<1>1. /\ n \in Nat /\ all \in Seq(S) /\ Len(all) = n + 1 /\ all[n + 1] = line
      /\ \A i \in 1..n : all[i] = lines[i]
  OBVIOUS
<1>2. PICK acc : /\ acc[0] = NoOsRelease
                 /\ \A k \in 1..n : acc[k] = OsReleaseLine(acc[k-1], lines[k])
                 /\ ParseOsRelease(lines) = acc[n]
  BY OsSteps
<1> HIDE DEF all
<1>3. PICK more : /\ more[0] = NoOsRelease
                  /\ \A k \in 1..(n + 1) : more[k] = OsReleaseLine(more[k-1], all[k])
                  /\ ParseOsRelease(all) = more[n + 1]
  BY <1>1, OsSteps
<1> DEFINE T == {k \in 0..n : more[k] = acc[k]}
<1>4. 0 \in T /\ n \in 0..n
  BY <1>1, <1>2, <1>3
<1>5. ASSUME NEW j \in 0..(n-1), j \in T PROVE j + 1 \in T
  <2> DEFINE k == j + 1
  <2>1. k \in 1..n /\ k - 1 = j /\ k \in 0..n /\ k \in 1..(n + 1)
    BY <1>1
  <2> HIDE DEF k
  <2>2. more[k] = acc[k]
    BY <1>1, <1>2, <1>3, <1>5, <2>1
  <2>3. QED BY <2>1, <2>2 DEF k
<1>6. n \in T
  <2> HIDE DEF T, n
  <2>1. QED BY <1>1, <1>4, <1>5, UpTo
<1>7. n + 1 \in 1..(n + 1) /\ (n + 1) - 1 = n
  BY <1>1
<1>8. more[n + 1] = OsReleaseLine(acc[n], line)
  BY <1>1, <1>3, <1>6, <1>7
<1>9. QED BY <1>2, <1>3, <1>8 DEF all

-----------------------------------------------------------------------------
(* What the file has come to say is what its distribution meant.           *)
OsPieces == UNION {UNION {ToSet(id) : id \in ToSet(a.ids)} : a \in OsAssignments}

OsValues == Seq(OsPieces \union {Blank})

OsLines == {[comment |-> comment, key |-> a.key, value |-> Quoted(quote, Joined(a.ids))] :
              comment \in BOOLEAN, a \in OsAssignments, quote \in Quotes \union {NoQuote}}

Meant == input.kind = "os_release" =>
  /\ input.lines \in Seq(OsLines)
  /\ input.meant \in [id : Seq(OsValues), id_like : Seq(OsValues)]
  /\ ParseOsRelease(input.lines) = input.meant

LEMMA IdsAre ==
  ASSUME NEW a \in OsAssignments
  PROVE  /\ a.ids \in Seq(OsValues) /\ Joined(a.ids) \in OsValues
         /\ Words(Joined(a.ids)) = a.ids
         /\ \A quote \in Quotes \union {NoQuote} : Unquote(Quoted(quote, Joined(a.ids))) = Joined(a.ids)
<1> DEFINE ids == a.ids
<1>1. /\ ids \in Seq(ToSet(ids))
      /\ \A id \in ToSet(ids) : /\ id \in Seq(ToSet(id)) /\ id # <<>>
                                /\ ToSet(id) \intersect ({Blank} \union Quotes) = {}
  BY OsAssignmentsAssumption
<1>2. Blank \notin OsPieces /\ Quotes \intersect OsPieces = {}
  BY OsAssignmentsAssumption DEF OsPieces
<1>3. \A id \in ToSet(ids) : ToSet(id) \subseteq OsPieces
  BY DEF OsPieces
<1> HIDE DEF ids
<1>4. \A id \in ToSet(ids) : id \in Seq(OsPieces) /\ id \in OsValues
  <2>1. ASSUME NEW id \in ToSet(ids) PROVE id \in Seq(OsPieces) /\ id \in OsValues
    <3>1. id \in Seq(ToSet(id)) /\ ToSet(id) \subseteq OsPieces
      BY <1>1, <1>3
    <3> DEFINE few == ToSet(id)
               many == OsPieces \union {Blank}
    <3>2. id \in Seq(few) /\ few \subseteq OsPieces /\ few \subseteq many
      BY <3>1
    <3> HIDE DEF few, many
    <3>3. id \in Seq(OsPieces) /\ id \in Seq(many)
      BY <3>2
    <3>4. QED BY <3>3 DEF OsValues, many
  <2>2. QED BY <2>1
<1>5. ids \in Seq(Seq(OsPieces)) /\ ids \in Seq(OsValues) /\ \A i \in 1..Len(ids) : ids[i] # <<>>
  <2> DEFINE some == ToSet(ids)
  <2>1. ids \in Seq(some) /\ some \subseteq Seq(OsPieces) /\ some \subseteq OsValues
        /\ \A id \in some : id # <<>>
    BY <1>1, <1>4
  <2> HIDE DEF some
  <2>2. QED BY <2>1
<1>6. Words(Joined(ids)) = ids /\ Joined(ids) \in OsValues
  BY <1>2, <1>5, JoinedReadBack DEF OsValues
<1>7. ASSUME NEW quote \in Quotes \union {NoQuote}
      PROVE  Unquote(Quoted(quote, Joined(ids))) = Joined(ids)
  <2>1. Quotes \intersect (OsPieces \union {Blank}) = {}
    <3>1. Blank \notin Quotes
      BY Zenon DEF Blank, Quotes
    <3>2. QED BY <1>2, <3>1
  <2>2. QED BY <1>6, <2>1, QuotedReadBack DEF OsValues
<1>8. QED BY <1>5, <1>6, <1>7 DEF ids

LEMMA MeantStarts == Init => Meant
<1> SUFFICES ASSUME Init, input.kind = "os_release" PROVE Meant
  BY DEF Meant
<1>1. input = [kind |-> "os_release", lines |-> <<>>, meant |-> NoOsRelease]
  BY DEF Init, Vm
<1>2. ParseOsRelease(<<>>) = NoOsRelease
  <2>1. <<>> \in Seq({}) /\ Len(<<>>) = 0
    BY EmptySeq
  <2>2. QED BY <2>1, OsSteps
<1>3. <<>> \in Seq(OsLines) /\ <<>> \in Seq(OsValues)
  BY EmptySeq
<1>4. QED BY <1>1, <1>2, <1>3 DEF Meant, NoOsRelease

LEMMA MeantStays == InputOK /\ Meant /\ [Next]_input => Meant'
<1> SUFFICES ASSUME InputOK, Meant, [Next]_input PROVE Meant'
  OBVIOUS
<1>1. CASE Edit
  <2>1. input \in Vms
    BY <1>1, InputKinds DEF Edit
  <2>2. input'.kind = "vm"
    BY <1>1, <2>1 DEF Edit, EditConfig, EditHost, Vms
  <2>3. QED BY <2>2 DEF Meant
<1>2. CASE Type
  <2>1. input \in [kind : {"name"}, text : Seq(NamePieces)]
    BY <1>2, InputKinds DEF Type
  <2>2. input'.kind = "name"
    BY <1>2, <2>1 DEF Type
  <2>3. QED BY <2>2 DEF Meant
<1>3. CASE Grow
  <2>1. input.kind \in FileKinds /\ input \in FilesRead(input.kind)
    BY <1>3, InputKinds DEF Grow, FileKinds
  <2>2. input'.kind = input.kind
    BY <1>3, <2>1 DEF Grow, FilesRead
  <2>3. QED BY <2>1, <2>2 DEF Meant, FileKinds
<1>4. CASE Assign
  <2>1. /\ input = [kind |-> "os_release", lines |-> input.lines, meant |-> input.meant]
        /\ input.kind = "os_release"
    BY <1>4, InputKinds DEF Assign
  <2>2. /\ input.lines \in Seq(OsLines) /\ ParseOsRelease(input.lines) = input.meant
        /\ input.meant \in [id : Seq(OsValues), id_like : Seq(OsValues)]
    BY <2>1 DEF Meant
  <2>3. PICK a \in OsAssignments, quote \in Quotes \union {NoQuote}, comment \in BOOLEAN :
          input' = [input EXCEPT
            !.lines = Append(@, [comment |-> comment, key |-> a.key,
                                 value |-> Quoted(quote, Joined(a.ids))]),
            !.meant = CASE comment -> @
                        [] ~comment /\ a.key = "ID" -> [@ EXCEPT !.id = <<Joined(a.ids)>>]
                        [] ~comment /\ a.key = "ID_LIKE" -> [@ EXCEPT !.id_like = a.ids]
                        [] OTHER -> @]
    BY <1>4 DEF Assign
  <2> DEFINE line == [comment |-> comment, key |-> a.key, value |-> Quoted(quote, Joined(a.ids))]
             meant == CASE comment -> input.meant
                        [] ~comment /\ a.key = "ID" -> [input.meant EXCEPT !.id = <<Joined(a.ids)>>]
                        [] ~comment /\ a.key = "ID_LIKE" -> [input.meant EXCEPT !.id_like = a.ids]
                        [] OTHER -> input.meant
             before == [kind |-> "os_release", lines |-> input.lines, meant |-> input.meant]
  <2>4. input'.kind = "os_release" /\ input'.lines = Append(input.lines, line) /\ input'.meant = meant
    <3>1. input' = [before EXCEPT !.lines = Append(input.lines, line), !.meant = meant]
      BY <2>1, <2>3
    <3> HIDE DEF line, meant
    <3>2. QED BY <3>1
  <2>5. line \in OsLines
    BY DEF OsLines
  <2>6. /\ a.ids \in Seq(OsValues) /\ Joined(a.ids) \in OsValues
        /\ Words(Joined(a.ids)) = a.ids /\ Unquote(line.value) = Joined(a.ids)
    BY IdsAre
  <2>7. line.comment = comment /\ line.key = a.key
    OBVIOUS
  <2>8. meant = OsReleaseLine(input.meant, line)
    <3> HIDE DEF line
    <3>1. CASE comment
      BY <2>7, <3>1, OsLineIs
    <3>2. CASE ~comment /\ a.key = "ID"
      BY <2>6, <2>7, <3>2, OsLineIs
    <3>3. CASE ~comment /\ a.key = "ID_LIKE"
      BY <2>6, <2>7, <3>3, OsLineIs
    <3>4. CASE ~comment /\ a.key \notin {"ID", "ID_LIKE"}
      BY <2>7, <3>4, OsLineIs
    <3>5. QED BY <3>1, <3>2, <3>3, <3>4
  <2>9. meant \in [id : Seq(OsValues), id_like : Seq(OsValues)]
    <3>1. <<Joined(a.ids)>> \in Seq(OsValues)
      BY <2>6
    <3>2. QED BY <2>2, <2>6, <3>1
  <2> HIDE DEF line, meant
  <2>10. Append(input.lines, line) \in Seq(OsLines)
    BY <2>2, <2>5
  <2>11. ParseOsRelease(Append(input.lines, line)) = meant
    BY <2>2, <2>5, <2>8, OsMore
  <2>12. QED BY <2>4, <2>9, <2>10, <2>11 DEF Meant
<1>5. CASE UNCHANGED input
  BY <1>5 DEF Meant
<1>6. QED BY <1>1, <1>2, <1>3, <1>4, <1>5 DEF Next

(* A package manager is found when some name in the file is one's.         *)
LEMMA ManagerFound ==
  ASSUME NEW S, NEW os, os.id \o os.id_like \in Seq(S)
  PROVE  PackageManager(os) # "unknown"
           <=> \E id \in ToSet(os.id \o os.id_like) : ManagersOf(id) # {}
<1> DEFINE ids == os.id \o os.id_like
           I == {i \in 1..Len(ids) : ManagersOf(ids[i]) # {}}
           id == IF I = {} THEN <<Nothing>> ELSE ids[Min(I)]
<1>1. ids \in Seq(S) /\ Len(ids) \in Nat /\ ToSet(ids) = {ids[i] : i \in 1..Len(ids)}
  <2> HIDE DEF ids
  <2>1. ids \in Seq(S)
    BY DEF ids
  <2>2. Len(ids) \in Nat /\ DOMAIN ids = 1..Len(ids)
    BY <2>1
  <2>3. QED BY <2>1, <2>2 DEF ToSet
<1>2. I \in SUBSET (1..Len(ids)) /\ (I # {} => Min(I) \in I)
  BY <1>1, LeastOf
<1>3. PackageManager(os) = IF ManagersOf(id) = {} THEN "unknown"
                           ELSE CHOOSE m \in ManagersOf(id) : TRUE
  <2> DEFINE found == IF I # {} THEN Min(I) ELSE 0
             some == IF found = 0 THEN <<Nothing>> ELSE ids[found]
  <2>1. PackageManager(os) = IF ManagersOf(some) = {} THEN "unknown"
                             ELSE CHOOSE m \in ManagersOf(some) : TRUE
    BY DEF PackageManager, FirstThat, SelectInSeq
  <2>2. I = {} <=> found = 0
    <3> DEFINE n == Len(ids)
    <3>1. n \in Nat /\ I \in SUBSET (1..n) /\ (I # {} => Min(I) \in I)
      BY <1>1, <1>2
    <3> HIDE DEF I, n
    <3>2. I # {} => Min(I) # 0
      BY <3>1
    <3>3. QED BY <3>2
  <2>3. some = id
    BY <2>2
  <2> HIDE DEF some, id
  <2>4. QED BY <2>1, <2>3
<1>4. ManagersOf(<<Nothing>>) = {}
  BY DEF ManagersOf, Managers, Nothing
<1>5. I # {} <=> \E i \in ToSet(ids) : ManagersOf(i) # {}
  BY <1>1
<1>6. \A i : "unknown" \notin ManagersOf(i)
  BY DEF ManagersOf, Managers
<1>7. CASE I = {}
  BY <1>3, <1>4, <1>5, <1>7
<1>8. CASE I # {}
  <2>1. ManagersOf(id) # {}
    BY <1>2, <1>8
  <2> HIDE DEF id
  <2>2. PackageManager(os) \in ManagersOf(id)
    BY <1>3, <2>1
  <2>3. QED BY <1>5, <1>6, <1>8, <2>2
<1>9. QED BY <1>7, <1>8

(* /etc/os-release is read as its distribution meant it, in any quotes and *)
(* past any comments, and a known name in it finds the package manager     *)
(* (parse_os_release, package_manager).                                    *)
THEOREM OsIsRead == Spec => []OsReadBack
<1>1. Meant => OsReadBack
  <2> SUFFICES ASSUME Meant, input.kind = "os_release" PROVE OsReadBack
    BY DEF OsReadBack
  <2> DEFINE os == ParseOsRelease(input.lines)
  <2>1. os = input.meant /\ os \in [id : Seq(OsValues), id_like : Seq(OsValues)]
    BY DEF Meant
  <2> HIDE DEF os
  <2>2. os.id \o os.id_like \in Seq(OsValues)
    BY <2>1
  <2>3. PackageManager(os) # "unknown"
          <=> \E id \in ToSet(os.id \o os.id_like) : ManagersOf(id) # {}
    BY <2>2, ManagerFound
  <2>4. QED BY <2>1, <2>3 DEF OsReadBack, os
<1>2. QED BY <1>1, MeantStarts, MeantStays, TextsTyped, PTL DEF Spec
=============================================================================
