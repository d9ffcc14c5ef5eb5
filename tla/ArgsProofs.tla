------------------------------ MODULE ArgsProofs ------------------------------
(***************************************************************************)
(* Proofs about what the command lines are made of.  Option lists: what    *)
(* QEMU and swtpm read is what the program meant, whatever the paths are.  *)
(* Paths: where a VM's files lie, whose they are and how long they get,    *)
(* whatever the names are.                                                 *)
(***************************************************************************)
EXTENDS ParsersProofs

-----------------------------------------------------------------------------
(* Reading a text takes a reader from one state to another, piece by piece.*)
Reads(doubled, before, text, after) ==
  \E h : /\ h[0] = before
         /\ \A k \in 1..Len(text) : h[k] = Take(h[k-1], text[k], doubled)
         /\ h[Len(text)] = after

State(done, option, comma) == [done |-> done, option |-> option, comma |-> comma]

Comma == ","

(* What one piece does, in a reader's words.                               *)
LEMMA TakeCases ==
  ASSUME NEW done, NEW option, NEW piece, NEW doubled \in BOOLEAN
  PROVE  /\ piece # Comma =>
              /\ Take(State(done, option, FALSE), piece, doubled)
                   = State(done, Append(option, piece), FALSE)
              /\ Take(State(done, option, TRUE), piece, doubled)
                   = State(Append(done, option), <<piece>>, FALSE)
         /\ Take(State(done, option, TRUE), Comma, doubled)
              = State(done, Append(option, Comma), FALSE)
         /\ Take(State(done, option, FALSE), Comma, doubled)
              = IF doubled THEN State(done, option, TRUE)
                ELSE State(Append(done, option), <<>>, FALSE)
<1> DEFINE shut == State(done, option, FALSE)
           open == State(done, option, TRUE)
<1>1. /\ shut = [done |-> done, option |-> option, comma |-> FALSE]
      /\ open = [done |-> done, option |-> option, comma |-> TRUE]
  BY DEF State
<1>2. Take(shut, Comma, doubled)
        = IF doubled THEN State(done, option, TRUE) ELSE State(Append(done, option), <<>>, FALSE)
  <2>1. Take(shut, Comma, TRUE) = State(done, option, TRUE)
    BY <1>1 DEF Take, State, Comma
  <2>2. Take(shut, Comma, FALSE) = State(Append(done, option), <<>>, FALSE)
    BY <1>1 DEF Take, State, Comma
  <2>3. doubled = TRUE \/ doubled = FALSE
    OBVIOUS
  <2> HIDE DEF shut
  <2>4. QED BY <2>1, <2>2, <2>3
<1>3. Take(open, Comma, doubled) = State(done, Append(option, Comma), FALSE)
  BY <1>1 DEF Take, State, Comma
<1>4. ASSUME piece # Comma
      PROVE  Take(shut, piece, doubled) = State(done, Append(option, piece), FALSE)
  BY <1>1, <1>4 DEF Take, State, Comma
<1>5. ASSUME piece # Comma
      PROVE  Take(open, piece, doubled) = State(Append(done, option), <<piece>>, FALSE)
  BY <1>1, <1>5 DEF Take, State, Comma
<1>6. QED BY <1>2, <1>3, <1>4, <1>5

LEMMA TakePiece ==
  ASSUME NEW done, NEW option, NEW piece, piece # Comma, NEW doubled \in BOOLEAN
  PROVE  Take(State(done, option, FALSE), piece, doubled) = State(done, Append(option, piece), FALSE)
<1> DEFINE shut == State(done, option, FALSE)
<1>1. shut = [done |-> done, option |-> option, comma |-> FALSE]
  BY DEF State
<1>2. Take(shut, piece, doubled) = State(done, Append(option, piece), FALSE)
  BY <1>1 DEF Take, State, Comma
<1>3. QED BY <1>2

States(P) == [done : Seq(Seq(P)), option : Seq(P), comma : BOOLEAN]

LEMMA TakeType ==
  ASSUME NEW P, Comma \in P, NEW state \in States(P), NEW piece \in P, NEW doubled \in BOOLEAN
  PROVE  Take(state, piece, doubled) \in States(P)
<1>1. PICK done \in Seq(Seq(P)), option \in Seq(P), comma \in BOOLEAN :
             state = State(done, option, comma)
  BY DEF States, State
<1>2. /\ Append(option, piece) \in Seq(P) /\ Append(option, Comma) \in Seq(P)
      /\ <<piece>> \in Seq(P) /\ <<>> \in Seq(P) /\ Append(done, option) \in Seq(Seq(P))
  OBVIOUS
<1>3. \A d \in Seq(Seq(P)), o \in Seq(P), c \in BOOLEAN : State(d, o, c) \in States(P)
  BY DEF States, State
<1>4. CASE comma = FALSE
  <2>1. state = State(done, option, FALSE)
    BY <1>1, <1>4
  <2>2. Take(state, piece, doubled) \in {State(done, Append(option, piece), FALSE),
          State(done, option, TRUE), State(Append(done, option), <<>>, FALSE)}
    BY <2>1, TakeCases
  <2>3. QED BY <1>2, <1>3, <2>2
<1>5. CASE comma = TRUE
  <2>1. state = State(done, option, TRUE)
    BY <1>1, <1>5
  <2>2. Take(state, piece, doubled) \in {State(done, Append(option, Comma), FALSE),
          State(Append(done, option), <<piece>>, FALSE)}
    BY <2>1, TakeCases
  <2>3. QED BY <1>2, <1>3, <2>2
<1>6. QED BY <1>4, <1>5

Start == State(<<>>, <<>>, FALSE)

(* Split gives the options the reader has at the end.                      *)
LEMMA SplitReads ==
  ASSUME NEW text, Sequence(text), NEW doubled \in BOOLEAN,
         NEW after, Reads(doubled, Start, text, after)
  PROVE  Split(text, doubled) = ToSet(Append(after.done, after.option))
<1>0. PICK P : Comma \in P /\ text \in Seq(P)
  <2>1. PICK S : text \in Seq(S)
    BY DEF Sequence
  <2>2. Comma \in S \union {Comma} /\ text \in Seq(S \union {Comma})
    BY <2>1
  <2>3. QED BY <2>2
<1> SUFFICES ASSUME NEW n \in Nat, n = Len(text)
             PROVE  Split(text, doubled) = ToSet(Append(after.done, after.option))
  BY <1>0
<1> DEFINE Def(f) == [s \in SUBSET (1..n) |->
                        IF s = {} THEN Start
                        ELSE Take(f[s \ {Max(s)}], text[Max(s)], doubled)]
           F == CHOOSE f : f = Def(f)
           X == States(P)
<1>1. DOMAIN text = 1..n /\ \A i \in 1..n : text[i] \in P
  BY <1>0
<1>2. Start \in X
  BY DEF Start, State, States
<1>3. F = Def(F)
  <2> DEFINE g == [p \in X \X (1..n) |-> Take(p[1], text[p[2]], doubled)]
  <2>1. g \in [X \X (1..n) -> X]
    BY <1>0, <1>1, TakeType
  <2> HIDE DEF X
  <2>2. PICK f : IsFold(f, n, X, Start, g)
    <3> HIDE DEF g
    <3>1. QED BY <1>2, <2>1, FoldExists
  <2>3. ASSUME NEW s \in SUBSET (1..n), s # {}
        PROVE  f[s] = Take(f[s \ {Max(s)}], text[Max(s)], doubled)
    <3>1. Max(s) \in 1..n
      BY <2>3, GreatestOf
    <3>2. f[s \ {Max(s)}] \in X
      BY <2>2 DEF IsFold
    <3>3. QED BY <2>2, <2>3, <3>1, <3>2 DEF IsFold
  <2>4. f = Def(f)
    BY <2>2, <2>3 DEF IsFold
  <2> HIDE DEF Def
  <2>5. QED BY <2>4
<1>4. Split(text, doubled) = LET end == F[1..n] IN ToSet(Append(end.done, end.option))
  BY <1>1 DEF Split, FoldLeft, MapThenFoldSet, Start, State
<1>5. PICK h : /\ h[0] = Start
               /\ \A k \in 1..n : h[k] = Take(h[k-1], text[k], doubled)
               /\ h[n] = after
  BY DEF Reads
<1> HIDE DEF F
<1> DEFINE T == {k \in 0..n : F[1..k] = h[k]}
<1>6. 0 \in T
  <2>1. {} \in SUBSET (1..n) /\ 1..0 = {}
    OBVIOUS
  <2>2. F[{}] = Start
    BY <1>3, <2>1
  <2>3. 0 \in 0..n
    OBVIOUS
  <2>4. QED BY <1>5, <2>1, <2>2, <2>3
<1>7. ASSUME NEW j \in 0..(n-1), j \in T PROVE j + 1 \in T
  <2> DEFINE k == j + 1
  <2>1. k \in 1..n /\ k - 1 = j /\ k \in 0..n
    OBVIOUS
  <2> HIDE DEF k
  <2>2. /\ 1..k \in SUBSET (1..n) /\ 1..k # {}
        /\ Max(1..k) = k /\ (1..k) \ {k} = 1..(k-1)
    BY <2>1, PositionsUpTo
  <2>3. F[1..k] = Take(F[1..(k-1)], text[k], doubled)
    BY <1>3, <2>2
  <2>4. F[1..k] = h[k]
    BY <1>5, <1>7, <2>1, <2>3
  <2>5. QED BY <2>1, <2>4 DEF k
<1>8. \A k \in 0..n : k \in T
  <2> HIDE DEF T
  <2>1. QED BY <1>6, <1>7, UpTo
<1>9. F[1..n] = after
  BY <1>5, <1>8
<1>10. QED BY <1>4, <1>9

(* Nothing is read of an empty text, one piece is taken, and one text is   *)
(* read after another.                                                     *)
LEMMA ReadsNothing ==
  ASSUME NEW state, NEW doubled
  PROVE  Reads(doubled, state, <<>>, state)
<1> DEFINE h == [k \in {0} |-> state]
<1>1. h[0] = state /\ Len(<<>>) = 0 /\ 1..0 = {}
  OBVIOUS
<1> HIDE DEF h
<1>2. QED BY <1>1 DEF Reads

LEMMA ReadsPiece ==
  ASSUME NEW state, NEW piece, NEW doubled
  PROVE  Reads(doubled, state, <<piece>>, Take(state, piece, doubled))
<1> DEFINE h == [k \in {0, 1} |-> IF k = 0 THEN state ELSE Take(state, piece, doubled)]
<1>1. h[0] = state /\ h[1] = Take(state, piece, doubled)
  OBVIOUS
<1>2. Len(<<piece>>) = 1 /\ \A k \in 1..1 : k = 1 /\ k - 1 = 0 /\ <<piece>>[k] = piece
  OBVIOUS
<1> HIDE DEF h
<1>3. QED BY <1>1, <1>2 DEF Reads

LEMMA ReadsBoth ==
  ASSUME NEW one, Sequence(one), NEW two, Sequence(two), NEW doubled,
         NEW before, NEW between, NEW after,
         Reads(doubled, before, one, between), Reads(doubled, between, two, after)
  PROVE  Reads(doubled, before, one \o two, after)
<1> DEFINE m == Len(one)
           n == Len(two)
<1>1. PICK h : /\ h[0] = before
               /\ \A k \in 1..m : h[k] = Take(h[k-1], one[k], doubled)
               /\ h[m] = between
  BY DEF Reads
<1>2. PICK r : /\ r[0] = between
               /\ \A k \in 1..n : r[k] = Take(r[k-1], two[k], doubled)
               /\ r[n] = after
  BY DEF Reads
<1>0. PICK P : one \in Seq(P) /\ two \in Seq(P)
  <2>1. PICK S, Q : one \in Seq(S) /\ two \in Seq(Q)
    BY DEF Sequence
  <2>2. one \in Seq(S \union Q) /\ two \in Seq(S \union Q)
    BY <2>1
  <2>3. QED BY <2>2
<1>3. /\ m \in Nat /\ n \in Nat /\ Len(one \o two) = m + n
      /\ \A k \in 1..(m+n) : (one \o two)[k] = IF k <= m THEN one[k] ELSE two[k - m]
  BY <1>0
<1> DEFINE b == [k \in 0..(m+n) |-> IF k <= m THEN h[k] ELSE r[k - m]]
<1> HIDE DEF m, n
<1>4. b[0] = before
  BY <1>1, <1>3
<1>5. b[m+n] = after
  <2>1. CASE n = 0
    BY <1>1, <1>2, <1>3, <2>1
  <2>2. CASE n # 0
    BY <1>2, <1>3, <2>2
  <2>3. QED BY <2>1, <2>2
<1>6. ASSUME NEW k \in 1..(m+n) PROVE b[k] = Take(b[k-1], (one \o two)[k], doubled)
  <2>1. k \in 0..(m+n) /\ k - 1 \in 0..(m+n)
    BY <1>3
  <2>2. CASE k <= m
    <3>1. k \in 1..m /\ b[k] = h[k] /\ b[k-1] = h[k-1] /\ (one \o two)[k] = one[k]
      BY <1>3, <2>1, <2>2
    <3>2. QED BY <1>1, <3>1
  <2>3. CASE ~(k <= m)
    <3>1. k - m \in 1..n /\ b[k] = r[k - m] /\ (one \o two)[k] = two[k - m]
      BY <1>3, <2>1, <2>3
    <3>2. b[k-1] = r[(k - m) - 1]
      <4>1. CASE k - 1 = m
        BY <1>1, <1>2, <1>3, <2>1, <4>1
      <4>2. CASE k - 1 # m
        BY <1>3, <2>1, <2>3, <4>2
      <4>3. QED BY <4>1, <4>2
    <3>3. QED BY <1>2, <3>1, <3>2
  <2>4. QED BY <2>2, <2>3
<1> HIDE DEF b
<1>7. QED BY <1>3, <1>4, <1>5, <1>6 DEF Reads

-----------------------------------------------------------------------------
(* Texts without a comma, and texts with.                                  *)

(* A text without a comma goes to the option that is being read.           *)
LEMMA ReadsText ==
  ASSUME NEW P, NEW option \in Seq(P), NEW text \in Seq(P), NEW done, NEW doubled \in BOOLEAN,
         \A i \in 1..Len(text) : text[i] # Comma
  PROVE  Reads(doubled, State(done, option, FALSE), text, State(done, option \o text, FALSE))
<1> DEFINE n == Len(text)
           Got(k) == option \o SubSeq(text, 1, k)
           h == [k \in 0..n |-> State(done, Got(k), FALSE)]
<1>1. Got(0) = option /\ Got(n) = option \o text
  <2>1. SubSeq(text, 1, 0) = <<>> /\ SubSeq(text, 1, n) = text
    BY SubSeqFull, SubSeqEmpty
  <2>2. option \o <<>> = option
    BY ConcatEmptySeq
  <2>3. QED BY <2>1, <2>2
<1>2. n \in Nat /\ 0 \in 0..n /\ n \in 0..n
  OBVIOUS
<1>3. ASSUME NEW k \in 1..n PROVE h[k] = Take(h[k-1], text[k], doubled)
  <2>1. k \in 0..n /\ k - 1 \in 0..n
    OBVIOUS
  <2>2. Got(k) = Append(Got(k-1), text[k])
    BY OneMorePiece
  <2>3. text[k] # Comma
    OBVIOUS
  <2>4. h[k] = State(done, Got(k), FALSE) /\ h[k-1] = State(done, Got(k-1), FALSE)
    BY <2>1
  <2> HIDE DEF h, Got
  <2>5. Take(State(done, Got(k-1), FALSE), text[k], doubled)
          = State(done, Append(Got(k-1), text[k]), FALSE)
    <3> DEFINE got == Got(k-1)
               piece == text[k]
    <3>1. piece # Comma
      BY <2>3
    <3> HIDE DEF got, piece
    <3>2. Take(State(done, got, FALSE), piece, doubled) = State(done, Append(got, piece), FALSE)
      BY <3>1, TakePiece
    <3>3. QED BY <3>2 DEF got, piece
  <2>6. QED BY <2>2, <2>4, <2>5
<1>4. h[0] = State(done, option, FALSE) /\ h[n] = State(done, option \o text, FALSE)
  <2> HIDE DEF Got
  <2>1. h[0] = State(done, Got(0), FALSE) /\ h[n] = State(done, Got(n), FALSE)
    BY <1>2
  <2> HIDE DEF h
  <2>2. QED BY <1>1, <2>1
<1> HIDE DEF h
<1>5. QED BY <1>3, <1>4 DEF Reads

(* A comma and what follows it make an option of their own.                *)
LEMMA ReadsOption ==
  ASSUME NEW P, NEW option \in Seq(P), NEW text \in Seq(P), NEW done, NEW doubled \in BOOLEAN,
         text # <<>>, \A i \in 1..Len(text) : text[i] # Comma
  PROVE  Reads(doubled, State(done, option, FALSE), <<Comma>> \o text,
                        State(Append(done, option), text, FALSE))
<1>1. Sequence(<<Comma>>) /\ Sequence(text)
  <2>1. <<Comma>> \in Seq({Comma})
    OBVIOUS
  <2>2. QED BY <2>1 DEF Sequence
<1>2. CASE doubled = FALSE
  <2>1. Reads(doubled, State(done, option, FALSE), <<Comma>>, State(Append(done, option), <<>>, FALSE))
    <3>1. Take(State(done, option, FALSE), Comma, doubled) = State(Append(done, option), <<>>, FALSE)
      BY <1>2, TakeCases
    <3>2. QED BY <3>1, ReadsPiece
  <2>2. <<>> \in Seq(P) /\ <<>> \o text = text
    BY ConcatEmptySeq, EmptySeq
  <2>3. Reads(doubled, State(Append(done, option), <<>>, FALSE), text,
                       State(Append(done, option), <<>> \o text, FALSE))
    BY <2>2, ReadsText
  <2>4. QED BY <1>1, <2>1, <2>2, <2>3, ReadsBoth
<1>3. CASE doubled = TRUE
  <2> DEFINE first == <<Head(text)>>
             rest == Tail(text)
  <2>1. /\ first \in Seq(P) /\ rest \in Seq(P) /\ text = first \o rest
        /\ Head(text) # Comma /\ \A i \in 1..Len(rest) : rest[i] # Comma
    <3>1. first \in Seq(P) /\ rest \in Seq(P) /\ Len(rest) = Len(text) - 1 /\ Len(text) # 0
      BY HeadTailProperties
    <3>2. \A i \in 1..Len(rest) : i + 1 \in 1..Len(text) /\ rest[i] = text[i+1]
      BY <3>1, HeadTailProperties
    <3>3. Head(text) = text[1] /\ 1 \in 1..Len(text)
      BY <3>1
    <3>4. first \o rest \in Seq(P) /\ Len(first \o rest) = Len(text)
      BY <3>1
    <3>5. \A i \in 1..Len(text) : (first \o rest)[i] = text[i]
      BY <3>1, <3>2, <3>3
    <3>6. text = first \o rest
      BY <3>4, <3>5, SeqEqual
    <3>7. QED BY <3>1, <3>2, <3>3, <3>6
  <2>2. Reads(doubled, State(done, option, FALSE), <<Comma>>, State(done, option, TRUE))
    <3>1. Take(State(done, option, FALSE), Comma, doubled) = State(done, option, TRUE)
      BY <1>3, TakeCases
    <3>2. QED BY <3>1, ReadsPiece
  <2>3. Reads(doubled, State(done, option, TRUE), first, State(Append(done, option), first, FALSE))
    <3>1. Take(State(done, option, TRUE), Head(text), doubled) = State(Append(done, option), first, FALSE)
      BY <2>1, TakeCases
    <3>2. QED BY <3>1, ReadsPiece
  <2>4. Reads(doubled, State(Append(done, option), first, FALSE), rest,
                       State(Append(done, option), first \o rest, FALSE))
    <3> HIDE DEF first, rest
    <3>1. QED BY <2>1, ReadsText
  <2>5. Sequence(first) /\ Sequence(rest)
    BY <2>1 DEF Sequence
  <2>6. Reads(doubled, State(done, option, TRUE), text, State(Append(done, option), text, FALSE))
    <3> HIDE DEF first, rest
    <3>1. QED BY <2>1, <2>3, <2>4, <2>5, ReadsBoth
  <2>7. QED BY <1>1, <2>2, <2>6, ReadsBoth
<1>4. QED BY <1>2, <1>3

-----------------------------------------------------------------------------
(* Options joined by commas are read one by one.                           *)
Plain(text) == text # <<>> /\ \A i \in 1..Len(text) : text[i] # Comma

LEMMA ReadsListed ==
  ASSUME NEW P, NEW options \in Seq(Seq(P)), NEW n \in Nat, n = Len(options), n # 0,
         \A i \in 1..n : Plain(options[i]), NEW doubled \in BOOLEAN
  PROVE  /\ Reads(doubled, Start, Listed(options),
                  State(SubSeq(options, 1, n-1), options[n], FALSE))
         /\ Sequence(Listed(options))
<1> DEFINE Q == P \union {Comma}
           seqs == [i \in DOMAIN options |-> <<Comma>> \o options[i]]
<1>1. /\ \A i \in 1..n : options[i] \in Seq(Q) /\ <<Comma>> \o options[i] \in Seq(Q)
      /\ <<Comma>> \in Seq(Q)
  OBVIOUS
<1>2. /\ seqs \in Seq(Seq(Q)) /\ Len(seqs) = n
      /\ \A i \in 1..n : seqs[i] = <<Comma>> \o options[i]
  <2>1. DOMAIN options = 1..n
    OBVIOUS
  <2> HIDE DEF Q
  <2>2. seqs \in [1..n -> Seq(Q)]
    BY <1>1, <2>1
  <2>3. QED BY <2>1, <2>2
<1>3. Listed(options) = Tail(FlattenSeq(seqs))
  BY DEF Listed, Comma
<1> HIDE DEF Q, seqs
<1>f. PICK flat : Flattens(flat, n, seqs, Q)
  BY <1>2, FlattenSteps
<1>4. /\ \A i \in 1..n : flat[i] \in Seq(Q)
      /\ flat[1] = seqs[1]
      /\ \A i \in 2..n : flat[i] = flat[i-1] \o seqs[i]
      /\ FlattenSeq(seqs) = flat[n]
  BY <1>f DEF Flattens
<1> DEFINE Read(k) == /\ flat[k] # <<>>
                      /\ Reads(doubled, Start, Tail(flat[k]),
                               State(SubSeq(options, 1, k-1), options[k], FALSE))
           T == {j \in 0..(n-1) : Read(j+1)}
<1>5. 0 \in T
  <2>1. 1 \in 1..n /\ 0 \in 0..(n-1) /\ 0 + 1 = 1 /\ 1 - 1 = 0
    OBVIOUS
  <2>2. flat[1] = <<Comma>> \o options[1] /\ flat[1] # <<>> /\ Tail(flat[1]) = options[1]
    <3>1. flat[1] = <<Comma>> \o options[1] /\ options[1] \in Seq(Q) /\ <<Comma>> \in Seq(Q)
      BY <1>1, <1>2, <1>4, <2>1
    <3>2. /\ Len(flat[1]) = 1 + Len(options[1]) /\ Len(options[1]) \in Nat
          /\ flat[1] \in Seq(Q)
          /\ \A i \in 1..Len(options[1]) : flat[1][i+1] = options[1][i]
      BY <3>1
    <3>3. flat[1] # <<>>
      BY <3>2
    <3>4. /\ Tail(flat[1]) \in Seq(Q) /\ Len(Tail(flat[1])) = Len(options[1])
          /\ \A i \in 1..Len(options[1]) : Tail(flat[1])[i] = options[1][i]
      BY <3>2, <3>3
    <3>5. Tail(flat[1]) = options[1]
      BY <3>1, <3>4, SeqEqual
    <3>6. QED BY <3>1, <3>3, <3>5
  <2>3. \A i \in 1..Len(options[1]) : options[1][i] # Comma
    BY <2>1 DEF Plain
  <2>4. <<>> \in Seq(Q) /\ <<>> \o options[1] = options[1] /\ options[1] \in Seq(Q)
    BY <1>1, <2>1, ConcatEmptySeq, EmptySeq
  <2>5. Reads(doubled, State(<<>>, <<>>, FALSE), options[1], State(<<>>, <<>> \o options[1], FALSE))
    BY <2>3, <2>4, ReadsText
  <2>6. SubSeq(options, 1, 0) = <<>>
    BY SubSeqEmpty
  <2>7. Read(1)
    BY <2>1, <2>2, <2>4, <2>5, <2>6 DEF Start
  <2>8. QED BY <2>1, <2>7
<1>6. ASSUME NEW j \in 0..((n-1)-1), j \in T PROVE j + 1 \in T
  <2> DEFINE k == j + 1
  <2>1. /\ k \in 1..n /\ k + 1 \in 2..n /\ k + 1 \in 1..n /\ (k + 1) - 1 = k
        /\ j + 1 \in 0..(n-1)
    OBVIOUS
  <2>2. Read(k)
    BY <1>6
  <2> HIDE DEF k
  <2> DEFINE next == options[k+1]
  <2>3. flat[k+1] = flat[k] \o (<<Comma>> \o next)
    BY <1>2, <1>4, <2>1
  <2>4. /\ flat[k] \in Seq(Q) /\ next \in Seq(Q) /\ <<Comma>> \o next \in Seq(Q)
        /\ options[k] \in Seq(Q)
    BY <1>1, <1>4, <2>1
  <2>5. flat[k+1] # <<>> /\ Tail(flat[k+1]) = Tail(flat[k]) \o (<<Comma>> \o next)
    <3> DEFINE more == <<Comma>> \o next
               one == flat[k]
               left == Tail(one \o more)
               right == Tail(one) \o more
    <3>1. one \in Seq(Q) /\ more \in Seq(Q) /\ one # <<>>
      BY <2>2, <2>4
    <3> HIDE DEF more, one
    <3>2. Len(one) \in Nat \ {0} /\ Tail(one) \in Seq(Q) /\ Len(Tail(one)) = Len(one) - 1
          /\ \A i \in 1..(Len(one) - 1) : Tail(one)[i] = one[i+1]
      BY <3>1
    <3>3. one \o more \in Seq(Q) /\ Len(one \o more) = Len(one) + Len(more) /\ one \o more # <<>>
      BY <3>1, <3>2
    <3>4. left \in Seq(Q) /\ right \in Seq(Q) /\ Len(left) = Len(right)
      BY <3>1, <3>2, <3>3
    <3>5. ASSUME NEW i \in 1..Len(left) PROVE left[i] = right[i]
      <4>1. left[i] = (one \o more)[i+1] /\ i + 1 \in 1..(Len(one) + Len(more))
        BY <3>1, <3>2, <3>3
      <4>2. CASE i <= Len(one) - 1
        BY <3>1, <3>2, <3>3, <4>1, <4>2
      <4>3. CASE ~(i <= Len(one) - 1)
        <5>1. (one \o more)[i+1] = more[(i + 1) - Len(one)]
          BY <3>1, <3>2, <4>1, <4>3
        <5>2. right[i] = more[i - (Len(one) - 1)]
          BY <3>1, <3>2, <3>3, <3>4, <4>1, <4>3
        <5>3. QED BY <3>2, <4>1, <5>1, <5>2
      <4>4. QED BY <4>2, <4>3
    <3>6. left = right
      <4> HIDE DEF left, right
      <4>1. QED BY <3>4, <3>5, SeqEqual
    <3>7. QED BY <2>3, <3>3, <3>6 DEF one, more
  <2>6. Reads(doubled, State(SubSeq(options, 1, k-1), options[k], FALSE), <<Comma>> \o next,
                       State(Append(SubSeq(options, 1, k-1), options[k]), next, FALSE))
    <3>1. next # <<>> /\ \A i \in 1..Len(next) : next[i] # Comma
      BY <2>1 DEF Plain
    <3> HIDE DEF next
    <3>2. QED BY <2>4, <3>1, ReadsOption
  <2>7. Append(SubSeq(options, 1, k-1), options[k]) = SubSeq(options, 1, (k+1)-1)
    <3>1. <<>> \in Seq(Seq(P)) /\ k \in 1..Len(options)
      BY <2>1
    <3>2. <<>> \o SubSeq(options, 1, k) = Append(<<>> \o SubSeq(options, 1, k-1), options[k])
      BY <3>1, OneMorePiece
    <3>3. SubSeq(options, 1, k) \in Seq(Seq(P)) /\ SubSeq(options, 1, k-1) \in Seq(Seq(P))
      BY <2>1
    <3>4. QED BY <2>1, <3>2, <3>3, ConcatEmptySeq
  <2>8. Sequence(Tail(flat[k])) /\ Sequence(<<Comma>> \o next)
    BY <2>2, <2>4, HeadTailProperties DEF Sequence
  <2>9. Read(k+1)
    <3> HIDE DEF next
    <3>1. Reads(doubled, Start, Tail(flat[k]) \o (<<Comma>> \o next),
                State(Append(SubSeq(options, 1, k-1), options[k]), next, FALSE))
      BY <2>2, <2>6, <2>8, ReadsBoth
    <3>2. QED BY <2>5, <2>7, <3>1 DEF next
  <2>10. QED BY <2>1, <2>9 DEF k
<1>7. n - 1 \in T
  <2>1. n - 1 \in Nat /\ n - 1 \in 0..(n-1)
    OBVIOUS
  <2> HIDE DEF T
  <2>2. QED BY <1>5, <1>6, <2>1, UpTo
<1>8. Read(n)
  <2>1. (n - 1) + 1 = n
    OBVIOUS
  <2>2. Read((n - 1) + 1)
    BY <1>7
  <2>3. QED BY <2>1, <2>2
<1>9. Sequence(Listed(options))
  <2>1. flat[n] \in Seq(Q) /\ flat[n] # <<>>
    BY <1>4, <1>8
  <2>2. QED BY <1>3, <1>4, <2>1, HeadTailProperties DEF Sequence
<1>10. QED BY <1>3, <1>4, <1>8, <1>9

LEMMA TwoPieces ==
  ASSUME NEW a, NEW b
  PROVE  <<a>> \o <<b>> = <<a, b>> /\ <<a, b>> \in Seq({a, b}) /\ <<a>> \in Seq({a, b})
<1> DEFINE u == <<a>> \o <<b>>
           v == <<a, b>>
<1>1. <<a>> \in Seq({a, b}) /\ <<b>> \in Seq({a, b})
  OBVIOUS
<1>2. u \in Seq({a, b}) /\ Len(u) = 2 /\ u[1] = a /\ u[2] = b
  BY <1>1
<1>3. v \in Seq({a, b}) /\ Len(v) = 2 /\ v[1] = a /\ v[2] = b
  OBVIOUS
<1> HIDE DEF u, v
<1>4. \A i \in 1..Len(u) : u[i] = v[i]
  BY <1>2, <1>3
<1>5. u = v
  BY <1>2, <1>3, <1>4, SeqEqual
<1>6. QED BY <1>1, <1>3, <1>5 DEF u, v

(* The commas of a path are doubled, and taken for commas of its own.      *)
LEMMA ReadsDoubled ==
  ASSUME NEW P, NEW option \in Seq(P), NEW path \in Seq(P), NEW done
  PROVE  /\ Reads(TRUE, State(done, option, FALSE), Doubled(path),
                  State(done, option \o path, FALSE))
         /\ Sequence(Doubled(path))
<1>0. PICK n \in Nat : n = Len(path)
  OBVIOUS
<1> DEFINE Q == P \union {Comma}
           seqs == [i \in DOMAIN path |->
                      IF path[i] = "," THEN <<",", ",">> ELSE <<path[i]>>]
           From(k) == option \o SubSeq(path, 1, k)
<1>1. \A i \in 1..n : seqs[i] = IF path[i] = Comma THEN <<Comma, Comma>> ELSE <<path[i]>>
  <2>1. DOMAIN path = 1..n
    BY <1>0
  <2>2. \A i \in 1..n : seqs[i] = IF path[i] = "," THEN <<",", ",">> ELSE <<path[i]>>
    BY <2>1, Zenon
  <2> HIDE DEF seqs
  <2>3. QED BY <2>2, Zenon DEF Comma
<1>2. /\ path \in Seq(Q) /\ option \in Seq(Q) /\ DOMAIN path = 1..n
      /\ <<Comma, Comma>> \in Seq(Q) /\ <<Comma>> \in Seq(Q)
  BY <1>0
<1>3. Doubled(path) = FlattenSeq(seqs) /\ seqs = [i \in 1..n |-> seqs[i]]
  BY <1>2 DEF Doubled
<1> HIDE DEF Q, seqs
<1>4. ASSUME NEW i \in 1..n PROVE seqs[i] \in Seq(Q)
  <2>1. path[i] \in Q
    BY <1>0, <1>2
  <2>2. <<path[i]>> \in Seq(Q)
    BY <2>1
  <2>3. QED BY <1>1, <1>2, <2>2
<1>5. seqs \in Seq(Seq(Q)) /\ Len(seqs) = n
  <2>1. seqs \in [1..n -> Seq(Q)]
    BY <1>3, <1>4
  <2>2. QED BY <2>1
<1>6. CASE n = 0
  <2>1. seqs = <<>> /\ path = <<>>
    BY <1>0, <1>5, <1>6, EmptySeq
  <2>2. FlattenSeq(seqs) = <<>>
    BY <1>5, <1>6, <2>1 DEF FlattenSeq
  <2>3. option \o path = option
    BY <2>1, ConcatEmptySeq
  <2>4. Doubled(path) = <<>>
    BY <1>3, <2>2
  <2>5. Reads(TRUE, State(done, option, FALSE), <<>>, State(done, option, FALSE))
    BY ReadsNothing
  <2>6. Sequence(<<>>)
    BY <1>2, <2>1 DEF Sequence
  <2>7. QED BY <2>3, <2>4, <2>5, <2>6
<1>7. CASE n # 0
  <2>1. PICK flat : Flattens(flat, n, seqs, Q)
    BY <1>5, <1>7, FlattenSteps
  <2>2. /\ \A i \in 1..n : flat[i] \in Seq(Q)
        /\ flat[1] = seqs[1]
        /\ \A i \in 2..n : flat[i] = flat[i-1] \o seqs[i]
        /\ FlattenSeq(seqs) = flat[n]
    BY <2>1 DEF Flattens
  <2>3. ASSUME NEW k \in 1..n
        PROVE  Reads(TRUE, State(done, From(k-1), FALSE), seqs[k], State(done, From(k), FALSE))
    <3> DEFINE before == From(k-1)
               piece == path[k]
    <3>1. From(k) = Append(before, piece)
      BY OneMorePiece
    <3> HIDE DEF before, piece, From
    <3>2. CASE piece = Comma
      <4>1. seqs[k] = <<Comma>> \o <<Comma>>
        <5>1. <<Comma>> \o <<Comma>> = <<Comma, Comma>>
          BY TwoPieces
        <5>2. QED BY <1>1, <3>2, <5>1 DEF piece
      <4>2. Reads(TRUE, State(done, before, FALSE), <<Comma>>, State(done, before, TRUE))
        <5>1. Take(State(done, before, FALSE), Comma, TRUE) = State(done, before, TRUE)
          BY TakeCases
        <5>2. QED BY <5>1, ReadsPiece
      <4>3. Reads(TRUE, State(done, before, TRUE), <<Comma>>, State(done, Append(before, Comma), FALSE))
        <5>1. Take(State(done, before, TRUE), Comma, TRUE) = State(done, Append(before, Comma), FALSE)
          BY TakeCases
        <5>2. QED BY <5>1, ReadsPiece
      <4>4. Sequence(<<Comma>>)
        BY <1>2 DEF Sequence
      <4>5. Reads(TRUE, State(done, before, FALSE), <<Comma>> \o <<Comma>>,
                        State(done, Append(before, Comma), FALSE))
        BY <4>2, <4>3, <4>4, ReadsBoth
      <4>6. QED BY <3>1, <3>2, <4>1, <4>5 DEF before
    <3>3. CASE piece # Comma
      <4>1. seqs[k] = <<piece>>
        BY <1>1, <3>3 DEF piece
      <4>2. Take(State(done, before, FALSE), piece, TRUE) = State(done, Append(before, piece), FALSE)
        BY <3>3, TakePiece
      <4>3. QED BY <3>1, <4>1, <4>2, ReadsPiece DEF before
    <3>4. QED BY <3>2, <3>3
  <2> DEFINE Read(k) == Reads(TRUE, State(done, option, FALSE), flat[k], State(done, From(k), FALSE))
             T == {j \in 0..(n-1) : Read(j+1)}
  <2>4. From(0) = option /\ From(n) = option \o path
    <3>1. SubSeq(path, 1, 0) = <<>> /\ SubSeq(path, 1, n) = path
      BY <1>0, SubSeqFull, SubSeqEmpty
    <3>2. option \o <<>> = option
      BY ConcatEmptySeq
    <3>3. QED BY <3>1, <3>2
  <2> HIDE DEF From
  <2>5. 0 \in T
    <3>1. 1 \in 1..n /\ 0 \in 0..(n-1) /\ 0 + 1 = 1 /\ 1 - 1 = 0
      BY <1>7
    <3>2. Reads(TRUE, State(done, From(0), FALSE), seqs[1], State(done, From(1), FALSE))
      BY <2>3, <3>1
    <3>3. Read(1)
      BY <2>2, <2>4, <3>2
    <3>4. QED BY <3>1, <3>3
  <2>6. ASSUME NEW j \in 0..((n-1)-1), j \in T PROVE j + 1 \in T
    <3> DEFINE k == j + 1
    <3>1. k \in 1..n /\ k + 1 \in 2..n /\ k + 1 \in 1..n /\ (k+1) - 1 = k /\ k \in 0..(n-1)
      BY <1>7
    <3>2. Read(k)
      BY <2>6
    <3> HIDE DEF k
    <3>3. Reads(TRUE, State(done, From(k), FALSE), seqs[k+1], State(done, From(k+1), FALSE))
      BY <2>3, <3>1
    <3>4. flat[k+1] = flat[k] \o seqs[k+1]
      BY <2>2, <3>1
    <3>5. Sequence(flat[k]) /\ Sequence(seqs[k+1])
      BY <1>4, <2>2, <3>1 DEF Sequence
    <3>6. Reads(TRUE, State(done, option, FALSE), flat[k] \o seqs[k+1], State(done, From(k+1), FALSE))
      BY <3>2, <3>3, <3>5, ReadsBoth
    <3>7. QED BY <3>1, <3>4, <3>6 DEF k
  <2>7. Read(n)
    <3>1. n - 1 \in Nat /\ n - 1 \in 0..(n-1) /\ (n - 1) + 1 = n
      BY <1>7
    <3>2. n - 1 \in T
      <4> HIDE DEF T
      <4>1. QED BY <2>5, <2>6, <3>1, UpTo
    <3>3. Read((n - 1) + 1)
      BY <3>2
    <3>4. QED BY <3>1, <3>3
  <2>8. Sequence(flat[n])
    BY <1>7, <2>2 DEF Sequence
  <2>9. QED BY <1>3, <2>2, <2>4, <2>7, <2>8
<1>8. QED BY <1>6, <1>7


(* The options in a list, and those of a list that ends in a path.         *)
OptionsIn(options) == {options[i] : i \in 1..Len(options)}

OptionsUpTo(options, path) ==
  {options[i] : i \in 1..(Len(options)-1)} \union {options[Len(options)] \o path}

LEMMA ReadOptions ==
  ASSUME NEW P, NEW options \in Seq(Seq(P)), NEW n \in Nat, n = Len(options), n # 0,
         NEW last
  PROVE  ToSet(Append(SubSeq(options, 1, n-1), last)) = {options[i] : i \in 1..(n-1)} \union {last}
<1> DEFINE before == SubSeq(options, 1, n-1)
           all == Append(before, last)
<1>1. /\ before \in Seq(Seq(P)) /\ Len(before) = n - 1
      /\ \A i \in 1..(n-1) : before[i] = options[i]
  OBVIOUS
<1> HIDE DEF before
<1>2. /\ DOMAIN all = 1..n /\ all[n] = last
      /\ \A i \in 1..(n-1) : all[i] = options[i]
  <2>1. before \in Seq(Seq(P) \union {last}) /\ last \in Seq(P) \union {last}
    BY <1>1
  <2>2. QED BY <1>1, <2>1
<1> HIDE DEF all
<1>3. ToSet(all) = {all[i] : i \in 1..n}
  BY <1>2 DEF ToSet
<1>4. \A i \in 1..n : i \in 1..(n-1) \/ i = n
  OBVIOUS
<1>5. \A i \in 1..(n-1) : i \in 1..n
  OBVIOUS
<1>6. n \in 1..n
  OBVIOUS
<1>7. QED BY <1>2, <1>3, <1>4, <1>5, <1>6 DEF all, before

(* Sequences of pieces, and a set that has all of theirs.                  *)
LEMMA PiecesOf ==
  ASSUME NEW s, Sequence(s)
  PROVE  s \in Seq(ToSet(s))
<1>1. PICK S : s \in Seq(S)
  BY DEF Sequence
<1>2. /\ Len(s) \in Nat /\ DOMAIN s = 1..Len(s) /\ s = [i \in 1..Len(s) |-> s[i]]
      /\ \A i \in 1..Len(s) : s[i] \in ToSet(s)
  BY <1>1 DEF ToSet
<1>3. s \in [1..Len(s) -> ToSet(s)]
  BY <1>2
<1>4. QED BY <1>2, <1>3, SeqDef

OptionList(options) ==
  /\ Sequence(options) /\ options # <<>>
  /\ \A i \in 1..Len(options) : Sequence(options[i]) /\ Plain(options[i])

LEMMA PiecesOfOptions ==
  ASSUME NEW options, OptionList(options), NEW path, Sequence(path)
  PROVE  \E P : options \in Seq(Seq(P)) /\ path \in Seq(P)
<1> DEFINE P == (UNION {ToSet(options[i]) : i \in 1..Len(options)}) \union ToSet(path)
<1>1. PICK S : options \in Seq(S)
  BY DEF OptionList, Sequence
<1>2. ASSUME NEW i \in 1..Len(options) PROVE options[i] \in Seq(P)
  <2>1. options[i] \in Seq(ToSet(options[i]))
    BY PiecesOf DEF OptionList
  <2>2. ToSet(options[i]) \subseteq P
    OBVIOUS
  <2> HIDE DEF P
  <2>3. QED BY <2>1, <2>2, SeqMonotonic
<1>3. path \in Seq(P)
  <2>1. path \in Seq(ToSet(path)) /\ ToSet(path) \subseteq P
    BY PiecesOf
  <2> HIDE DEF P
  <2>2. QED BY <2>1, SeqMonotonic
<1> HIDE DEF P
<1>4. options \in [1..Len(options) -> Seq(P)] /\ Len(options) \in Nat
  BY <1>1, <1>2
<1>5. options \in Seq(Seq(P))
  BY <1>4, SeqDef
<1>6. QED BY <1>3, <1>5

(* Whatever the path is, commas and all, QEMU reads every option of the    *)
(* list and the path at the end of the last one (`escaped` of args.rs).    *)
THEOREM EscapedReadsBack ==
  ASSUME NEW options, OptionList(options), NEW path, Sequence(path)
  PROVE  QemuReads(Escaped(options, path)) = OptionsUpTo(options, path)
<1>0. PICK P : options \in Seq(Seq(P)) /\ path \in Seq(P)
  BY PiecesOfOptions
<1> DEFINE n == Len(options)
           done == SubSeq(options, 1, n-1)
           end == State(done, options[n] \o path, FALSE)
<1>1. /\ n \in Nat /\ n # 0 /\ options[n] \in Seq(P)
      /\ \A i \in 1..n : Plain(options[i])
  BY <1>0 DEF OptionList
<1> HIDE DEF n
<1>2. /\ Reads(TRUE, Start, Listed(options), State(done, options[n], FALSE))
      /\ Sequence(Listed(options))
  BY <1>0, <1>1, ReadsListed DEF n
<1>3. Reads(TRUE, State(done, options[n], FALSE), Doubled(path), end) /\ Sequence(Doubled(path))
  <2> HIDE DEF done
  <2>1. QED BY <1>0, <1>1, ReadsDoubled
<1>4. Reads(TRUE, Start, Escaped(options, path), end)
  <2> HIDE DEF done, end
  <2>1. QED BY <1>2, <1>3, ReadsBoth DEF Escaped
<1>5. Sequence(Escaped(options, path))
  BY <1>2, <1>3, SequenceBoth DEF Escaped
<1>6. QemuReads(Escaped(options, path)) = ToSet(Append(end.done, end.option))
  <2> HIDE DEF end
  <2>1. QED BY <1>4, <1>5, SplitReads DEF QemuReads
<1>7. end.done = done /\ end.option = options[n] \o path
  <2> HIDE DEF done
  <2>1. QED BY DEF State
<1>8. ToSet(Append(done, options[n] \o path)) = {options[i] : i \in 1..(n-1)} \union {options[n] \o path}
  <2> DEFINE last == options[n] \o path
  <2> HIDE DEF last
  <2>1. ToSet(Append(done, last)) = {options[i] : i \in 1..(n-1)} \union {last}
    BY <1>0, <1>1, ReadOptions DEF n
  <2>2. QED BY <2>1 DEF last
<1>9. QED BY <1>6, <1>7, <1>8 DEF OptionsUpTo, n

(* A list alone is read option by option.                                  *)
LEMMA ListedReadsBack ==
  ASSUME NEW options, OptionList(options)
  PROVE  QemuReads(Listed(options)) = OptionsIn(options)
<1>0. PICK P : options \in Seq(Seq(P))
  <2>1. Sequence(<<>>)
    BY EmptySeq DEF Sequence
  <2>2. QED BY <2>1, PiecesOfOptions
<1> DEFINE n == Len(options)
           done == SubSeq(options, 1, n-1)
           end == State(done, options[n], FALSE)
<1>1. /\ n \in Nat /\ n # 0 /\ options[n] \in Seq(P)
      /\ \A i \in 1..n : Plain(options[i])
  BY <1>0 DEF OptionList
<1> HIDE DEF n
<1>2. Reads(TRUE, Start, Listed(options), end) /\ Sequence(Listed(options))
  BY <1>0, <1>1, ReadsListed DEF n
<1>3. QemuReads(Listed(options)) = ToSet(Append(end.done, end.option))
  <2> HIDE DEF end
  <2>1. QED BY <1>2, SplitReads DEF QemuReads
<1>4. end.done = done /\ end.option = options[n]
  <2> HIDE DEF done
  <2>1. QED BY DEF State
<1>5. ToSet(Append(done, options[n])) = {options[i] : i \in 1..(n-1)} \union {options[n]}
  <2> DEFINE last == options[n]
  <2> HIDE DEF last
  <2>1. ToSet(Append(done, last)) = {options[i] : i \in 1..(n-1)} \union {last}
    BY <1>0, <1>1, ReadOptions DEF n
  <2>2. QED BY <2>1 DEF last
<1>6. {options[i] : i \in 1..(n-1)} \union {options[n]} = {options[i] : i \in 1..n}
  <2>1. \A i \in 1..n : i \in 1..(n-1) \/ i = n
    BY <1>1
  <2>2. (\A i \in 1..(n-1) : i \in 1..n) /\ n \in 1..n
    BY <1>1
  <2>3. QED BY <2>1, <2>2
<1>7. QED BY <1>3, <1>4, <1>5, <1>6 DEF OptionsIn, n

(* swtpm reads a list that ends in a path without commas in the same way.  *)
LEMMA PushedReadsBack ==
  ASSUME NEW options, OptionList(options), NEW path, Sequence(path),
         \A i \in 1..Len(path) : path[i] # Comma
  PROVE  SwtpmReads(Listed(options) \o path) = OptionsUpTo(options, path)
<1>0. PICK P : options \in Seq(Seq(P)) /\ path \in Seq(P)
  BY PiecesOfOptions
<1> DEFINE n == Len(options)
           done == SubSeq(options, 1, n-1)
           end == State(done, options[n] \o path, FALSE)
<1>1. /\ n \in Nat /\ n # 0 /\ options[n] \in Seq(P)
      /\ \A i \in 1..n : Plain(options[i])
  BY <1>0 DEF OptionList
<1> HIDE DEF n
<1>2. /\ Reads(FALSE, Start, Listed(options), State(done, options[n], FALSE))
      /\ Sequence(Listed(options))
  BY <1>0, <1>1, ReadsListed DEF n
<1>3. Reads(FALSE, State(done, options[n], FALSE), path, end) /\ Sequence(path)
  <2> HIDE DEF done
  <2>1. Reads(FALSE, State(done, options[n], FALSE), path, end)
    BY <1>0, <1>1, ReadsText
  <2>2. QED BY <1>0, <2>1 DEF Sequence
<1>4. Reads(FALSE, Start, Listed(options) \o path, end)
  <2> HIDE DEF done, end
  <2>1. QED BY <1>2, <1>3, ReadsBoth
<1>5. Sequence(Listed(options) \o path)
  BY <1>2, <1>3, SequenceBoth
<1>6. SwtpmReads(Listed(options) \o path) = ToSet(Append(end.done, end.option))
  <2> HIDE DEF end
  <2>1. QED BY <1>4, <1>5, SplitReads DEF SwtpmReads
<1>7. end.done = done /\ end.option = options[n] \o path
  <2> HIDE DEF done
  <2>1. QED BY DEF State
<1>8. ToSet(Append(done, options[n] \o path)) = {options[i] : i \in 1..(n-1)} \union {options[n] \o path}
  <2> DEFINE last == options[n] \o path
  <2> HIDE DEF last
  <2>1. ToSet(Append(done, last)) = {options[i] : i \in 1..(n-1)} \union {last}
    BY <1>0, <1>1, ReadOptions DEF n
  <2>2. QED BY <2>1 DEF last
<1>9. QED BY <1>6, <1>7, <1>8 DEF OptionsUpTo, n

-----------------------------------------------------------------------------
(* The arguments of a command line, part by part.                          *)
One(name, value, flag) == IF name = flag THEN {value} ELSE {}

LEMMA NoArgs == Sequence(<<>>) /\ \A flag : Values(<<>>, flag) = {}
<1>1. Sequence(<<>>)
  BY EmptySeq DEF Sequence
<1>2. \A flag : Values(<<>>, flag) = {}
  BY DEF Values
<1>3. QED BY <1>1, <1>2

LEMMA FlagArgs ==
  ASSUME NEW name, NEW value
  PROVE  /\ Sequence(Flag(name, value))
         /\ \A flag : Values(Flag(name, value), flag) = One(name, value, flag)
<1> DEFINE arg == [flag |-> name, value |-> value]
           args == Flag(name, value)
<1>1. arg.flag = name /\ arg.value = value
  OBVIOUS
<1> HIDE DEF arg
<1>2. args = <<arg>>
  BY DEF Flag, arg
<1>3. args \in Seq({arg}) /\ DOMAIN args = {1} /\ args[1] = arg
  BY <1>2
<1> HIDE DEF args
<1>4. \A flag : Values(args, flag) = One(name, value, flag)
  BY <1>1, <1>3 DEF Values, One
<1>5. QED BY <1>3, <1>4 DEF Sequence, args

LEMMA BothArgs ==
  ASSUME NEW one, Sequence(one), NEW two, Sequence(two)
  PROVE  /\ Sequence(one \o two)
         /\ \A flag : Values(one \o two, flag) = Values(one, flag) \union Values(two, flag)
<1>1. Sequence(one \o two)
  BY SequenceBoth
<1>2. PICK S, Q : one \in Seq(S) /\ two \in Seq(Q)
  BY DEF Sequence
<1>3. one \in Seq(S \union Q) /\ two \in Seq(S \union Q)
  BY <1>2
<1> DEFINE both == one \o two
           m == Len(one)
           n == Len(two)
<1>4. /\ m \in Nat /\ n \in Nat /\ DOMAIN one = 1..m /\ DOMAIN two = 1..n
      /\ DOMAIN both = 1..(m+n)
      /\ \A i \in 1..m : both[i] = one[i]
      /\ \A i \in 1..n : both[m+i] = two[i]
  BY <1>3
<1> HIDE DEF both, m, n
<1>5. ASSUME NEW flag
      PROVE  Values(both, flag) = Values(one, flag) \union Values(two, flag)
  <2>1. ASSUME NEW i \in 1..(m+n), both[i].flag = flag
        PROVE  both[i].value \in Values(one, flag) \union Values(two, flag)
    <3>1. CASE i <= m
      <4>1. i \in 1..m /\ both[i] = one[i]
        BY <1>4, <3>1
      <4>2. QED BY <1>4, <2>1, <4>1 DEF Values
    <3>2. CASE ~(i <= m)
      <4>1. i - m \in 1..n /\ m + (i - m) = i
        BY <1>4, <3>2
      <4>2. both[i] = two[i - m]
        BY <1>4, <4>1
      <4>3. QED BY <1>4, <2>1, <4>1, <4>2 DEF Values
    <3>3. QED BY <3>1, <3>2
  <2>2. ASSUME NEW i \in 1..m, one[i].flag = flag PROVE one[i].value \in Values(both, flag)
    <3>1. i \in 1..(m+n) /\ both[i] = one[i]
      BY <1>4
    <3>2. QED BY <1>4, <2>2, <3>1 DEF Values
  <2>3. ASSUME NEW i \in 1..n, two[i].flag = flag PROVE two[i].value \in Values(both, flag)
    <3>1. m + i \in 1..(m+n) /\ both[m+i] = two[i]
      BY <1>4
    <3>2. QED BY <1>4, <2>3, <3>1 DEF Values
  <2>4. /\ Values(one, flag) = {one[i].value : i \in {j \in 1..m : one[j].flag = flag}}
        /\ Values(two, flag) = {two[i].value : i \in {j \in 1..n : two[j].flag = flag}}
        /\ Values(both, flag) = {both[i].value : i \in {j \in 1..(m+n) : both[j].flag = flag}}
    BY <1>4 DEF Values
  <2>5. Values(both, flag) \subseteq Values(one, flag) \union Values(two, flag)
    BY <2>1, <2>4
  <2>6. Values(one, flag) \subseteq Values(both, flag)
    BY <2>2, <2>4
  <2>7. Values(two, flag) \subseteq Values(both, flag)
    BY <2>3, <2>4
  <2>8. QED BY <2>5, <2>6, <2>7
<1>6. QED BY <1>1, <1>5 DEF both

-----------------------------------------------------------------------------
(* Where the files of a VM are.                                            *)
Slash == "/"

(* A text that can be joined to a path, and one that can be gone on from.  *)
Fits(text)  == Sequence(text) /\ text # <<>> /\ text[1] # Slash
EndsIn(text, piece) == Sequence(text) /\ text # <<>> /\ text[Len(text)] = piece

LEMMA OnePieceFits ==
  ASSUME NEW piece
  PROVE  EndsIn(<<piece>>, piece) /\ (piece # Slash => Fits(<<piece>>))
<1> DEFINE text == <<piece>>
<1>1. text \in Seq({piece}) /\ Len(text) = 1 /\ text[1] = piece
  OBVIOUS
<1> HIDE DEF text
<1>2. text # <<>>
  <2>1. Len(text) # 0
    BY <1>1
  <2>2. Len(<<>>) = 0
    OBVIOUS
  <2>3. QED BY <2>1, <2>2, Zenon
<1>3. Sequence(text)
  BY <1>1 DEF Sequence
<1>4. QED BY <1>1, <1>2, <1>3 DEF EndsIn, Fits, text

LEMMA EndOfBoth ==
  ASSUME NEW one, Sequence(one), NEW two, NEW piece, EndsIn(two, piece)
  PROVE  /\ EndsIn(one \o two, piece)
         /\ one # <<>> => (one \o two)[1] = one[1]
<1>1. PICK S, Q : one \in Seq(S) /\ two \in Seq(Q)
  BY DEF EndsIn, Sequence
<1>2. one \in Seq(S \union Q) /\ two \in Seq(S \union Q)
  BY <1>1
<1> DEFINE P == S \union Q
           both == one \o two
<1> HIDE DEF P
<1>3. /\ both \in Seq(P) /\ Len(both) = Len(one) + Len(two)
      /\ Len(one) \in Nat /\ Len(two) \in Nat
      /\ \A i \in 1..Len(one) : both[i] = one[i]
      /\ \A i \in 1..Len(two) : both[Len(one) + i] = two[i]
  BY <1>2 DEF P
<1>4. Len(two) # 0
  BY <1>2, EmptySeq DEF EndsIn, P
<1> HIDE DEF both
<1>5. both[Len(both)] = piece
  BY <1>3, <1>4 DEF EndsIn
<1>6. both # <<>>
  <2>1. Len(both) # 0
    BY <1>3, <1>4
  <2>2. Len(<<>>) = 0
    OBVIOUS
  <2>3. QED BY <2>1, <2>2, Zenon
<1>7. Sequence(both)
  BY <1>3 DEF Sequence
<1>8. ASSUME one # <<>> PROVE both[1] = one[1]
  <2>1. Len(one) # 0
    BY <1>2, <1>8, EmptySeq DEF P
  <2>2. QED BY <1>3, <2>1
<1>9. QED BY <1>5, <1>6, <1>7, <1>8 DEF EndsIn, both

(* What is joined is at the end, and below what does not end in a slash.   *)
LEMMA JoinedEnds ==
  ASSUME NEW path, Sequence(path), NEW rest, Fits(rest), NEW piece, EndsIn(rest, piece)
  PROVE  /\ EndsIn(Join(path, rest), piece)
         /\ path # <<>> /\ path[Len(path)] # Slash => Join(path, rest) = path \o <<Slash>> \o rest
<1>1. Join(path, rest) = IF path = <<>> THEN rest
                         ELSE IF path[Len(path)] = Slash THEN path \o rest
                         ELSE path \o <<Slash>> \o rest
  BY DEF Join, Fits, Slash, Last
<1>2. EndsIn(path \o rest, piece)
  BY EndOfBoth
<1>3. EndsIn(path \o <<Slash>> \o rest, piece)
  <2> DEFINE slash == <<Slash>>
             start == path \o slash
  <2>1. EndsIn(slash, Slash)
    BY OnePieceFits
  <2> HIDE DEF slash
  <2>2. Sequence(start)
    BY <2>1, SequenceBoth DEF EndsIn
  <2> HIDE DEF start
  <2>3. EndsIn(start \o rest, piece)
    BY <2>2, EndOfBoth
  <2>4. QED BY <2>3 DEF start, slash
<1>4. QED BY <1>1, <1>2, <1>3

LEMMA CancelLeft ==
  ASSUME NEW one, Sequence(one), NEW two, Sequence(two), NEW same, Sequence(same),
         same \o one = same \o two
  PROVE  one = two
<1>1. PICK S, Q, R : one \in Seq(S) /\ two \in Seq(Q) /\ same \in Seq(R)
  BY DEF Sequence
<1> DEFINE P == S \union Q \union R
           left == same \o one
           right == same \o two
<1>2. one \in Seq(P) /\ two \in Seq(P) /\ same \in Seq(P)
  BY <1>1
<1> HIDE DEF P
<1>3. /\ Len(one) \in Nat /\ Len(two) \in Nat /\ Len(same) \in Nat
      /\ Len(left) = Len(same) + Len(one) /\ Len(right) = Len(same) + Len(two)
      /\ \A i \in 1..Len(one) : left[Len(same) + i] = one[i]
      /\ \A i \in 1..Len(two) : right[Len(same) + i] = two[i]
  BY <1>2
<1>4. left = right
  OBVIOUS
<1> HIDE DEF left, right
<1>5. Len(one) = Len(two)
  BY <1>3, <1>4
<1>6. \A i \in 1..Len(one) : one[i] = two[i]
  BY <1>3, <1>4, <1>5
<1>7. QED BY <1>2, <1>5, <1>6, SeqEqual

LEMMA CancelRight ==
  ASSUME NEW one, Sequence(one), NEW two, Sequence(two), NEW same, Sequence(same),
         one \o same = two \o same
  PROVE  one = two
<1>1. PICK S, Q, R : one \in Seq(S) /\ two \in Seq(Q) /\ same \in Seq(R)
  BY DEF Sequence
<1> DEFINE P == S \union Q \union R
           left == one \o same
           right == two \o same
<1>2. one \in Seq(P) /\ two \in Seq(P) /\ same \in Seq(P)
  BY <1>1
<1> HIDE DEF P
<1>3. /\ Len(one) \in Nat /\ Len(two) \in Nat /\ Len(same) \in Nat
      /\ Len(left) = Len(one) + Len(same) /\ Len(right) = Len(two) + Len(same)
      /\ \A i \in 1..Len(one) : left[i] = one[i]
      /\ \A i \in 1..Len(two) : right[i] = two[i]
  BY <1>2
<1>4. left = right
  OBVIOUS
<1> HIDE DEF left, right
<1>5. Len(one) = Len(two)
  BY <1>3, <1>4
<1>6. \A i \in 1..Len(one) : one[i] = two[i]
  BY <1>3, <1>4, <1>5
<1>7. QED BY <1>2, <1>5, <1>6, SeqEqual

EnvOK(env) == Sequence(env.xdg_data_home) /\ Sequence(env.home) /\ Sequence(env.xdg_runtime_dir)

LEMMA VmsDirIs ==
  ASSUME NEW env, EnvOK(env)
  PROVE  EndsIn(VmsDir(env), "vms")
<1> DEFINE share == <<".local", "/", "share">>
           app == <<"daholyvm">>
           vms == <<"vms">>
           above == IF Given(env.xdg_data_home) THEN env.xdg_data_home ELSE Join(env.home, share)
           data == Join(above, app)
<1>0. VmsDir(env) = Join(data, vms)
  BY DEF VmsDir, DataDir
<1>1. Fits(app) /\ EndsIn(app, "daholyvm") /\ Fits(vms) /\ EndsIn(vms, "vms")
  BY OnePieceFits DEF Slash
<1>2. Fits(share) /\ EndsIn(share, "share")
  <2>1. /\ share \in Seq({".local", "/", "share"}) /\ Len(share) = 3
        /\ share[1] = ".local" /\ share[3] = "share"
    OBVIOUS
  <2> HIDE DEF share
  <2>2. share # <<>>
    <3>1. Len(share) # 0
      BY <2>1
    <3>2. Len(<<>>) = 0
      OBVIOUS
    <3>3. QED BY <3>1, <3>2, Zenon
  <2>3. Sequence(share)
    BY <2>1 DEF Sequence
  <2>4. share[Len(share)] = "share" /\ share[1] # Slash
    BY <2>1 DEF Slash
  <2>5. QED BY <2>2, <2>3, <2>4 DEF Fits, EndsIn
<1> HIDE DEF app, vms, share
<1>3. EndsIn(Join(env.home, share), "share")
  BY <1>2, JoinedEnds DEF EnvOK
<1>4. Sequence(above)
  BY <1>3 DEF EndsIn, EnvOK
<1> HIDE DEF above
<1>5. EndsIn(data, "daholyvm")
  BY <1>1, <1>4, JoinedEnds
<1> HIDE DEF data
<1>6. Sequence(data)
  BY <1>5 DEF EndsIn
<1>7. QED BY <1>0, <1>1, <1>6, JoinedEnds

NameOK(name) == Fits(name) /\ EndsIn(name, name[Len(name)]) /\ name[Len(name)] # Slash

LEMMA NoSlashes == \A piece \in Ordinary \union {"-", "_", "."} : piece # Slash
  BY OrdinaryAssumption, Zenon DEF Slash

(* A valid name has no slash: it is a directory's own.                     *)
LEMMA ValidNameOK ==
  ASSUME NEW name, Sequence(name), ValidName(name)
  PROVE  NameOK(name)
<1>1. PICK S : name \in Seq(S)
  BY DEF Sequence
<1>2. name # <<>> /\ Len(name) \in Nat \ {0} /\ DOMAIN name = 1..Len(name)
  BY <1>1, EmptySeq DEF ValidName
<1>3. \A i \in DOMAIN name : name[i] # Slash
  BY NoSlashes DEF ValidName, Allowed
<1>4. name[1] # Slash /\ name[Len(name)] # Slash
  BY <1>2, <1>3
<1>5. QED BY <1>2, <1>4 DEF NameOK, Fits, EndsIn

LEMMA VmDirIs ==
  ASSUME NEW env, EnvOK(env), NEW name, NameOK(name)
  PROVE  /\ VmDir(env, name) = VmsDir(env) \o <<Slash>> \o name
         /\ EndsIn(VmDir(env, name), name[Len(name)])
<1>1. EndsIn(VmsDir(env), "vms") /\ "vms" # Slash
  BY VmsDirIs DEF Slash
<1> DEFINE vms == VmsDir(env)
           last == name[Len(name)]
<1>2. Sequence(vms) /\ vms # <<>> /\ vms[Len(vms)] # Slash /\ Fits(name) /\ EndsIn(name, last)
  BY <1>1 DEF EndsIn, NameOK
<1> HIDE DEF vms, last
<1>3. EndsIn(Join(vms, name), last) /\ Join(vms, name) = vms \o <<Slash>> \o name
  BY <1>2, JoinedEnds
<1>4. QED BY <1>3 DEF VmDir, vms, last

(* A file in a VM's directory, and in a directory that ends in no slash.   *)
LEMMA FileIn ==
  ASSUME NEW dir, NEW last, EndsIn(dir, last), last # Slash, NEW file, file # Slash
  PROVE  /\ Join(dir, <<file>>) = dir \o <<Slash>> \o <<file>>
         /\ EndsIn(Join(dir, <<file>>), file)
<1> DEFINE rest == <<file>>
<1>1. Fits(rest) /\ EndsIn(rest, file)
  BY OnePieceFits
<1> HIDE DEF rest
<1>2. Sequence(dir) /\ dir # <<>> /\ dir[Len(dir)] # Slash
  BY DEF EndsIn
<1>3. EndsIn(Join(dir, rest), file) /\ Join(dir, rest) = dir \o <<Slash>> \o rest
  BY <1>1, <1>2, JoinedEnds
<1>4. QED BY <1>3 DEF rest

LEMMA FilesOfDirs ==
  ASSUME NEW one, NEW last1, EndsIn(one, last1), last1 # Slash,
         NEW two, NEW last2, EndsIn(two, last2), last2 # Slash,
         NEW file, file # Slash, Join(one, <<file>>) = Join(two, <<file>>)
  PROVE  one = two
<1> DEFINE slash == <<Slash>>
           rest == <<file>>
<1>1. (one \o slash) \o rest = (two \o slash) \o rest
  BY FileIn
<1>2. Sequence(slash) /\ Sequence(rest) /\ Sequence(one) /\ Sequence(two)
  BY OnePieceFits DEF EndsIn
<1> HIDE DEF slash, rest
<1>3. Sequence(one \o slash) /\ Sequence(two \o slash)
  BY <1>2, SequenceBoth
<1>4. one \o slash = two \o slash
  BY <1>1, <1>2, <1>3, CancelRight
<1>5. QED BY <1>2, <1>4, CancelRight

LEMMA DirsApart ==
  ASSUME NEW env, EnvOK(env), NEW one, NameOK(one), NEW two, NameOK(two),
         VmDir(env, one) = VmDir(env, two)
  PROVE  one = two
<1> DEFINE vms == VmsDir(env)
           slash == <<Slash>>
           below == vms \o slash
<1>1. Sequence(vms) /\ Sequence(slash) /\ Sequence(one) /\ Sequence(two)
  BY VmsDirIs, OnePieceFits DEF EndsIn, NameOK
<1>2. below \o one = below \o two
  BY VmDirIs
<1> HIDE DEF vms, slash
<1>3. Sequence(below)
  BY <1>1, SequenceBoth
<1> HIDE DEF below
<1>4. QED BY <1>1, <1>2, <1>3, CancelLeft

(* The files of a VM.                                                      *)
LEMMA FilesOfVmAre ==
  ASSUME NEW env, EnvOK(env), NEW name, NameOK(name)
  PROVE  /\ EndsIn(VmPaths(env, name).disk, "disk.qcow2")
         /\ EndsIn(VmPaths(env, name).vars, "OVMF_VARS.fd")
         /\ EndsIn(VmPaths(env, name).tpm_state, "tpm")
         /\ Sequence(VmPaths(env, name).tpm_socket)
         /\ Len(VmPaths(env, name).disk) # 1
         /\ Len(VmPaths(env, name).vars) # 1
<1> DEFINE dir == VmDir(env, name)
           last == name[Len(name)]
<1>1. EndsIn(dir, last) /\ last # Slash
  BY VmDirIs DEF NameOK
<1>2. /\ "disk.qcow2" # Slash /\ "OVMF_VARS.fd" # Slash /\ "tpm" # Slash
      /\ "swtpm.sock" # Slash /\ "daholyvm" # Slash
  BY DEF Slash
<1> HIDE DEF dir, last
<1>3. EndsIn(Join(dir, <<"disk.qcow2">>), "disk.qcow2")
  BY <1>1, <1>2, FileIn
<1>4. EndsIn(Join(dir, <<"OVMF_VARS.fd">>), "OVMF_VARS.fd")
  BY <1>1, <1>2, FileIn
<1>5. EndsIn(Join(dir, <<"tpm">>), "tpm")
  BY <1>1, <1>2, FileIn
<1>6. ASSUME NEW file, file # Slash PROVE Len(Join(dir, <<file>>)) # 1
  <2> DEFINE slash == <<Slash>>
             start == dir \o slash
             rest == <<file>>
  <2>1. Join(dir, rest) = start \o rest
    BY <1>1, <1>6, FileIn
  <2>2. EndsIn(slash, Slash) /\ EndsIn(rest, file)
    BY OnePieceFits
  <2> HIDE DEF slash, rest
  <2>3. Sequence(slash) /\ Sequence(rest) /\ Sequence(dir)
    BY <1>1, <2>2 DEF EndsIn
  <2>4. PICK S, Q, R : dir \in Seq(S) /\ slash \in Seq(Q) /\ rest \in Seq(R)
    BY <2>3 DEF Sequence
  <2> DEFINE P == S \union Q \union R
  <2>5. dir \in Seq(P) /\ slash \in Seq(P) /\ rest \in Seq(P)
    BY <2>4
  <2> HIDE DEF P
  <2>6. Len(dir) > 0 /\ Len(rest) > 0 /\ Len(slash) >= 0 /\ Len(dir) \in Nat /\ Len(rest) \in Nat /\ Len(slash) \in Nat
    BY <1>1, <2>2, <2>5, EmptySeq DEF EndsIn
  <2>7. start \in Seq(P) /\ Len(start) = Len(dir) + Len(slash)
    BY <2>5
  <2> HIDE DEF start
  <2>8. Len(start \o rest) = Len(start) + Len(rest)
    BY <2>5, <2>7, ConcatProperties
  <2>9. QED BY <2>1, <2>6, <2>7, <2>8 DEF rest
<1>7. Sequence(TpmSocket(env, name))
  <2>1. CASE HasRuntimeDir(env)
    <3> DEFINE run == RuntimeDir(env)
               sock == <<"-swtpm.sock">>
               rest == name \o sock
    <3>1. EndsIn(run, "daholyvm")
      <4> DEFINE app == <<"daholyvm">>
      <4>1. Fits(app) /\ EndsIn(app, "daholyvm")
        BY <1>2, OnePieceFits
      <4> HIDE DEF app
      <4>2. EndsIn(Join(env.xdg_runtime_dir, app), "daholyvm")
        BY <4>1, JoinedEnds DEF EnvOK
      <4>3. QED BY <4>2 DEF RuntimeDir, app
    <3>2. EndsIn(sock, "-swtpm.sock")
      BY OnePieceFits
    <3> HIDE DEF run, sock
    <3>3. EndsIn(rest, "-swtpm.sock") /\ Fits(rest)
      <4>1. EndsIn(rest, "-swtpm.sock") /\ rest[1] = name[1]
        BY <3>2, EndOfBoth DEF NameOK, Fits
      <4>2. QED BY <4>1 DEF EndsIn, Fits, NameOK
    <3> HIDE DEF rest
    <3>4. EndsIn(Join(run, rest), "-swtpm.sock")
      BY <3>1, <3>3, JoinedEnds DEF EndsIn
    <3>5. TpmSocket(env, name) = Join(run, rest)
      BY <2>1 DEF TpmSocket, run, rest, sock
    <3>6. QED BY <3>4, <3>5 DEF EndsIn
  <2>2. CASE ~HasRuntimeDir(env)
    <3> DEFINE state == Join(dir, <<"tpm">>)
    <3>1. TpmSocket(env, name) = Join(state, <<"swtpm.sock">>)
      BY <2>2 DEF TpmSocket, TpmState, dir
    <3> HIDE DEF state
    <3>2. EndsIn(Join(state, <<"swtpm.sock">>), "swtpm.sock")
      BY <1>2, <1>5, FileIn DEF state
    <3>3. QED BY <3>1, <3>2 DEF EndsIn
  <2>3. QED BY <2>1, <2>2
<1>8. /\ VmPaths(env, name).disk = Join(dir, <<"disk.qcow2">>)
      /\ VmPaths(env, name).vars = Join(dir, <<"OVMF_VARS.fd">>)
      /\ VmPaths(env, name).tpm_state = Join(dir, <<"tpm">>)
      /\ VmPaths(env, name).tpm_socket = TpmSocket(env, name)
  BY DEF VmPaths, TpmState, dir
<1>9. QED BY <1>2, <1>3, <1>4, <1>5, <1>6, <1>7, <1>8

(* No two VMs have one.                                                    *)
LEMMA FilesApart ==
  ASSUME NEW env, EnvOK(env), NEW one, NameOK(one), NEW two, NameOK(two), one # two
  PROVE  /\ VmPaths(env, one).disk # VmPaths(env, two).disk
         /\ VmPaths(env, one).vars # VmPaths(env, two).vars
         /\ VmPaths(env, one).tpm_socket # VmPaths(env, two).tpm_socket
<1> DEFINE dir1 == VmDir(env, one)
           dir2 == VmDir(env, two)
           last1 == one[Len(one)]
           last2 == two[Len(two)]
<1>1. EndsIn(dir1, last1) /\ last1 # Slash /\ EndsIn(dir2, last2) /\ last2 # Slash /\ dir1 # dir2
  BY VmDirIs, DirsApart DEF NameOK
<1>2. /\ "disk.qcow2" # Slash /\ "OVMF_VARS.fd" # Slash /\ "tpm" # Slash
      /\ "swtpm.sock" # Slash /\ "daholyvm" # Slash
  BY DEF Slash
<1>3. /\ VmPaths(env, one).disk = Join(dir1, <<"disk.qcow2">>)
      /\ VmPaths(env, two).disk = Join(dir2, <<"disk.qcow2">>)
      /\ VmPaths(env, one).vars = Join(dir1, <<"OVMF_VARS.fd">>)
      /\ VmPaths(env, two).vars = Join(dir2, <<"OVMF_VARS.fd">>)
      /\ VmPaths(env, one).tpm_socket = TpmSocket(env, one)
      /\ VmPaths(env, two).tpm_socket = TpmSocket(env, two)
      /\ TpmState(env, one) = Join(dir1, <<"tpm">>)
      /\ TpmState(env, two) = Join(dir2, <<"tpm">>)
  BY DEF VmPaths, TpmState, dir1, dir2
<1> HIDE DEF dir1, dir2, last1, last2
<1>4. Join(dir1, <<"disk.qcow2">>) # Join(dir2, <<"disk.qcow2">>)
  BY <1>1, <1>2, FilesOfDirs
<1>5. Join(dir1, <<"OVMF_VARS.fd">>) # Join(dir2, <<"OVMF_VARS.fd">>)
  BY <1>1, <1>2, FilesOfDirs
<1>6. TpmSocket(env, one) # TpmSocket(env, two)
  <2>1. CASE HasRuntimeDir(env)
    <3> DEFINE run == RuntimeDir(env)
               slash == <<Slash>>
               below == run \o slash
               sock == <<"-swtpm.sock">>
               rest1 == one \o sock
               rest2 == two \o sock
    <3>1. EndsIn(run, "daholyvm")
      <4> DEFINE app == <<"daholyvm">>
      <4>1. Fits(app) /\ EndsIn(app, "daholyvm")
        BY <1>2, OnePieceFits
      <4> HIDE DEF app
      <4>2. EndsIn(Join(env.xdg_runtime_dir, app), "daholyvm")
        BY <4>1, JoinedEnds DEF EnvOK
      <4>3. QED BY <4>2 DEF RuntimeDir, app
    <3>2. EndsIn(sock, "-swtpm.sock") /\ EndsIn(slash, Slash)
      BY OnePieceFits
    <3>3. TpmSocket(env, one) = Join(run, rest1) /\ TpmSocket(env, two) = Join(run, rest2)
      BY <2>1 DEF TpmSocket
    <3> HIDE DEF run, sock
    <3>4. /\ EndsIn(rest1, "-swtpm.sock") /\ rest1[1] = one[1]
          /\ EndsIn(rest2, "-swtpm.sock") /\ rest2[1] = two[1]
      BY <3>2, EndOfBoth DEF NameOK, Fits
    <3>5. rest1 # rest2
      <4>1. Sequence(one) /\ Sequence(two) /\ Sequence(sock)
        BY <3>2 DEF NameOK, Fits, EndsIn
      <4>2. QED BY <4>1, CancelRight
    <3> HIDE DEF rest1, rest2
    <3>6. Fits(rest1) /\ Fits(rest2)
      BY <3>4 DEF EndsIn, Fits, NameOK
    <3>7. Sequence(run) /\ run # <<>> /\ run[Len(run)] # Slash
      BY <1>2, <3>1 DEF EndsIn
    <3>8. Join(run, rest1) = below \o rest1 /\ Join(run, rest2) = below \o rest2
      BY <3>4, <3>6, <3>7, JoinedEnds
    <3> HIDE DEF slash
    <3>9. Sequence(below)
      BY <3>2, <3>7, SequenceBoth DEF EndsIn
    <3> HIDE DEF below
    <3>10. Sequence(rest1) /\ Sequence(rest2)
      BY <3>4 DEF EndsIn
    <3>11. QED BY <3>3, <3>5, <3>8, <3>9, <3>10, CancelLeft
  <2>2. CASE ~HasRuntimeDir(env)
    <3> DEFINE state1 == Join(dir1, <<"tpm">>)
               state2 == Join(dir2, <<"tpm">>)
    <3>1. /\ TpmSocket(env, one) = Join(state1, <<"swtpm.sock">>)
          /\ TpmSocket(env, two) = Join(state2, <<"swtpm.sock">>)
      BY <1>3, <2>2 DEF TpmSocket
    <3>2. EndsIn(state1, "tpm") /\ EndsIn(state2, "tpm")
      BY <1>1, <1>2, FileIn
    <3>3. state1 # state2
      BY <1>1, <1>2, FilesOfDirs
    <3> HIDE DEF state1, state2
    <3>4. Join(state1, <<"swtpm.sock">>) # Join(state2, <<"swtpm.sock">>)
      BY <1>2, <3>2, <3>3, FilesOfDirs
    <3>5. QED BY <3>1, <3>4
  <2>3. QED BY <2>1, <2>2
<1>7. QED BY <1>3, <1>4, <1>5, <1>6

-----------------------------------------------------------------------------
(* The length of a text in bytes is the sum of its pieces' lengths.        *)
LEMMA BytesSteps ==
  ASSUME NEW P, \A piece \in P : ByteLen[piece] \in Nat, NEW text \in Seq(P)
  PROVE  \E h : /\ h[0] = 0
                /\ \A k \in 1..Len(text) : h[k] = h[k-1] + ByteLen[text[k]]
                /\ Bytes(text) = h[Len(text)]
<1> SUFFICES ASSUME NEW n \in Nat, n = Len(text)
             PROVE  \E h : /\ h[0] = 0
                           /\ \A k \in 1..n : h[k] = h[k-1] + ByteLen[text[k]]
                           /\ Bytes(text) = h[n]
  OBVIOUS
<1> DEFINE Def(f) == [s \in SUBSET (1..n) |->
                        IF s = {} THEN 0 ELSE f[s \ {Max(s)}] + ByteLen[text[Max(s)]]]
           F == CHOOSE f : f = Def(f)
           h == [k \in 0..n |-> F[1..k]]
<1>1. DOMAIN text = 1..n /\ \A i \in 1..n : text[i] \in P
  OBVIOUS
<1>2. F = Def(F)
  <2> DEFINE g == [p \in Nat \X (1..n) |-> p[1] + ByteLen[text[p[2]]]]
  <2>1. g \in [Nat \X (1..n) -> Nat]
    BY <1>1
  <2>2. PICK f : IsFold(f, n, Nat, 0, g)
    <3> HIDE DEF g
    <3>1. QED BY <2>1, FoldExists
  <2>3. ASSUME NEW s \in SUBSET (1..n), s # {}
        PROVE  f[s] = f[s \ {Max(s)}] + ByteLen[text[Max(s)]]
    <3>1. Max(s) \in 1..n
      BY <2>3, GreatestOf
    <3>2. f[s \ {Max(s)}] \in Nat
      BY <2>2 DEF IsFold
    <3>3. QED BY <2>2, <2>3, <3>1, <3>2 DEF IsFold
  <2>4. f = Def(f)
    BY <2>2, <2>3 DEF IsFold
  <2> HIDE DEF Def
  <2>5. QED BY <2>4
<1>3. Bytes(text) = F[1..n]
  BY <1>1 DEF Bytes, FoldLeft, MapThenFoldSet
<1> HIDE DEF F
<1>4. h[0] = 0
  <2>1. {} \in SUBSET (1..n) /\ 1..0 = {} /\ 0 \in 0..n
    OBVIOUS
  <2>2. F[{}] = 0
    BY <1>2, <2>1
  <2>3. QED BY <2>1, <2>2
<1>5. ASSUME NEW k \in 1..n PROVE h[k] = h[k-1] + ByteLen[text[k]]
  <2>1. /\ 1..k \in SUBSET (1..n) /\ 1..k # {}
        /\ Max(1..k) = k /\ (1..k) \ {k} = 1..(k-1)
    BY PositionsUpTo
  <2>2. F[1..k] = F[1..(k-1)] + ByteLen[text[k]]
    BY <1>2, <2>1
  <2>3. k \in 0..n /\ k - 1 \in 0..n
    OBVIOUS
  <2>4. QED BY <2>2, <2>3
<1>6. Bytes(text) = h[n]
  BY <1>3
<1> HIDE DEF h
<1>7. QED BY <1>4, <1>5, <1>6

LEMMA BytesAppend ==
  ASSUME NEW P, \A piece \in P : ByteLen[piece] \in Nat, NEW text \in Seq(P), NEW piece \in P
  PROVE  Bytes(text) \in Nat /\ Bytes(Append(text, piece)) = Bytes(text) + ByteLen[piece]
<1> DEFINE more == Append(text, piece)
           n == Len(text)
<1>1. PICK h : /\ h[0] = 0
               /\ \A k \in 1..n : h[k] = h[k-1] + ByteLen[text[k]]
               /\ Bytes(text) = h[n]
  BY BytesSteps
<1>2. /\ more \in Seq(P) /\ Len(more) = n + 1 /\ n \in Nat
      /\ \A k \in 1..n : more[k] = text[k] /\ text[k] \in P
      /\ more[n+1] = piece
  OBVIOUS
<1> HIDE DEF more
<1>3. PICK r : /\ r[0] = 0
               /\ \A k \in 1..Len(more) : r[k] = r[k-1] + ByteLen[more[k]]
               /\ Bytes(more) = r[Len(more)]
  BY <1>2, BytesSteps
<1> HIDE DEF n
<1> DEFINE T == {k \in 0..n : h[k] = r[k] /\ h[k] \in Nat}
<1>4. 0 \in T
  BY <1>1, <1>2, <1>3
<1>5. ASSUME NEW j \in 0..(n-1), j \in T PROVE j + 1 \in T
  <2>1. j + 1 \in 1..n /\ j + 1 \in 1..Len(more) /\ (j + 1) - 1 = j /\ j + 1 \in 0..n
    BY <1>2
  <2>2. h[j+1] = h[j] + ByteLen[text[j+1]] /\ r[j+1] = r[j] + ByteLen[text[j+1]]
    BY <1>1, <1>2, <1>3, <2>1
  <2>3. text[j+1] \in P
    BY <1>2, <2>1
  <2>4. QED BY <1>5, <2>1, <2>2, <2>3
<1>6. n \in T
  <2>1. n \in 0..n
    BY <1>2
  <2> HIDE DEF T
  <2>2. QED BY <1>2, <1>4, <1>5, <2>1, UpTo
<1>7. r[n+1] = r[n] + ByteLen[piece]
  <2>1. n + 1 \in 1..Len(more) /\ (n + 1) - 1 = n
    BY <1>2
  <2>2. QED BY <1>2, <1>3, <2>1
<1>8. QED BY <1>1, <1>2, <1>3, <1>6, <1>7 DEF more

LEMMA BytesIsNat ==
  ASSUME NEW P, \A piece \in P : ByteLen[piece] \in Nat, NEW text \in Seq(P)
  PROVE  Bytes(text) \in Nat
<1> DEFINE n == Len(text)
<1>1. PICK h : /\ h[0] = 0
               /\ \A k \in 1..n : h[k] = h[k-1] + ByteLen[text[k]]
               /\ Bytes(text) = h[n]
  BY BytesSteps
<1>2. n \in Nat /\ \A k \in 1..n : text[k] \in P
  OBVIOUS
<1> HIDE DEF n
<1> DEFINE T == {k \in 0..n : h[k] \in Nat}
<1>3. 0 \in T
  BY <1>1, <1>2
<1>4. ASSUME NEW j \in 0..(n-1), j \in T PROVE j + 1 \in T
  <2>1. j + 1 \in 1..n /\ (j + 1) - 1 = j /\ j + 1 \in 0..n
    BY <1>2
  <2>2. h[j+1] = h[j] + ByteLen[text[j+1]] /\ text[j+1] \in P
    BY <1>1, <1>2, <2>1
  <2>3. QED BY <1>4, <2>1, <2>2
<1>5. n \in T
  <2>1. n \in 0..n
    BY <1>2
  <2> HIDE DEF T
  <2>2. QED BY <1>2, <1>3, <1>4, <2>1, UpTo
<1>6. QED BY <1>1, <1>5

LEMMA BytesBoth ==
  ASSUME NEW P, \A piece \in P : ByteLen[piece] \in Nat, NEW one \in Seq(P), NEW two \in Seq(P)
  PROVE  Bytes(one \o two) = Bytes(one) + Bytes(two)
<1> DEFINE n == Len(two)
           Both(k) == one \o SubSeq(two, 1, k)
           Sum(k) == Bytes(one) + Bytes(SubSeq(two, 1, k))
           T == {k \in 0..n : Bytes(Both(k)) = Sum(k) /\ Sum(k) \in Nat}
<1>0. n \in Nat
  OBVIOUS
<1>1. Bytes(<<>>) = 0
  <2>1. <<>> \in Seq(P) /\ Len(<<>>) = 0
    BY EmptySeq
  <2>2. QED BY <2>1, BytesSteps
<1>2. 0 \in T
  <2>1. SubSeq(two, 1, 0) = <<>> /\ one \o <<>> = one
    BY Growing, ConcatEmptySeq
  <2>2. Bytes(one) \in Nat
    BY BytesIsNat
  <2>3. 0 \in 0..n
    BY <1>0
  <2>4. Bytes(Both(0)) = Bytes(one)
    BY <2>1
  <2>5. Sum(0) = Bytes(one)
    <3>1. Bytes(SubSeq(two, 1, 0)) = 0
      BY <1>1, <2>1, Zenon
    <3>2. QED BY <2>2, <3>1
  <2> HIDE DEF Both, Sum
  <2>6. QED BY <2>2, <2>3, <2>4, <2>5
<1>3. ASSUME NEW j \in 0..(n-1), j \in T PROVE j + 1 \in T
  <2> DEFINE k == j + 1
             start == SubSeq(two, 1, j)
             piece == two[k]
  <2>1. k \in 1..n /\ k \in 0..n /\ k - 1 = j
    BY <1>0
  <2>2. SubSeq(two, 1, k) = Append(start, piece) /\ start \in Seq(P) /\ piece \in P
    BY <2>1, Growing
  <2>3. Both(k) = Append(one \o start, piece)
    BY <2>1, OneMorePiece
  <2>4. one \o start \in Seq(P)
    BY <2>2
  <2> HIDE DEF start, piece
  <2>5. /\ Bytes(Append(start, piece)) = Bytes(start) + ByteLen[piece] /\ Bytes(start) \in Nat
        /\ Bytes(Append(one \o start, piece)) = Bytes(one \o start) + ByteLen[piece]
        /\ Bytes(one) \in Nat
    BY <2>2, <2>4, BytesAppend
  <2>6. ByteLen[piece] \in Nat
    BY <2>2
  <2>7. Bytes(one \o start) = Bytes(one) + Bytes(start)
    BY <1>3 DEF start
  <2>8. Bytes(Both(k)) = Bytes(one \o start) + ByteLen[piece]
    BY <2>3, <2>5
  <2>9. Sum(k) = Bytes(one) + (Bytes(start) + ByteLen[piece])
    BY <2>2, <2>5
  <2> HIDE DEF Both, Sum
  <2>10. Bytes(Both(k)) = Sum(k) /\ Sum(k) \in Nat
    BY <2>5, <2>6, <2>7, <2>8, <2>9
  <2> HIDE DEF k
  <2>11. QED BY <2>1, <2>10 DEF k
<1>4. n \in T
  <2>1. n \in 0..n
    BY <1>0
  <2> HIDE DEF T, n
  <2>2. QED BY <1>0, <1>2, <1>3, <2>1, UpTo
<1>5. SubSeq(two, 1, n) = two
  BY Growing
<1>6. QED BY <1>4, <1>5

(* What a name adds to the usual runtime directory, in bytes.              *)
UsualRun == <<"/", "run", "/", "user", "/", "4294967295">>

LEMMA UsualBytes ==
  ASSUME NEW P, \A piece \in P : ByteLen[piece] \in Nat,
         {Slash, "run", "user", "4294967295"} \subseteq P
  PROVE  UsualRun \in Seq(P) /\ EndsIn(UsualRun, "4294967295") /\ Bytes(UsualRun) = 20
<1> DEFINE run == UsualRun
<1>1. /\ run \in Seq({Slash, "run", "user", "4294967295"}) /\ Len(run) = 6
      /\ run[1] = Slash /\ run[2] = "run" /\ run[3] = Slash /\ run[4] = "user"
      /\ run[5] = Slash /\ run[6] = "4294967295"
  BY DEF UsualRun, Slash
<1>2. /\ ByteLen[Slash] = 1 /\ ByteLen["run"] = 3 /\ ByteLen["user"] = 4
      /\ ByteLen["4294967295"] = 10
  BY ByteLenAssumption, RunAssumption DEF Slash
<1> HIDE DEF run
<1>3. run \in Seq(P)
  BY <1>1, SeqMonotonic
<1>4. PICK h : /\ h[0] = 0
               /\ \A k \in 1..Len(run) : h[k] = h[k-1] + ByteLen[run[k]]
               /\ Bytes(run) = h[Len(run)]
  BY <1>3, BytesSteps
<1>5. /\ h[1] = h[0] + 1 /\ h[2] = h[1] + 3 /\ h[3] = h[2] + 1
      /\ h[4] = h[3] + 4 /\ h[5] = h[4] + 1 /\ h[6] = h[5] + 10
  <2>1. 1 \in 1..6 /\ 2 \in 1..6 /\ 3 \in 1..6 /\ 4 \in 1..6 /\ 5 \in 1..6 /\ 6 \in 1..6
    OBVIOUS
  <2>2. /\ h[1] = h[1-1] + 1 /\ h[2] = h[2-1] + 3 /\ h[3] = h[3-1] + 1
        /\ h[4] = h[4-1] + 4 /\ h[5] = h[5-1] + 1 /\ h[6] = h[6-1] + 10
    BY <1>1, <1>2, <1>4, <2>1
  <2>3. QED BY <2>2
<1>6. Bytes(run) = 20
  BY <1>1, <1>4, <1>5
<1>7. run # <<>>
  <2>1. Len(run) # 0
    BY <1>1
  <2>2. Len(<<>>) = 0
    OBVIOUS
  <2>3. QED BY <2>1, <2>2, Zenon
<1>8. QED BY <1>1, <1>3, <1>6, <1>7 DEF run, EndsIn, Sequence

LEMMA OneByte ==
  ASSUME NEW P, \A piece \in P : ByteLen[piece] \in Nat, NEW piece \in P
  PROVE  <<piece>> \in Seq(P) /\ Bytes(<<piece>>) = ByteLen[piece]
<1> DEFINE text == <<piece>>
<1>1. text \in Seq(P) /\ Len(text) = 1 /\ text[1] = piece /\ 1 \in 1..1 /\ 1 - 1 = 0
  OBVIOUS
<1> HIDE DEF text
<1>2. PICK h : /\ h[0] = 0
               /\ \A k \in 1..Len(text) : h[k] = h[k-1] + ByteLen[text[k]]
               /\ Bytes(text) = h[Len(text)]
  BY <1>1, BytesSteps
<1>3. h[1] = 0 + ByteLen[piece]
  BY <1>1, <1>2
<1>4. QED BY <1>1, <1>2, <1>3 DEF text

LEMMA SocketBytes ==
  ASSUME NEW env, env.xdg_runtime_dir = UsualRun,
         NEW P, \A piece \in P : ByteLen[piece] \in Nat,
         {Slash, "run", "user", "4294967295", "daholyvm", "-swtpm.sock"} \subseteq P,
         NEW name \in Seq(P), Fits(name)
  PROVE  Bytes(TpmSocket(env, name)) = 41 + Bytes(name)
<1> DEFINE run == UsualRun
           slash == <<Slash>>
           app == <<"daholyvm">>
           sock == <<"-swtpm.sock">>
           dir == RuntimeDir(env)
           start == run \o slash
           from == dir \o slash
           rest == name \o sock
<1>1. /\ ByteLen[Slash] = 1 /\ ByteLen["daholyvm"] = 8 /\ ByteLen["-swtpm.sock"] = 11
      /\ "daholyvm" # Slash /\ "4294967295" # Slash /\ "-swtpm.sock" # Slash
  BY ByteLenAssumption DEF Slash
<1>2. run \in Seq(P) /\ EndsIn(run, "4294967295") /\ Bytes(run) = 20
  BY UsualBytes
<1>3. /\ slash \in Seq(P) /\ Bytes(slash) = 1
      /\ app \in Seq(P) /\ Bytes(app) = 8
      /\ sock \in Seq(P) /\ Bytes(sock) = 11
  BY <1>1, OneByte
<1>4. Given(env.xdg_runtime_dir)
  <2>1. Len(run) = 6 /\ Len(Unset) = 1 /\ Len(<<>>) = 0
    BY DEF UsualRun, Unset
  <2> HIDE DEF run
  <2>2. run # Unset /\ run # <<>>
    <3>1. Len(run) # Len(Unset) /\ Len(run) # Len(<<>>)
      BY <2>1
    <3>2. QED BY <3>1, Zenon
  <2>3. QED BY <2>2 DEF Given, run
<1>5. /\ dir = start \o app /\ EndsIn(dir, "daholyvm")
  <2>1. Join(run, app) = run \o slash \o app /\ EndsIn(Join(run, app), "daholyvm")
    BY <1>1, <1>2, FileIn
  <2>2. QED BY <2>1 DEF RuntimeDir
<1>6. Fits(rest) /\ EndsIn(rest, "-swtpm.sock")
  <2>1. EndsIn(sock, "-swtpm.sock")
    BY OnePieceFits
  <2> HIDE DEF sock
  <2>2. EndsIn(rest, "-swtpm.sock") /\ rest[1] = name[1]
    BY <2>1, EndOfBoth DEF Fits
  <2>3. QED BY <2>2 DEF EndsIn, Fits
<1>7. TpmSocket(env, name) = from \o rest
  <2>1. TpmSocket(env, name) = Join(dir, rest)
    BY <1>4 DEF TpmSocket, HasRuntimeDir
  <2> HIDE DEF rest, dir
  <2>2. Sequence(dir) /\ dir # <<>> /\ dir[Len(dir)] # Slash
    BY <1>1, <1>5 DEF EndsIn
  <2>3. Join(dir, rest) = dir \o <<Slash>> \o rest
    BY <1>6, <2>2, JoinedEnds
  <2>4. QED BY <2>1, <2>3
<1> HIDE DEF run, slash, app, sock, dir, start, from, rest
<1>8. start \in Seq(P) /\ Bytes(start) = 20 + 1
  BY <1>2, <1>3, BytesBoth, ConcatProperties DEF start
<1>9. dir \in Seq(P) /\ Bytes(dir) = 21 + 8
  <2>1. Bytes(start \o app) = Bytes(start) + Bytes(app)
    BY <1>3, <1>8, BytesBoth
  <2>2. start \o app \in Seq(P)
    BY <1>3, <1>8, ConcatProperties
  <2>3. QED BY <1>3, <1>5, <1>8, <2>1, <2>2
<1>10. from \in Seq(P) /\ Bytes(from) = 29 + 1
  <2>1. Bytes(dir \o slash) = Bytes(dir) + Bytes(slash)
    BY <1>3, <1>9, BytesBoth
  <2>2. dir \o slash \in Seq(P)
    BY <1>3, <1>9, ConcatProperties
  <2>3. QED BY <1>3, <1>9, <2>1, <2>2 DEF from
<1>11. rest \in Seq(P) /\ Bytes(rest) = Bytes(name) + 11
  <2>1. Bytes(name \o sock) = Bytes(name) + Bytes(sock)
    BY <1>3, BytesBoth
  <2>2. name \o sock \in Seq(P)
    BY <1>3, ConcatProperties
  <2>3. QED BY <1>3, <2>1, <2>2 DEF rest
<1>12. Bytes(from \o rest) = Bytes(from) + Bytes(rest)
  BY <1>10, <1>11, BytesBoth
<1>13. Bytes(name) \in Nat
  BY BytesIsNat
<1>14. QED BY <1>7, <1>10, <1>11, <1>12, <1>13

(* Every name that can be created can be run with a TPM when the session   *)
(* has the usual runtime directory: the socket's path is never cut short.  *)
THEOREM SocketsFit == Spec => []SocketsFitRuntimeDir
<1>1. InputOK => SocketsFitRuntimeDir
  <2> SUFFICES ASSUME InputOK, input.kind = "name", ValidName(input.text), NEW env \in Envs,
                      env.xdg_runtime_dir = UsualRun
               PROVE  Bytes(TpmSocket(env, input.text)) <= MAX_SOCKET_PATH
    BY DEF SocketsFitRuntimeDir, UsualRun
  <2> DEFINE name == input.text
             P == DOMAIN ByteLen
  <2>1. name \in Seq(NamePieces)
    BY InputKinds
  <2>2. name \in Seq(P) /\ Sequence(name)
    BY <2>1, PiecesAssumption, SeqMonotonic DEF Sequence
  <2>3. Fits(name)
    BY <2>2, ValidNameOK DEF NameOK
  <2>4. \A piece \in P : ByteLen[piece] \in Nat
    BY ByteLenAssumption
  <2>5. {Slash, "run", "user", "4294967295", "daholyvm", "-swtpm.sock"} \subseteq P
    BY ByteLenAssumption, RunAssumption DEF Slash
  <2>6. Bytes(name) <= 64 /\ Bytes(name) \in Nat
    BY <2>2, <2>4, BytesIsNat DEF ValidName, MAX_NAME_LEN
  <2> HIDE DEF name, P
  <2>7. Bytes(TpmSocket(env, name)) = 41 + Bytes(name)
    BY <2>2, <2>3, <2>4, <2>5, SocketBytes
  <2>8. QED BY <2>6, <2>7 DEF MAX_SOCKET_PATH, name
<1>2. QED BY <1>1, TextsTyped, PTL

-----------------------------------------------------------------------------
(* How a path is walked.                                                   *)
CutStates(P) == [done : Seq(Seq(P)), part : Seq(P)]
CutStart == [done |-> <<>>, part |-> <<>>]

LEMMA CutType ==
  ASSUME NEW P
  PROVE  /\ CutStart \in CutStates(P)
         /\ \A acc \in CutStates(P), piece \in P : Cut(acc, piece) \in CutStates(P)
<1>1. <<>> \in Seq(P) /\ <<>> \in Seq(Seq(P))
  BY EmptySeq
<1>2. ASSUME NEW acc \in CutStates(P), NEW piece \in P PROVE Cut(acc, piece) \in CutStates(P)
  <2>1. acc.done \in Seq(Seq(P)) /\ acc.part \in Seq(P)
    BY DEF CutStates
  <2>2. Append(acc.done, acc.part) \in Seq(Seq(P)) /\ Append(acc.part, piece) \in Seq(P)
    BY <2>1
  <2>3. CASE piece = "/"
    BY <1>1, <2>2, <2>3 DEF Cut, CutStates
  <2>4. CASE piece # "/"
    BY <2>2, <2>4 DEF Cut, CutStates
  <2>5. QED BY <2>3, <2>4
<1>3. QED BY <1>1, <1>2 DEF CutStart, CutStates

LEMMA CutPiece ==
  /\ \A acc : Cut(acc, Slash) = [done |-> Append(acc.done, acc.part), part |-> <<>>]
  /\ \A done, part, piece : piece # Slash =>
       Cut([done |-> done, part |-> part], piece) = [done |-> done, part |-> Append(part, piece)]
<1>1. \A acc : Cut(acc, Slash) = [done |-> Append(acc.done, acc.part), part |-> <<>>]
  BY DEF Cut, Slash
<1>2. ASSUME NEW done, NEW part, NEW piece, piece # Slash
      PROVE  Cut([done |-> done, part |-> part], piece) = [done |-> done, part |-> Append(part, piece)]
  <2> DEFINE acc == [done |-> done, part |-> part]
  <2>1. Cut(acc, piece) = [acc EXCEPT !.part = Append(@, piece)]
    BY <1>2, Zenon DEF Cut, Slash
  <2>2. [acc EXCEPT !.part = Append(@, piece)] = [done |-> done, part |-> Append(part, piece)]
    OBVIOUS
  <2>3. QED BY <2>1, <2>2
<1>3. QED BY <1>1, <1>2

LEMMA CutSteps ==
  ASSUME NEW P, NEW text \in Seq(P)
  PROVE  \E h : /\ h[0] = CutStart
                /\ \A k \in 1..Len(text) : h[k] = Cut(h[k-1], text[k])
                /\ Components(text) = Append(h[Len(text)].done, h[Len(text)].part)
<1> SUFFICES ASSUME NEW n \in Nat, n = Len(text)
             PROVE  \E h : /\ h[0] = CutStart
                           /\ \A k \in 1..n : h[k] = Cut(h[k-1], text[k])
                           /\ Components(text) = Append(h[n].done, h[n].part)
  OBVIOUS
<1> DEFINE Def(f) == [s \in SUBSET (1..n) |->
                        IF s = {} THEN CutStart ELSE Cut(f[s \ {Max(s)}], text[Max(s)])]
           F == CHOOSE f : f = Def(f)
           h == [k \in 0..n |-> F[1..k]]
           X == CutStates(P)
<1>1. DOMAIN text = 1..n /\ \A i \in 1..n : text[i] \in P
  OBVIOUS
<1>2. F = Def(F)
  <2> DEFINE g == [p \in X \X (1..n) |-> Cut(p[1], text[p[2]])]
  <2>1. g \in [X \X (1..n) -> X] /\ CutStart \in X
    BY <1>1, CutType
  <2> HIDE DEF X
  <2>2. PICK f : IsFold(f, n, X, CutStart, g)
    <3> HIDE DEF g
    <3>1. QED BY <2>1, FoldExists
  <2>3. ASSUME NEW s \in SUBSET (1..n), s # {}
        PROVE  f[s] = Cut(f[s \ {Max(s)}], text[Max(s)])
    <3>1. Max(s) \in 1..n
      BY <2>3, GreatestOf
    <3>2. f[s \ {Max(s)}] \in X
      BY <2>2 DEF IsFold
    <3>3. QED BY <2>2, <2>3, <3>1, <3>2 DEF IsFold
  <2>4. f = Def(f)
    BY <2>2, <2>3 DEF IsFold
  <2> HIDE DEF Def
  <2>5. QED BY <2>4
<1>3. Components(text) = Append(F[1..n].done, F[1..n].part)
  BY <1>1 DEF Components, FoldLeft, MapThenFoldSet, CutStart
<1> HIDE DEF F
<1>4. h[0] = CutStart
  <2>1. {} \in SUBSET (1..n) /\ 1..0 = {} /\ 0 \in 0..n
    OBVIOUS
  <2>2. F[{}] = CutStart
    BY <1>2, <2>1
  <2>3. QED BY <2>1, <2>2
<1>5. ASSUME NEW k \in 1..n PROVE h[k] = Cut(h[k-1], text[k])
  <2>1. /\ 1..k \in SUBSET (1..n) /\ 1..k # {}
        /\ Max(1..k) = k /\ (1..k) \ {k} = 1..(k-1)
    BY PositionsUpTo
  <2>2. F[1..k] = Cut(F[1..(k-1)], text[k])
    BY <1>2, <2>1
  <2>3. k \in 0..n /\ k - 1 \in 0..n
    OBVIOUS
  <2>4. QED BY <2>2, <2>3
<1>6. Components(text) = Append(h[n].done, h[n].part)
  BY <1>3
<1> HIDE DEF h
<1>7. QED BY <1>4, <1>5, <1>6

(* A name below a path is one more component of it.                        *)
LEMMA NameIsComponent ==
  ASSUME NEW P, Slash \in P, NEW path \in Seq(P), NEW name \in Seq(P),
         \A i \in 1..Len(name) : name[i] # Slash
  PROVE  Components(path \o <<Slash>> \o name) = Append(Components(path), name)
<1> DEFINE slash == <<Slash>>
           all == path \o slash \o name
           m == Len(path)
           n == Len(name)
<1>1. /\ all \in Seq(P) /\ Len(all) = (m + 1) + n /\ m \in Nat /\ n \in Nat
      /\ \A i \in 1..m : all[i] = path[i]
      /\ all[m+1] = Slash
      /\ \A i \in 1..n : all[(m + 1) + i] = name[i]
  <2>1. slash \in Seq(P) /\ Len(slash) = 1 /\ slash[1] = Slash
    OBVIOUS
  <2> DEFINE start == path \o slash
  <2> HIDE DEF slash
  <2>2. /\ start \in Seq(P) /\ Len(start) = m + 1 /\ m \in Nat
        /\ \A i \in 1..m : start[i] = path[i]
        /\ start[m+1] = Slash
    <3>0. path \in Seq(P) /\ slash \in Seq(P) /\ m \in Nat
      BY <2>1
    <3>1. /\ start \in Seq(P) /\ Len(start) = m + Len(slash)
          /\ \A i \in 1..m : start[i] = path[i]
          /\ \A i \in 1..Len(slash) : start[m+i] = slash[i]
      BY ONLY <3>0
    <3>2. 1 \in 1..Len(slash)
      BY <2>1
    <3>3. QED BY <2>1, <3>0, <3>1, <3>2
  <2> HIDE DEF start
  <2>3. /\ start \o name \in Seq(P) /\ Len(start \o name) = Len(start) + n /\ n \in Nat
        /\ \A i \in 1..Len(start) : (start \o name)[i] = start[i]
        /\ \A i \in 1..n : (start \o name)[Len(start) + i] = name[i]
    BY <2>2
  <2> DEFINE both == start \o name
  <2>4. all = both
    BY DEF start
  <2> HIDE DEF both, all
  <2>5. QED BY <2>2, <2>3, <2>4 DEF both
<1>2. PICK h : /\ h[0] = CutStart
               /\ \A k \in 1..m : h[k] = Cut(h[k-1], path[k])
               /\ Components(path) = Append(h[m].done, h[m].part)
  BY CutSteps
<1>3. PICK r : /\ r[0] = CutStart
               /\ \A k \in 1..Len(all) : r[k] = Cut(r[k-1], all[k])
               /\ Components(all) = Append(r[Len(all)].done, r[Len(all)].part)
  <2> HIDE DEF all
  <2>1. QED BY <1>1, CutSteps
<1> DEFINE below == Components(path)
           T == {k \in 0..m : h[k] = r[k]}
           Reached(k) == [done |-> below, part |-> SubSeq(name, 1, k)]
           U == {k \in 0..n : r[(m + 1) + k] = Reached(k)}
<1>4. \A j \in 1..n : SubSeq(name, 1, j) = Append(SubSeq(name, 1, j-1), name[j])
  BY Growing
<1>5. SubSeq(name, 1, 0) = <<>> /\ SubSeq(name, 1, n) = name
  BY Growing
<1> HIDE DEF all, m, n
<1>6. m \in T
  <2>1. 0 \in T
    BY <1>1, <1>2, <1>3
  <2>2. ASSUME NEW j \in 0..(m-1), j \in T PROVE j + 1 \in T
    <3>1. j + 1 \in 1..m /\ j + 1 \in 1..Len(all) /\ (j + 1) - 1 = j /\ j + 1 \in 0..m
      BY <1>1
    <3>2. h[j+1] = Cut(h[j], path[j+1]) /\ r[j+1] = Cut(r[j], all[j+1]) /\ all[j+1] = path[j+1]
      BY <1>1, <1>2, <1>3, <3>1
    <3>3. h[j] = r[j]
      BY <2>2
    <3>4. QED BY <3>1, <3>2, <3>3
  <2>3. m \in 0..m
    BY <1>1
  <2> HIDE DEF T
  <2>4. QED BY <1>1, <2>1, <2>2, <2>3, UpTo
<1>7. r[m+1] = [done |-> below, part |-> <<>>]
  <2>1. m + 1 \in 1..Len(all) /\ (m + 1) - 1 = m
    BY <1>1
  <2>2. r[m+1] = Cut(r[m], Slash) /\ r[m] = h[m]
    BY <1>1, <1>3, <1>6, <2>1
  <2>3. QED BY <1>2, <2>2, CutPiece
<1> HIDE DEF below
<1>8. 0 \in U
  <2>1. r[(m + 1) + 0] = r[m+1] /\ 0 \in 0..n
    BY <1>1
  <2>2. Reached(0) = [done |-> below, part |-> <<>>]
    BY <1>5
  <2>3. QED BY <1>7, <2>1, <2>2
<1>9. ASSUME NEW j \in 0..(n-1), j \in U PROVE j + 1 \in U
  <2> DEFINE k == (m + 1) + (j + 1)
             part == SubSeq(name, 1, j)
  <2>1. /\ k \in 1..Len(all) /\ k - 1 = (m + 1) + j /\ j + 1 \in 1..n /\ (j + 1) - 1 = j
        /\ j + 1 \in 0..n
    BY <1>1
  <2>2. r[k] = Cut(r[k-1], all[k]) /\ all[k] = name[j+1]
    BY <1>1, <1>3, <2>1
  <2>3. r[k-1] = [done |-> below, part |-> part] /\ name[j+1] # Slash
    BY <1>9, <2>1 DEF n
  <2> HIDE DEF k, part
  <2>4. r[k] = [done |-> below, part |-> Append(part, name[j+1])]
    <3> DEFINE piece == name[j+1]
    <3>1. piece # Slash
      BY <2>3
    <3>2. r[k] = Cut(r[k-1], piece)
      BY <2>2
    <3> HIDE DEF piece
    <3>3. Cut([done |-> below, part |-> part], piece) = [done |-> below, part |-> Append(part, piece)]
      BY <3>1, CutPiece, Zenon
    <3>4. r[k] = [done |-> below, part |-> Append(part, piece)]
      BY <2>3, <3>2, <3>3, Zenon
    <3>5. QED BY <3>4 DEF piece
  <2>5. SubSeq(name, 1, j+1) = Append(part, name[j+1])
    BY <1>4, <2>1 DEF part
  <2>6. r[(m + 1) + (j + 1)] = Reached(j + 1)
    BY <2>4, <2>5 DEF k
  <2> HIDE DEF Reached
  <2>7. QED BY <2>1, <2>6
<1>10. n \in U
  <2>1. n \in 0..n
    BY <1>1
  <2> HIDE DEF U
  <2>2. QED BY <1>1, <1>8, <1>9, <2>1, UpTo
<1>11. r[Len(all)] = [done |-> below, part |-> name]
  BY <1>1, <1>5, <1>10
<1>12. Components(all) = Append(below, name)
  BY <1>3, <1>11
<1>13. QED BY <1>12 DEF all, below

LEMMA ComponentsType ==
  ASSUME NEW P, NEW path \in Seq(P)
  PROVE  Components(path) \in Seq(Seq(P))
<1> DEFINE n == Len(path)
           X == CutStates(P)
<1>1. PICK h : /\ h[0] = CutStart
               /\ \A k \in 1..n : h[k] = Cut(h[k-1], path[k])
               /\ Components(path) = Append(h[n].done, h[n].part)
  BY CutSteps
<1>2. n \in Nat /\ \A k \in 1..n : path[k] \in P
  OBVIOUS
<1>3. CutStart \in X /\ \A acc \in X, piece \in P : Cut(acc, piece) \in X
  BY CutType
<1> HIDE DEF n, X
<1> DEFINE T == {k \in 0..n : h[k] \in X}
<1>4. 0 \in T
  BY <1>1, <1>2, <1>3
<1>5. ASSUME NEW j \in 0..(n-1), j \in T PROVE j + 1 \in T
  <2>1. j + 1 \in 1..n /\ (j + 1) - 1 = j /\ j + 1 \in 0..n
    BY <1>2
  <2>2. h[j+1] = Cut(h[j], path[j+1]) /\ path[j+1] \in P /\ h[j] \in X
    BY <1>1, <1>2, <1>5, <2>1
  <2>3. QED BY <1>3, <2>1, <2>2
<1>6. n \in T
  <2>1. n \in 0..n
    BY <1>2
  <2> HIDE DEF T
  <2>2. QED BY <1>2, <1>4, <1>5, <2>1, UpTo
<1>7. h[n].done \in Seq(Seq(P)) /\ h[n].part \in Seq(P)
  BY <1>6 DEF X, CutStates
<1>8. QED BY <1>1, <1>7

(* Where a walk gets to, step by step.                                     *)
LEMMA EnterType ==
  ASSUME NEW Q, NEW dirs \in Seq(Q), NEW part \in Q
  PROVE  Enter(dirs, part) \in Seq(Q)
<1>1. <<>> \in Seq(Q)
  BY EmptySeq
<1>2. dirs # <<>> => Front(dirs) \in Seq(Q)
  <2> SUFFICES ASSUME dirs # <<>> PROVE SubSeq(dirs, 1, Len(dirs)-1) \in Seq(Q)
    BY DEF Front
  <2>1. Len(dirs) \in Nat /\ Len(dirs) # 0
    BY EmptySeq
  <2>2. QED BY <2>1
<1>3. Append(dirs, part) \in Seq(Q)
  OBVIOUS
<1>4. Enter(dirs, part) \in {dirs, <<>>, Append(dirs, part)} \/ (dirs # <<>> /\ Enter(dirs, part) = Front(dirs))
  BY Zenon DEF Enter
<1>5. QED BY <1>1, <1>2, <1>3, <1>4

Walked(parts) == FoldLeft(Enter, <<>>, parts)

LEMMA WalkSteps ==
  ASSUME NEW Q, NEW parts \in Seq(Q)
  PROVE  \E h : /\ h[0] = <<>>
                /\ \A k \in 1..Len(parts) : h[k] = Enter(h[k-1], parts[k])
                /\ Walked(parts) = h[Len(parts)]
<1> SUFFICES ASSUME NEW n \in Nat, n = Len(parts)
             PROVE  \E h : /\ h[0] = <<>>
                           /\ \A k \in 1..n : h[k] = Enter(h[k-1], parts[k])
                           /\ Walked(parts) = h[n]
  OBVIOUS
<1> DEFINE Def(f) == [s \in SUBSET (1..n) |->
                        IF s = {} THEN <<>> ELSE Enter(f[s \ {Max(s)}], parts[Max(s)])]
           F == CHOOSE f : f = Def(f)
           h == [k \in 0..n |-> F[1..k]]
           X == Seq(Q)
<1>1. DOMAIN parts = 1..n /\ \A i \in 1..n : parts[i] \in Q
  OBVIOUS
<1>2. F = Def(F)
  <2> DEFINE g == [p \in X \X (1..n) |-> Enter(p[1], parts[p[2]])]
  <2>1. g \in [X \X (1..n) -> X] /\ <<>> \in X
    BY <1>1, EnterType, EmptySeq
  <2> HIDE DEF X
  <2>2. PICK f : IsFold(f, n, X, <<>>, g)
    <3> HIDE DEF g
    <3>1. QED BY <2>1, FoldExists
  <2>3. ASSUME NEW s \in SUBSET (1..n), s # {}
        PROVE  f[s] = Enter(f[s \ {Max(s)}], parts[Max(s)])
    <3>1. Max(s) \in 1..n
      BY <2>3, GreatestOf
    <3>2. f[s \ {Max(s)}] \in X
      BY <2>2 DEF IsFold
    <3>3. QED BY <2>2, <2>3, <3>1, <3>2 DEF IsFold
  <2>4. f = Def(f)
    BY <2>2, <2>3 DEF IsFold
  <2> HIDE DEF Def
  <2>5. QED BY <2>4
<1>3. Walked(parts) = F[1..n]
  BY <1>1 DEF Walked, FoldLeft, MapThenFoldSet
<1> HIDE DEF F
<1>4. h[0] = <<>>
  <2>1. {} \in SUBSET (1..n) /\ 1..0 = {} /\ 0 \in 0..n
    OBVIOUS
  <2>2. F[{}] = <<>>
    BY <1>2, <2>1
  <2>3. QED BY <2>1, <2>2
<1>5. ASSUME NEW k \in 1..n PROVE h[k] = Enter(h[k-1], parts[k])
  <2>1. /\ 1..k \in SUBSET (1..n) /\ 1..k # {}
        /\ Max(1..k) = k /\ (1..k) \ {k} = 1..(k-1)
    BY PositionsUpTo
  <2>2. F[1..k] = Enter(F[1..(k-1)], parts[k])
    BY <1>2, <2>1
  <2>3. k \in 0..n /\ k - 1 \in 0..n
    OBVIOUS
  <2>4. QED BY <2>2, <2>3
<1>6. Walked(parts) = h[n]
  BY <1>3
<1> HIDE DEF h
<1>7. QED BY <1>4, <1>5, <1>6

LEMMA WalkOn ==
  ASSUME NEW Q, NEW parts \in Seq(Q), NEW part \in Q
  PROVE  Walked(Append(parts, part)) = Enter(Walked(parts), part)
<1> DEFINE more == Append(parts, part)
           n == Len(parts)
<1>1. PICK h : /\ h[0] = <<>>
               /\ \A k \in 1..n : h[k] = Enter(h[k-1], parts[k])
               /\ Walked(parts) = h[n]
  BY WalkSteps
<1>2. /\ more \in Seq(Q) /\ Len(more) = n + 1 /\ n \in Nat
      /\ \A k \in 1..n : more[k] = parts[k]
      /\ more[n+1] = part
  OBVIOUS
<1> HIDE DEF more
<1>3. PICK r : /\ r[0] = <<>>
               /\ \A k \in 1..Len(more) : r[k] = Enter(r[k-1], more[k])
               /\ Walked(more) = r[Len(more)]
  BY <1>2, WalkSteps
<1> HIDE DEF n
<1> DEFINE T == {k \in 0..n : h[k] = r[k]}
<1>4. 0 \in T
  BY <1>1, <1>2, <1>3
<1>5. ASSUME NEW j \in 0..(n-1), j \in T PROVE j + 1 \in T
  <2>1. j + 1 \in 1..n /\ j + 1 \in 1..Len(more) /\ (j + 1) - 1 = j /\ j + 1 \in 0..n
    BY <1>2
  <2>2. h[j+1] = Enter(h[j], parts[j+1]) /\ r[j+1] = Enter(r[j], parts[j+1])
    BY <1>1, <1>2, <1>3, <2>1
  <2>3. h[j] = r[j]
    BY <1>5
  <2>4. QED BY <2>1, <2>2, <2>3
<1>6. n \in T
  <2>1. n \in 0..n
    BY <1>2
  <2> HIDE DEF T
  <2>2. QED BY <1>2, <1>4, <1>5, <2>1, UpTo
<1>7. r[n+1] = Enter(r[n], part)
  <2>1. n + 1 \in 1..Len(more) /\ (n + 1) - 1 = n
    BY <1>2
  <2>2. QED BY <1>2, <1>3, <2>1
<1>8. QED BY <1>1, <1>2, <1>3, <1>6, <1>7 DEF more

(* A valid name is one directory further down, whatever the path before.   *)
Dot == "."

LEMMA WalkToName ==
  ASSUME NEW path, Sequence(path), NEW name, Sequence(name), name # <<>>, name[1] # Dot,
         \A i \in 1..Len(name) : name[i] # Slash
  PROVE  Walk(path \o <<Slash>> \o name) = Append(Walk(path), name)
<1>1. PICK P : Slash \in P /\ path \in Seq(P) /\ name \in Seq(P)
  <2>1. PICK S, R : path \in Seq(S) /\ name \in Seq(R)
    BY DEF Sequence
  <2> DEFINE P == S \union R \union {Slash}
  <2>2. Slash \in P /\ path \in Seq(P) /\ name \in Seq(P)
    BY <2>1
  <2> HIDE DEF P
  <2>3. QED BY <2>2
<1> DEFINE parts == Components(path)
           Q == Seq(P)
           all == path \o <<Slash>> \o name
<1>2. Components(all) = Append(parts, name)
  BY <1>1, NameIsComponent
<1>3. parts \in Seq(Q)
  BY <1>1, ComponentsType
<1>4. name \in Q
  BY <1>1
<1>5. Walk(path) = Walked(parts) /\ Walk(all) = Walked(Components(all))
  BY DEF Walk, Walked
<1> HIDE DEF parts, Q, all
<1>6. Walk(all) = Enter(Walk(path), name)
  BY <1>2, <1>3, <1>4, <1>5, WalkOn
<1>7. name # <<Dot>> /\ name # <<Dot, Dot>>
  <2> DEFINE one == <<Dot>>
             two == <<Dot, Dot>>
  <2>1. one[1] = Dot /\ two[1] = Dot
    OBVIOUS
  <2> HIDE DEF one, two
  <2>2. name # one /\ name # two
    BY <2>1
  <2>3. QED BY <2>2 DEF one, two
<1>8. Enter(Walk(path), name) = Append(Walk(path), name)
  BY <1>7, Zenon DEF Enter, Dot
<1>9. QED BY <1>6, <1>8 DEF all

(* The files of a VM are its directory and what is below it, but a socket  *)
(* in the runtime directory, which is told by how its name ends.           *)
Below(tail) == Sequence(tail) /\ (tail = <<>> \/ tail[1] = Slash)
InDir(env, name, file) == \E tail : Below(tail) /\ file = VmDir(env, name) \o tail
NoSlash(name) == Sequence(name) /\ \A i \in 1..Len(name) : name[i] # Slash

LEMMA NameThenSlash ==
  ASSUME NEW P, NEW below \in Seq(P), NEW one \in Seq(P), NEW two \in Seq(P),
         NEW tail1 \in Seq(P), tail1 = <<>> \/ tail1[1] = Slash, NEW tail2 \in Seq(P),
         \A i \in 1..Len(two) : two[i] # Slash,
         (below \o one) \o tail1 = (below \o two) \o tail2
  PROVE  Len(one) >= Len(two)
<1> DEFINE dir1 == below \o one
           dir2 == below \o two
           left == dir1 \o tail1
           right == dir2 \o tail2
           m == Len(below)
           a == Len(one)
           b == Len(two)
           c == Len(tail1)
           d == Len(tail2)
<1>1. m \in Nat /\ a \in Nat /\ b \in Nat /\ c \in Nat /\ d \in Nat
  OBVIOUS
<1>2. /\ dir1 \in Seq(P) /\ Len(dir1) = m + a
      /\ dir2 \in Seq(P) /\ Len(dir2) = m + b
      /\ \A i \in 1..Len(two) : dir2[m + i] = two[i]
  BY ConcatProperties
<1> HIDE DEF dir1, dir2
<1>20. dir1 \in Seq(P) /\ dir2 \in Seq(P) /\ tail1 \in Seq(P) /\ tail2 \in Seq(P)
  BY <1>2
<1>3. /\ left \in Seq(P) /\ Len(left) = Len(dir1) + c
      /\ \A i \in 1..Len(tail1) : left[Len(dir1) + i] = tail1[i]
  BY ONLY <1>20, ConcatProperties
<1>4. /\ right \in Seq(P) /\ Len(right) = Len(dir2) + d
      /\ \A i \in 1..Len(dir2) : right[i] = dir2[i]
  BY ONLY <1>20, ConcatProperties
<1>5. left = right
  BY DEF dir1, dir2
<1> HIDE DEF left, right
<1>6. SUFFICES ASSUME a < b PROVE FALSE
  BY <1>1
<1>7. c > 0
  BY <1>1, <1>2, <1>3, <1>4, <1>5, <1>6
<1>8. tail1[1] = Slash
  <2>1. Len(tail1) # 0
    BY <1>7
  <2>2. tail1 # <<>>
    <3>1. Len(<<>>) = 0
      OBVIOUS
    <3>2. QED BY <2>1, <3>1, Zenon
  <2>3. QED BY <2>2
<1>9. a + 1 \in 1..Len(two) /\ 1 \in 1..Len(tail1) /\ m + (a + 1) \in 1..Len(dir2)
  BY <1>1, <1>2, <1>6, <1>7
<1>10. left[Len(dir1) + 1] = Slash
  BY <1>3, <1>8, <1>9
<1>11. right[m + (a + 1)] = two[a+1] /\ two[a+1] # Slash
  BY <1>2, <1>4, <1>9
<1>12. Len(dir1) + 1 = m + (a + 1)
  BY <1>1, <1>2
<1>13. QED BY <1>5, <1>10, <1>11, <1>12

LEMMA DirsHoldTheirOwn ==
  ASSUME NEW env, EnvOK(env), NEW one, NameOK(one), NoSlash(one), NEW two, NameOK(two), NoSlash(two),
         NEW file, InDir(env, one, file), InDir(env, two, file)
  PROVE  one = two
<1> DEFINE below == VmsDir(env) \o <<Slash>>
<1>1. Sequence(below)
  BY VmsDirIs, OnePieceFits, SequenceBoth DEF EndsIn
<1>2. VmDir(env, one) = below \o one /\ VmDir(env, two) = below \o two
  BY VmDirIs
<1> HIDE DEF below
<1>3. PICK tail1 : Below(tail1) /\ file = (below \o one) \o tail1
  BY <1>2 DEF InDir
<1>4. PICK tail2 : Below(tail2) /\ file = (below \o two) \o tail2
  BY <1>2 DEF InDir
<1>5. PICK P : below \in Seq(P) /\ one \in Seq(P) /\ two \in Seq(P) /\ tail1 \in Seq(P) /\ tail2 \in Seq(P)
  <2>1. PICK S1, S2, S3, S4, S5 :
          below \in Seq(S1) /\ one \in Seq(S2) /\ two \in Seq(S3) /\ tail1 \in Seq(S4) /\ tail2 \in Seq(S5)
    BY <1>1, <1>3, <1>4 DEF Sequence, Below, NoSlash
  <2> DEFINE P == S1 \union S2 \union S3 \union S4 \union S5
  <2>2. below \in Seq(P) /\ one \in Seq(P) /\ two \in Seq(P) /\ tail1 \in Seq(P) /\ tail2 \in Seq(P)
    BY <2>1
  <2> HIDE DEF P
  <2>3. QED BY <2>2
<1>6. (below \o one) \o tail1 = (below \o two) \o tail2
  BY <1>3, <1>4
<1>7. Len(one) >= Len(two)
  BY <1>3, <1>5, <1>6, NameThenSlash DEF Below, NoSlash
<1>8. Len(two) >= Len(one)
  BY <1>4, <1>5, <1>6, NameThenSlash DEF Below, NoSlash
<1>9. Len(one) = Len(two)
  <2>1. Len(one) \in Nat /\ Len(two) \in Nat
    BY <1>5
  <2>2. QED BY <1>7, <1>8, <2>1
<1>10. \A i \in 1..Len(one) : one[i] = two[i]
  <2> DEFINE dir1 == below \o one
             dir2 == below \o two
             m == Len(below)
  <2>1. /\ dir1 \in Seq(P) /\ Len(dir1) = m + Len(one)
        /\ \A i \in 1..Len(one) : dir1[m + i] = one[i]
    BY <1>5, ConcatProperties
  <2>2. /\ dir2 \in Seq(P) /\ Len(dir2) = m + Len(two)
        /\ \A i \in 1..Len(two) : dir2[m + i] = two[i]
    BY <1>5, ConcatProperties
  <2>3. m \in Nat /\ Len(one) \in Nat /\ dir1 \o tail1 = dir2 \o tail2
    BY <1>5, <1>6
  <2> HIDE DEF dir1, dir2, m
  <2>4. \A i \in 1..Len(dir1) : (dir1 \o tail1)[i] = dir1[i]
    BY <1>5, <2>1, ConcatProperties
  <2>5. \A i \in 1..Len(dir2) : (dir2 \o tail2)[i] = dir2[i]
    BY <1>5, <2>2, ConcatProperties
  <2>6. SUFFICES ASSUME NEW i \in 1..Len(one) PROVE one[i] = two[i]
    OBVIOUS
  <2>7. m + i \in 1..Len(dir1) /\ m + i \in 1..Len(dir2) /\ i \in 1..Len(two)
    BY <1>9, <2>1, <2>2, <2>3
  <2>8. dir1[m + i] = dir2[m + i]
    BY <2>3, <2>4, <2>5, <2>7
  <2>9. QED BY <2>1, <2>2, <2>7, <2>8
<1>11. QED BY <1>5, <1>9, <1>10, SeqEqual

LEMMA BelowDir ==
  ASSUME NEW env, EnvOK(env), NEW name, NameOK(name), NEW dir, InDir(env, name, dir),
         NEW last, EndsIn(dir, last), last # Slash, NEW file, file # Slash
  PROVE  InDir(env, name, Join(dir, <<file>>))
<1> DEFINE slash == <<Slash>>
           rest == <<file>>
           end == slash \o rest
           top == VmDir(env, name)
<1>1. Join(dir, rest) = (dir \o slash) \o rest
  BY FileIn
<1>2. slash \in Seq({Slash}) /\ rest \in Seq({file}) /\ Len(slash) = 1 /\ slash[1] = Slash
  OBVIOUS
<1> HIDE DEF slash, rest
<1>3. PICK tail : Below(tail) /\ dir = top \o tail
  BY DEF InDir
<1>4. Sequence(top)
  BY VmDirIs DEF EndsIn
<1> HIDE DEF top
<1>5. PICK P : top \in Seq(P) /\ tail \in Seq(P) /\ slash \in Seq(P) /\ rest \in Seq(P)
  <2>1. PICK S1, S2 : top \in Seq(S1) /\ tail \in Seq(S2)
    BY <1>3, <1>4 DEF Sequence, Below
  <2> DEFINE P == S1 \union S2 \union {Slash} \union {file}
  <2>2. top \in Seq(P) /\ tail \in Seq(P) /\ slash \in Seq(P) /\ rest \in Seq(P)
    BY <1>2, <2>1
  <2> HIDE DEF P
  <2>3. QED BY <2>2
<1>6. end \in Seq(P) /\ end[1] = Slash
  <2>1. /\ end \in Seq(P) /\ \A i \in 1..Len(slash) : end[i] = slash[i]
    BY <1>5, ConcatProperties
  <2> HIDE DEF end
  <2>2. QED BY <1>2, <2>1
<1>7. (dir \o slash) \o rest = top \o (tail \o end)
  <2>1. dir \in Seq(P)
    BY <1>3, <1>5
  <2>2. (dir \o slash) \o rest = dir \o end
    <3>1. (dir \o slash) \o rest = dir \o (slash \o rest)
      <4>1. dir \in Seq(P) /\ slash \in Seq(P) /\ rest \in Seq(P)
        BY <1>5, <2>1
      <4>2. QED BY ONLY <4>1, ConcatAssociative
    <3>2. QED BY <3>1
  <2> HIDE DEF end
  <2>3. (top \o tail) \o end = top \o (tail \o end)
    <3>1. top \in Seq(P) /\ tail \in Seq(P) /\ end \in Seq(P)
      BY <1>5, <1>6
    <3>2. QED BY ONLY <3>1, ConcatAssociative
  <2>4. QED BY <1>3, <2>2, <2>3
<1> HIDE DEF end
<1>8. Below(tail \o end)
  <2>1. /\ tail \o end \in Seq(P) /\ \A i \in 1..Len(tail) : (tail \o end)[i] = tail[i]
    BY <1>5, <1>6, ConcatProperties
  <2>2. CASE tail = <<>>
    <3>1. <<>> \o end = end
      BY <1>6, ConcatEmptySeq
    <3>2. tail \o end = end
      BY <2>2, <3>1, Zenon
    <3>3. QED BY <1>6, <2>1, <3>2 DEF Below, Sequence
  <2>3. CASE tail # <<>>
    <3>1. tail[1] = Slash
      BY <1>3, <2>3 DEF Below
    <3>2. Len(tail) \in Nat /\ Len(tail) # 0
      BY <1>5, <2>3, EmptySeq
    <3>3. (tail \o end)[1] = Slash
      BY <2>1, <3>1, <3>2
    <3>4. QED BY <2>1, <3>3 DEF Below, Sequence
  <2>4. QED BY <2>2, <2>3
<1>9. InDir(env, name, (dir \o slash) \o rest)
  BY <1>7, <1>8 DEF InDir, top
<1>10. QED BY <1>1, <1>9 DEF rest

(* A socket in the runtime directory.                                      *)
LEMMA RunSocketIs ==
  ASSUME NEW env, EnvOK(env), HasRuntimeDir(env), NEW name, NameOK(name)
  PROVE  EndsIn(TpmSocket(env, name), "-swtpm.sock")
<1> DEFINE app == <<"daholyvm">>
           run == RuntimeDir(env)
           sock == <<"-swtpm.sock">>
           rest == name \o sock
<1>1. Fits(app) /\ EndsIn(app, "daholyvm") /\ EndsIn(sock, "-swtpm.sock")
  BY OnePieceFits DEF Slash
<1>2. TpmSocket(env, name) = Join(run, rest) /\ run = Join(env.xdg_runtime_dir, app)
  BY DEF TpmSocket, RuntimeDir
<1> HIDE DEF app, run, sock
<1>3. EndsIn(run, "daholyvm")
  BY <1>1, <1>2, JoinedEnds DEF EnvOK
<1>4. EndsIn(rest, "-swtpm.sock") /\ rest[1] = name[1]
  BY <1>1, EndOfBoth DEF NameOK, Fits
<1>5. Fits(rest)
  BY <1>4 DEF EndsIn, Fits, NameOK
<1> HIDE DEF rest
<1>6. QED BY <1>2, <1>3, <1>4, <1>5, JoinedEnds DEF EndsIn

SocketEnd == "-swtpm.sock"

LEMMA NameIsClear ==
  ASSUME NEW name, Sequence(name), ValidName(name)
  PROVE  /\ NameOK(name) /\ NoSlash(name) /\ name # <<>> /\ name[1] # Dot
         /\ name[Len(name)] # SocketEnd
<1>1. PICK S : name \in Seq(S)
  BY DEF Sequence
<1>2. name # <<>> /\ name[1] # Dot /\ Allowed(name)
  BY Zenon DEF ValidName, Dot
<1>3. Len(name) \in Nat \ {0} /\ DOMAIN name = 1..Len(name)
  BY <1>1, <1>2, EmptySeq
<1>4. \A i \in 1..Len(name) : name[i] \in Ordinary \union {"-", "_", "."}
  BY <1>2, <1>3, Zenon DEF Allowed
<1>5. SocketEnd \notin Ordinary \union {"-", "_", "."}
  <2>1. SocketEnd \notin Ordinary
    BY OrdinaryAssumption, Zenon DEF SocketEnd
  <2>2. SocketEnd \notin {"-", "_", "."}
    BY DEF SocketEnd
  <2>3. QED BY <2>1, <2>2
<1>6. name[Len(name)] \in Ordinary \union {"-", "_", "."}
  <2>1. Len(name) \in 1..Len(name)
    BY <1>3
  <2>2. QED BY <1>4, <2>1, Zenon
<1>7. NoSlash(name)
  BY <1>1, <1>4, NoSlashes DEF NoSlash, Sequence
<1>8. QED BY <1>2, <1>5, <1>6, <1>7, ValidNameOK

(* Where each file of a VM is.                                             *)
LEMMA FilesBelow ==
  ASSUME NEW env, EnvOK(env), NEW name, Sequence(name), ValidName(name),
         NEW file \in FilesOfVm(env, name)
  PROVE  \/ InDir(env, name, file) /\ file[Len(file)] # SocketEnd
         \/ /\ HasRuntimeDir(env) /\ file = VmPaths(env, name).tpm_socket
            /\ EndsIn(file, SocketEnd)
         \/ ~HasRuntimeDir(env) /\ InDir(env, name, file)
<1> DEFINE dir == VmDir(env, name)
           last == name[Len(name)]
           state == Join(dir, <<"tpm">>)
<1>0. NameOK(name) /\ last # SocketEnd
  BY NameIsClear
<1>1. EndsIn(dir, last) /\ last # Slash
  BY <1>0, VmDirIs DEF NameOK
<1>2. /\ "disk.qcow2" # Slash /\ "OVMF_VARS.fd" # Slash /\ "tpm" # Slash
      /\ "swtpm.sock" # Slash /\ "daholyvm" # Slash
      /\ "disk.qcow2" # SocketEnd /\ "OVMF_VARS.fd" # SocketEnd /\ "tpm" # SocketEnd
  BY DEF Slash, SocketEnd
<1>3. InDir(env, name, dir)
  <2> DEFINE none == <<>>
  <2>1. Sequence(none)
    <3>1. none \in Seq({})
      BY EmptySeq
    <3>2. QED BY <3>1 DEF Sequence
  <2>2. dir \o none = dir
    <3>1. PICK S : dir \in Seq(S)
      BY <1>1 DEF EndsIn, Sequence
    <3> HIDE DEF dir
    <3>2. QED BY <3>1, ConcatEmptySeq
  <2>3. Below(none)
    BY <2>1 DEF Below
  <2> HIDE DEF none
  <2>4. QED BY <2>2, <2>3 DEF InDir
<1>4. FilesOfVm(env, name) = {dir, Join(dir, <<"disk.qcow2">>), Join(dir, <<"OVMF_VARS.fd">>),
                              state, TpmSocket(env, name)}
  BY DEF FilesOfVm, VmPaths, TpmState
<1>5. VmPaths(env, name).tpm_socket = TpmSocket(env, name)
  BY DEF VmPaths
<1>6. ~HasRuntimeDir(env) => TpmSocket(env, name) = Join(state, <<"swtpm.sock">>)
  BY DEF TpmSocket, TpmState
<1> HIDE DEF dir, last
<1>7. /\ InDir(env, name, Join(dir, <<"disk.qcow2">>))
      /\ EndsIn(Join(dir, <<"disk.qcow2">>), "disk.qcow2")
  BY <1>0, <1>1, <1>2, <1>3, BelowDir, FileIn
<1>8. /\ InDir(env, name, Join(dir, <<"OVMF_VARS.fd">>))
      /\ EndsIn(Join(dir, <<"OVMF_VARS.fd">>), "OVMF_VARS.fd")
  BY <1>0, <1>1, <1>2, <1>3, BelowDir, FileIn
<1>9. InDir(env, name, state) /\ EndsIn(state, "tpm")
  BY <1>0, <1>1, <1>2, <1>3, BelowDir, FileIn
<1> HIDE DEF state
<1>10. InDir(env, name, Join(state, <<"swtpm.sock">>))
  BY <1>0, <1>2, <1>9, BelowDir
<1>11. CASE file = dir
  BY <1>0, <1>1, <1>3, <1>11 DEF EndsIn
<1>12. CASE file = Join(dir, <<"disk.qcow2">>)
  BY <1>2, <1>7, <1>12 DEF EndsIn
<1>13. CASE file = Join(dir, <<"OVMF_VARS.fd">>)
  BY <1>2, <1>8, <1>13 DEF EndsIn
<1>14. CASE file = state
  BY <1>2, <1>9, <1>14 DEF EndsIn
<1>15. CASE file = TpmSocket(env, name)
  <2>1. CASE ~HasRuntimeDir(env)
    BY <1>6, <1>10, <1>15, <2>1
  <2>2. CASE HasRuntimeDir(env)
    BY <1>0, <1>5, <1>15, <2>2, RunSocketIs DEF SocketEnd
  <2>3. QED BY <2>1, <2>2
<1>16. QED BY <1>4, <1>11, <1>12, <1>13, <1>14, <1>15

(* A valid name is one directory below vms/, and no file of one VM is a    *)
(* file of another: for all names, homes and runtime directories.          *)
THEOREM NamesAreApart == Spec => []NamesStayInside
<1>1. InputOK => NamesStayInside
  <2> SUFFICES ASSUME InputOK, input.kind = "name", ValidName(input.text), NEW env \in Envs
               PROVE  /\ Walk(VmDir(env, input.text)) = Append(Walk(VmsDir(env)), input.text)
                      /\ \A other \in Names \ {input.text} :
                           FilesOfVm(env, input.text) \intersect FilesOfVm(env, other) = {}
    BY DEF NamesStayInside
  <2> DEFINE name == input.text
  <2>1. EnvOK(env)
    <3>1. \A text \in DataHomes \union Homes \union RuntimeDirs : Sequence(text)
      BY PathsAssumption DEF Sequence
    <3>2. /\ env.xdg_data_home \in DataHomes /\ env.home \in Homes
          /\ env.xdg_runtime_dir \in RuntimeDirs
      BY DEF Envs
    <3>3. QED BY <3>1, <3>2 DEF EnvOK
  <2>2. Sequence(name)
    BY InputKinds DEF Sequence
  <2>3. /\ NameOK(name) /\ NoSlash(name) /\ name # <<>> /\ name[1] # Dot
    BY <2>2, NameIsClear
  <2>4. Walk(VmDir(env, name)) = Append(Walk(VmsDir(env)), name)
    <3>1. Sequence(VmsDir(env))
      BY <2>1, VmsDirIs DEF EndsIn
    <3>2. VmDir(env, name) = VmsDir(env) \o <<Slash>> \o name
      BY <2>1, <2>3, VmDirIs
    <3> HIDE DEF name
    <3>3. Walk(VmsDir(env) \o <<Slash>> \o name) = Append(Walk(VmsDir(env)), name)
      BY <2>2, <2>3, <3>1, WalkToName DEF NoSlash
    <3>4. QED BY <3>2, <3>3
  <2>5. ASSUME NEW other \in Names \ {name} PROVE FilesOfVm(env, name) \intersect FilesOfVm(env, other) = {}
    <3>1. Sequence(other) /\ ValidName(other)
      BY NamesAssumption, PathsAssumption DEF Sequence
    <3>0. ValidName(name)
      OBVIOUS
    <3>2. NameOK(other) /\ NoSlash(other) /\ name # other
      BY <3>1, NameIsClear
    <3> HIDE DEF name
    <3>3. SUFFICES ASSUME NEW file \in FilesOfVm(env, name), file \in FilesOfVm(env, other) PROVE FALSE
      OBVIOUS
    <3>4. ~(InDir(env, name, file) /\ InDir(env, other, file))
      BY <2>1, <2>3, <3>2, DirsHoldTheirOwn
    <3>5. \/ InDir(env, name, file) /\ file[Len(file)] # SocketEnd
          \/ /\ HasRuntimeDir(env) /\ file = VmPaths(env, name).tpm_socket
             /\ EndsIn(file, SocketEnd)
          \/ ~HasRuntimeDir(env) /\ InDir(env, name, file)
      BY <2>1, <2>2, <3>0, <3>3, FilesBelow
    <3>6. \/ InDir(env, other, file) /\ file[Len(file)] # SocketEnd
          \/ /\ HasRuntimeDir(env) /\ file = VmPaths(env, other).tpm_socket
             /\ EndsIn(file, SocketEnd)
          \/ ~HasRuntimeDir(env) /\ InDir(env, other, file)
      BY <2>1, <3>1, <3>3, FilesBelow
    <3>7. VmPaths(env, name).tpm_socket # VmPaths(env, other).tpm_socket
      BY <2>1, <2>3, <3>2, FilesApart
    <3>8. QED BY <3>4, <3>5, <3>6, <3>7 DEF EndsIn
  <2>6. QED BY <2>4, <2>5
<1>2. QED BY <1>1, TextsTyped, PTL
=============================================================================
