----------------------------- MODULE DocsProofs -----------------------------
(***************************************************************************)
(* Proofs about ManagedDocs, for every number of sections, versions, lines *)
(* and edits.  A file whose markers are in pairs stays so (DocsInv); it    *)
(* may be cut between its sections, and each write of harnez puts blocks   *)
(* in the place of whole sections, from which follows that it keeps the    *)
(* person's lines (LinesKept).  A reconciliation keeps them in torn files  *)
(* as well, and reproduces what it has written (TornKept).  Writes of      *)
(* different sections commute, of one section the last one counts, so an   *)
(* init that starts again ends where it would have ended (InitConverge),   *)
(* with every section as configured (InitConfigures).                      *)
(* Recursive functions are reasoned about with a least counterexample      *)
(* (LeastNat, from the well-foundedness of the naturals).                  *)
(***************************************************************************)
EXTENDS ManagedDocs, WellFoundedInduction, SequenceTheorems, TLAPS

-----------------------------------------------------------------------------
(* Induction over the numbers of lines and of sections *)

\* The order of the naturals as a relation, as the library's facts on
\* well-founded relations take it.
Less == {p \in Nat \X Nat : p[1] < p[2]}

\* The naturals are well-founded.
LEMMA LessWF == IsWellFoundedOn(Less, Nat)
BY NatLessThanWellFounded DEF OpToRel, Less

\* A nonempty set of naturals has a least element.
LEMMA LeastNat ==
  ASSUME NEW S \in SUBSET Nat, S # {}
  PROVE  \E n \in S : \A m \in S : n <= m
<1>1. PICK x \in S : \A y \in S : ~ (<<y, x>> \in Less)
  BY LessWF, WFMin, Zenon
<1>2. \A y \in S : x <= y
  <2> TAKE y \in S
  <2>1. ~ (<<y, x>> \in Less) BY <1>1
  <2>2. x \in Nat /\ y \in Nat OBVIOUS
  <2> QED BY <2>1, <2>2 DEF Less
<1> QED BY <1>2

\* Induction from n down to 1, for a set of the numbers that are fine.
LEMMA Downward ==
  ASSUME NEW n \in Nat, NEW S,
         \A i \in 1..n : (\A k \in i+1..n : k \in S) => i \in S
  PROVE  \A i \in 1..n : i \in S
<1> DEFINE Bad == {m \in Nat : m < n /\ n - m \notin S}
<1> SUFFICES ASSUME NEW i \in 1..n, i \notin S PROVE FALSE OBVIOUS
<1>1. n - i \in Bad
  <2>1. n - i \in Nat /\ n - i < n /\ n - (n - i) = i OBVIOUS
  <2> QED BY <2>1
<1>2. PICK m \in Bad : \A l \in Bad : m <= l
  <2> HIDE DEF Bad
  <2> QED BY <1>1, LeastNat, Bad \in SUBSET Nat DEF Bad
<1>3. n - m \in 1..n BY <1>2
<1>4. \A k \in (n-m)+1..n : k \in S
  <2> SUFFICES ASSUME NEW k \in (n-m)+1..n, k \notin S PROVE FALSE OBVIOUS
  <2>1. n - k \in Bad
    <3>1. n - k \in Nat /\ n - k < n /\ n - (n - k) = k BY <1>3
    <3> QED BY <3>1
  <2> QED BY <2>1, <1>2
<1> QED BY <1>2, <1>3, <1>4

\* Induction from 0 up to n, in the same form.
LEMMA Upward ==
  ASSUME NEW n \in Nat, NEW S, 0 \in S, \A i \in 0..n : i \in S /\ i < n => i+1 \in S
  PROVE  \A i \in 0..n : i \in S
<1> DEFINE Bad == {m \in 0..n : m \notin S}
<1> SUFFICES ASSUME Bad # {} PROVE FALSE OBVIOUS
<1>1. PICK m \in Bad : \A l \in Bad : m <= l
  <2> HIDE DEF Bad
  <2> QED BY LeastNat, Bad \in SUBSET Nat DEF Bad
<1>2. m # 0 /\ m - 1 \in 0..n /\ m - 1 < n OBVIOUS
<1>3. m - 1 \in S BY <1>1, <1>2
<1> QED BY <1>1, <1>2, <1>3

-----------------------------------------------------------------------------
(* What a writer writes *)

\* What a writer has still to write from a line on, as Written defines it.
Rest(piece, next) ==
  LET rest[i \in 1..Len(piece)+1] ==
        IF i > Len(piece) THEN <<>> ELSE piece[i] \o rest[next[i]]
  IN rest

\* Written is what there is to write from line 1 on.
LEMMA WrittenIsRest ==
  ASSUME NEW piece, NEW next PROVE Written(piece, next) = Rest(piece, next)[1]
BY DEF Written, Rest

\* A writer only goes forward.
Goes(piece, next) ==
  \A i \in 1..Len(piece) : next[i] \in i+1..Len(piece)+1

\* R is what a writer has to write from each line on.
IsRest(piece, next, R) ==
  R = [i \in 1..Len(piece)+1 |-> IF i > Len(piece) THEN <<>> ELSE piece[i] \o R[next[i]]]

\* The function exists.
LEMMA RestExists ==
  ASSUME NEW piece, Len(piece) \in Nat, NEW next, Goes(piece, next)
  PROVE  IsRest(piece, next, Rest(piece, next))
<1> DEFINE L == Len(piece)
           Val(f, i) == IF i > L THEN <<>> ELSE piece[i] \o f[next[i]]
           D(n) == {i \in 1..L+1 : i >= L+1-n}
           Good == {n \in Nat : \E f : \A i \in D(n) : f[i] = Val(f, i)}
<1>1. 0 \in Good
  <2> DEFINE f == [i \in 1..L+1 |-> <<>>]
  <2>1. ASSUME NEW i \in D(0) PROVE f[i] = Val(f, i)
    <3>1. i > L /\ f[i] = <<>> OBVIOUS
    <3> QED BY <3>1, Zenon
  <2> HIDE DEF f, Val, D
  <2> QED BY <2>1
<1>2. ASSUME NEW n \in 0..L, n \in Good, n < L PROVE n+1 \in Good
  <2>1. PICK f : \A i \in D(n) : f[i] = Val(f, i) BY <1>2
  <2> DEFINE g == [i \in 1..L+1 |-> IF i \in D(n) THEN f[i] ELSE Val(f, i)]
  <2>2. ASSUME NEW i \in D(n+1) PROVE g[i] = Val(g, i)
    <3>1. g[i] = Val(f, i) BY <2>1
    <3>2. CASE i > L BY <3>1, <3>2
    <3>3. CASE i <= L
      <4>1. next[i] \in D(n) BY <3>3 DEF Goes
      <4>2. g[next[i]] = f[next[i]] BY <4>1
      <4> QED BY <3>1, <4>2
    <3> QED BY <3>2, <3>3
  <2> HIDE DEF g, Val, D
  <2> QED BY <2>2
<1>3. L \in Good
  <2> HIDE DEF Good
  <2>1. \A i \in 0..L : i \in Good BY <1>1, <1>2, Upward
  <2> QED BY <2>1
<1>4. PICK f : \A i \in D(L) : f[i] = Val(f, i) BY <1>3
<1> DEFINE h == [i \in 1..L+1 |-> f[i]]
<1>5. h = [i \in 1..L+1 |-> Val(h, i)]
  <2>1. ASSUME NEW i \in 1..L+1 PROVE f[i] = Val(h, i)
    <3>1. f[i] = Val(f, i) BY <1>4
    <3>2. i <= L => h[next[i]] = f[next[i]] BY DEF Goes
    <3> QED BY <3>1, <3>2
  <2> HIDE DEF Val
  <2> QED BY <2>1
<1>6. Rest(piece, next) = CHOOSE r : r = [i \in 1..L+1 |-> Val(r, i)]
  BY DEF Rest
<1> HIDE DEF h, Val
<1>7. Rest(piece, next) = [i \in 1..L+1 |-> Val(Rest(piece, next), i)]
  BY <1>5, <1>6
<1> QED BY <1>7 DEF Val, IsRest

\* A walk that stays in a set of lines.
Piece(T, piece, next) == piece \in Seq(Seq(T)) /\ Goes(piece, next)

\* At the end of the file nothing is left to write.
LEMMA RestEnd ==
  ASSUME NEW T, NEW piece, NEW next, Piece(T, piece, next)
  PROVE  Rest(piece, next)[Len(piece)+1] = <<>>
<1> DEFINE R == Rest(piece, next)
           L == Len(piece)
<1>0. L \in Nat /\ Goes(piece, next) BY DEF Piece
<1>1. R = [i \in 1..L+1 |-> IF i > L THEN <<>> ELSE piece[i] \o R[next[i]]]
  <2>1. IsRest(piece, next, R) BY <1>0, RestExists
  <2> QED BY <2>1 DEF IsRest
<1> HIDE DEF R, L
<1>2. L+1 \in 1..L+1 /\ L+1 > L BY <1>0
<1>3. R[L+1] = <<>> BY <1>1, <1>2
<1> QED BY <1>3 DEF R, L

\* What is to be written from a line on: its piece, and the rest from the next
\* line on.
Steps(piece, next, R) ==
  \A i \in 1..Len(piece) : R[i] = piece[i] \o R[next[i]]

\* A writer takes such steps.
LEMMA RestSteps ==
  ASSUME NEW T, NEW piece, NEW next, Piece(T, piece, next)
  PROVE  Steps(piece, next, Rest(piece, next))
<1> DEFINE R == Rest(piece, next)
           L == Len(piece)
<1>0. L \in Nat /\ Goes(piece, next) BY DEF Piece
<1>1. R = [k \in 1..L+1 |-> IF k > L THEN <<>> ELSE piece[k] \o R[next[k]]]
  <2>1. IsRest(piece, next, R) BY <1>0, RestExists
  <2> QED BY <2>1 DEF IsRest
<1> HIDE DEF R, L
<1>2. ASSUME NEW i \in 1..L PROVE R[i] = piece[i] \o R[next[i]]
  <2>1. i \in 1..L+1 /\ ~ (i > L) BY <1>0
  <2> QED BY <1>1, <2>1
<1> QED BY <1>2 DEF R, L, Steps

\* A writer of lines of T has written lines of T.
LEMMA RestType ==
  ASSUME NEW T, NEW piece, NEW next, Piece(T, piece, next)
  PROVE  \A i \in 1..Len(piece)+1 : Rest(piece, next)[i] \in Seq(T)
<1> DEFINE R == Rest(piece, next)
           L == Len(piece)
           S == {i \in 1..L+1 : R[i] \in Seq(T)}
<1>0. L \in Nat /\ Goes(piece, next) /\ piece \in [1..L -> Seq(T)]
  BY DEF Piece
<1>2. R[L+1] = <<>> BY RestEnd
<1>3. ASSUME NEW i \in 1..L PROVE R[i] = piece[i] \o R[next[i]]
  <2>1. Steps(piece, next, R) BY RestSteps
  <2> QED BY <2>1 DEF Steps
<1> HIDE DEF R, L, S
<1>4. ASSUME NEW i \in 1..L+1, \A k \in i+1..L+1 : k \in S PROVE i \in S
  <2>1. CASE i = L+1
    <3>1. R[i] = <<>> /\ <<>> \in Seq(T) BY <2>1, <1>2
    <3> QED BY <3>1 DEF S
  <2>2. CASE i \in 1..L
    <3>1. next[i] \in i+1..L+1 BY <2>2, <1>0 DEF Goes, L
    <3>2. R[next[i]] \in Seq(T) BY <1>4, <3>1 DEF S
    <3>3. piece[i] \in Seq(T) BY <2>2, <1>0
    <3>4. piece[i] \o R[next[i]] \in Seq(T) BY <3>2, <3>3, ConcatProperties
    <3> QED BY <3>4, <1>3, <2>2 DEF S
  <2> QED BY <2>1, <2>2, <1>0
<1>5. L+1 \in Nat BY <1>0
<1>6. \A i \in 1..L+1 : i \in S BY <1>4, <1>5, Downward
<1> QED BY <1>6 DEF R, L, S

-----------------------------------------------------------------------------
(* Looking for a line *)

\* From finds the first t behind line i, or none.
LEMMA FromIs ==
  ASSUME NEW T, NEW d \in Seq(T), NEW i \in Nat, NEW t
  PROVE  LET e == From(d, i, t) IN
         /\ e \in Nat
         /\ e = 0 => \A k \in i+1..Len(d) : d[k] # t
         /\ e # 0 => /\ e \in i+1..Len(d) /\ d[e] = t
                     /\ \A k \in i+1..e-1 : d[k] # t
<1> DEFINE I == {k \in i+1..Len(d) : d[k] = t}
<1>1. From(d, i, t) = IF I # {} THEN CHOOSE x \in I : \A y \in I : x <= y ELSE 0
  BY DEF From, SelectInSubSeq, Min
<1>2. I \in SUBSET Nat OBVIOUS
<1>3. CASE I = {} BY <1>1, <1>3
<1>4. CASE I # {}
  <2>1. \E x \in I : \A y \in I : x <= y BY <1>2, <1>4, LeastNat
  <2>2. From(d, i, t) \in I /\ \A y \in I : From(d, i, t) <= y BY <2>1, <1>1, <1>4
  <2> QED BY <2>2
<1> QED BY <1>3, <1>4

\* The first one of a file is the first one behind line 0.
LEMMA FirstIsFrom ==
  ASSUME NEW T, NEW d \in Seq(T), NEW t
  PROVE  First(d, t) = From(d, 0, t)
BY DEF First, From, SelectInSeq, SelectInSubSeq

\* The first one is found.
LEMMA FromAt ==
  ASSUME NEW T, NEW d \in Seq(T), NEW i \in Nat, NEW t, NEW e \in i+1..Len(d),
         d[e] = t, \A k \in i+1..e-1 : d[k] # t
  PROVE  From(d, i, t) = e
<1>1. From(d, i, t) # 0 BY FromIs
<1>2. From(d, i, t) \in i+1..Len(d) /\ d[From(d, i, t)] = t
      /\ \A k \in i+1..From(d, i, t)-1 : d[k] # t
  BY <1>1, FromIs
<1> QED BY <1>2

\* What is not there is not found.
LEMMA FromNone ==
  ASSUME NEW T, NEW d \in Seq(T), NEW i \in Nat, NEW t, \A k \in i+1..Len(d) : d[k] # t
  PROVE  From(d, i, t) = 0
<1> SUFFICES ASSUME From(d, i, t) # 0 PROVE FALSE OBVIOUS
<1> QED BY FromIs

\* Lines i to j-1 are written as they are.
Plain(d, piece, next, i, j) ==
  \A k \in i..j-1 : piece[k] = <<d[k]>> /\ next[k] = k + 1

\* What is written from line i on starts with lines i to j-1.
Copies(d, R, i, j) == R[i] = SubSeq(d, i, j-1) \o R[j]

\* Plain steps write what they see.
LEMMA PlainSteps ==
  ASSUME NEW T, NEW d \in Seq(T), NEW piece, NEW next, Piece(T, piece, next),
         Len(piece) = Len(d), NEW j \in 1..Len(d)+1, NEW i \in 1..j,
         Plain(d, piece, next, i, j)
  PROVE  Copies(d, Rest(piece, next), i, j)
<1> DEFINE R == Rest(piece, next)
           L == Len(d)
           Ok(k) == R[k] = SubSeq(d, k, j-1) \o R[j]
           S == {k \in 1..j : k >= i => Ok(k)}
<1>0. L \in Nat /\ j \in 1..L+1 /\ i \in 1..j OBVIOUS
<1>r. /\ \A k \in 1..L : R[k] = piece[k] \o R[next[k]]
      /\ \A k \in 1..L+1 : R[k] \in Seq(T)
  <2>1. /\ \A k \in 1..Len(piece) : R[k] = piece[k] \o R[next[k]]
        /\ \A k \in 1..Len(piece)+1 : R[k] \in Seq(T)
    <3>1. ASSUME NEW k \in 1..Len(piece) PROVE R[k] = piece[k] \o R[next[k]]
      <4>1. Steps(piece, next, R) BY RestSteps
      <4> QED BY <4>1 DEF Steps
    <3>2. \A k \in 1..Len(piece)+1 : R[k] \in Seq(T) BY RestType
    <3> QED BY <3>1, <3>2
  <2> QED BY <2>1
<1> HIDE DEF R, L, S, Ok
<1>1. ASSUME NEW k \in 1..j, \A l \in k+1..j : l \in S PROVE k \in S
  <2>1. CASE k = j
    <3>1. SubSeq(d, j, j-1) = <<>> BY <1>0, SubSeqEmpty
    <3>2. <<>> \o R[j] = R[j] BY <1>0, <1>r, ConcatEmptySeq
    <3> QED BY <3>1, <3>2, <2>1 DEF S, Ok
  <2>2. CASE k < i BY <2>2, <1>0 DEF S
  <2>3. CASE i <= k /\ k < j
    <3>1. R[k+1] = SubSeq(d, k+1, j-1) \o R[j]
      <4>1. k+1 \in S /\ k+1 >= i BY <1>1, <2>3, <1>0
      <4> QED BY <4>1 DEF S, Ok
    <3>2. R[k] = <<d[k]>> \o R[k+1]
      <4>1. k \in 1..L /\ k \in i..j-1 BY <2>3, <1>0
      <4>2. piece[k] = <<d[k]>> /\ next[k] = k+1 BY <4>1 DEF Plain
      <4> QED BY <4>1, <4>2, <1>r
    <3>3. SubSeq(d, k, j-1) = <<d[k]>> \o SubSeq(d, k+1, j-1)
      BY <2>3, <1>0, SubSeqRecursiveFirst DEF L
    <3>4. /\ <<d[k]>> \in Seq(T) /\ SubSeq(d, k+1, j-1) \in Seq(T) /\ R[j] \in Seq(T)
      BY <2>3, <1>0, <1>r, SubSeqProperties DEF L
    <3>5. (<<d[k]>> \o SubSeq(d, k+1, j-1)) \o R[j] = <<d[k]>> \o (SubSeq(d, k+1, j-1) \o R[j])
      <4> DEFINE a == <<d[k]>>
                 b == SubSeq(d, k+1, j-1)
                 c == R[j]
      <4>1. a \in Seq(T) /\ b \in Seq(T) /\ c \in Seq(T) BY <3>4
      <4> HIDE DEF a, b, c
      <4>2. (a \o b) \o c = a \o (b \o c) BY <4>1, ConcatAssociative
      <4> QED BY <4>2 DEF a, b, c
    <3>6. Ok(k) BY <3>1, <3>2, <3>3, <3>5, Zenon DEF Ok
    <3> QED BY <3>6 DEF S
  <2> QED BY <2>1, <2>2, <2>3, <1>0
<1>2. \A k \in 1..j : k \in S
  <2>1. j \in Nat BY <1>0
  <2> QED BY <2>1, <1>1, Downward
<1>3. i \in S /\ i >= i BY <1>0, <1>2
<1> QED BY <1>3 DEF R, S, Ok, Copies

-----------------------------------------------------------------------------
(* Lines, sections and files *)

\* The lines of the model: markers, text of a section or a bundle, stop
\* markers, own lines.
Line ==
  ({"begin", "end", "lbegin", "lend"} \X Sections \X {0})
    \cup ({"text"} \X (Sections \cup {"bundle"}) \X Version)
    \cup {Stop, OldStop} \cup {Own(u) : u \in Lines}

\* Begin and end markers of both kinds, and the end that belongs to a begin.
Opener(x) == x[1] \in {"begin", "lbegin"}
Closer(x) == x[1] \in {"end", "lend"}
Marker(x) == Opener(x) \/ Closer(x)
Closing(x) == IF x[1] = "begin" THEN EndOf(x[2]) ELSE <<"lend", x[2], 0>>

\* A marker line is the marker of its name.
LEMMA LineCases ==
  ASSUME NEW x \in Line
  PROVE  /\ x[1] = "begin" => x[2] \in Sections /\ x = Begin(x[2])
         /\ x[1] = "end" => x[2] \in Sections /\ x = EndOf(x[2])
         /\ x[1] = "lbegin" => x[2] \in Sections /\ x = <<"lbegin", x[2], 0>>
         /\ x[1] = "lend" => x[2] \in Sections /\ x = <<"lend", x[2], 0>>
BY DEF Line, Begin, EndOf, Stop, OldStop, Own

\* The markers and the text of a section are lines, of their kinds.
LEMMA MarkersAreLines ==
  ASSUME NEW s \in Sections
  PROVE  /\ Begin(s) \in Line /\ EndOf(s) \in Line
         /\ <<"lbegin", s, 0>> \in Line /\ <<"lend", s, 0>> \in Line
         /\ \A v \in Version : <<"text", s, v>> \in Line
         /\ Opener(Begin(s)) /\ Opener(<<"lbegin", s, 0>>)
         /\ Closer(EndOf(s)) /\ Closer(<<"lend", s, 0>>)
         /\ \A v \in Version : ~ Marker(<<"text", s, v>>)
         /\ Closing(Begin(s)) = EndOf(s) /\ Closing(<<"lbegin", s, 0>>) = <<"lend", s, 0>>
BY DEF Line, Begin, EndOf, Opener, Closer, Marker, Closing

\* An end marker belongs to one begin marker.
LEMMA Pairs ==
  ASSUME NEW x \in Line, NEW y \in Line, Opener(x)
  PROVE  /\ Closer(Closing(x)) /\ Closing(x) \in Line
         /\ ~ Closer(x)
         /\ Opener(y) /\ Closing(x) = Closing(y) => x = y
<1>1. x[2] \in Sections BY LineCases DEF Opener
<1>2. ~ Closer(x) BY DEF Opener, Closer
<1>3. Closing(x) \in {EndOf(x[2]), <<"lend", x[2], 0>>} BY DEF Closing
<1>4. Closer(Closing(x)) /\ Closing(x) \in Line BY <1>1, <1>3, MarkersAreLines
<1>5. ASSUME Opener(y), Closing(x) = Closing(y) PROVE x = y
  <2>1. x[2] = y[2] /\ (x[1] = "begin" <=> y[1] = "begin")
    BY <1>5 DEF Closing, EndOf
  <2>2. x[1] = y[1] BY <1>5, <2>1 DEF Opener
  <2>3. x = <<x[1], x[2], 0>> /\ y = <<y[1], y[2], 0>>
    BY <1>5, LineCases DEF Opener, Begin
  <2> QED BY <2>1, <2>2, <2>3
<1> QED BY <1>2, <1>4, <1>5

\* No line opens and closes.
LEMMA NotBoth == ASSUME NEW x \in Line PROVE ~ (Opener(x) /\ Closer(x))
BY DEF Opener, Closer

-----------------------------------------------------------------------------
\* Lines i and j of d are a section: a begin marker and its end, no marker
\* between.
Free(d, i, j) == \A k \in i+1..j-1 : ~ Marker(d[k])
Ends(x, y) == Opener(x) /\ y = Closing(x)
Sect(d, i, j) ==
  i \in 1..Len(d) /\ j \in i+1..Len(d) /\ Ends(d[i], d[j]) /\ Free(d, i, j)

\* The markers of a file are in pairs.
Paired(d) ==
  /\ \A i \in 1..Len(d) : Opener(d[i]) => \E j \in 1..Len(d) : Sect(d, i, j)
  /\ \A j \in 1..Len(d) : Closer(d[j]) => \E i \in 1..Len(d) : Sect(d, i, j)

\* Files, and where one stands in another.
Docs == Seq(Line)

\* b is in d, behind its first p lines.
In(b, d, p) ==
  p \in Nat /\ p + Len(b) <= Len(d) /\ \A k \in 1..Len(b) : d[p + k] = b[k]

\* Both parts of a concatenation stand in it.
LEMMA InConcat ==
  ASSUME NEW a \in Docs, NEW b \in Docs
  PROVE  a \o b \in Docs /\ Len(a \o b) = Len(a) + Len(b)
         /\ In(a, a \o b, 0) /\ In(b, a \o b, Len(a))
<1>1. /\ a \o b \in Docs /\ Len(a \o b) = Len(a) + Len(b)
      /\ \A i \in 1..Len(a) + Len(b) : (a \o b)[i] = IF i <= Len(a) THEN a[i] ELSE b[i - Len(a)]
  BY ConcatProperties DEF Docs
<1>2. Len(a) \in Nat /\ Len(b) \in Nat BY DEF Docs
<1> DEFINE c == a \o b
<1> HIDE DEF c
<1>3. \A i \in 1..Len(a) + Len(b) : c[i] = IF i <= Len(a) THEN a[i] ELSE b[i - Len(a)]
  BY <1>1 DEF c
<1>4. ASSUME NEW k \in 1..Len(a) PROVE c[0 + k] = a[k] BY <1>2, <1>3
<1>5. ASSUME NEW k \in 1..Len(b) PROVE c[Len(a) + k] = b[k]
  <2>1. Len(a) + k \in 1..Len(a) + Len(b) /\ ~ (Len(a) + k <= Len(a))
        /\ Len(a) + k - Len(a) = k
    BY <1>2
  <2> QED BY <2>1, <1>3
<1>6. Len(c) = Len(a) + Len(b) BY <1>1 DEF c
<1>7. In(a, c, 0) /\ In(b, c, Len(a)) BY <1>2, <1>4, <1>5, <1>6 DEF In
<1> QED BY <1>1, <1>7 DEF c

\* Lines i to j of a file stand in it, behind line i-1.
LEMMA InSubSeq ==
  ASSUME NEW d \in Docs, NEW i \in 1..Len(d)+1, NEW j \in i-1..Len(d)
  PROVE  /\ SubSeq(d, i, j) \in Docs /\ Len(SubSeq(d, i, j)) = j - i + 1
         /\ In(SubSeq(d, i, j), d, i - 1)
<1>0. Len(d) \in Nat BY DEF Docs
<1>1. /\ SubSeq(d, i, j) \in Docs
      /\ Len(SubSeq(d, i, j)) = IF i <= j THEN j - i + 1 ELSE 0
      /\ \A k \in 1..j-i+1 : SubSeq(d, i, j)[k] = d[i+k-1]
  <2>1. \A k \in i..j : d[k] \in Line BY DEF Docs
  <2> QED BY <2>1, SubSeqProperties DEF Docs
<1> DEFINE b == SubSeq(d, i, j)
<1> HIDE DEF b
<1>2. Len(b) = j - i + 1 BY <1>1 DEF b
<1>3. ASSUME NEW k \in 1..Len(b) PROVE d[i - 1 + k] = b[k]
  <2>1. b[k] = d[i+k-1] BY <1>1, <1>2 DEF b
  <2>2. i+k-1 = i-1+k OBVIOUS
  <2> QED BY <2>1, <2>2
<1>4. In(b, d, i-1) BY <1>0, <1>2, <1>3 DEF In
<1> QED BY <1>1, <1>2, <1>4 DEF b

\* Sections are where they are, seen from either document.
LEMMA SectIn ==
  ASSUME NEW b \in Docs, NEW d \in Docs, NEW p, In(b, d, p),
         NEW i \in 1..Len(b), NEW j \in 1..Len(b)
  PROVE  Sect(b, i, j) <=> Sect(d, p + i, p + j)
<1>0. Len(b) \in Nat /\ Len(d) \in Nat /\ p \in Nat /\ p + Len(b) <= Len(d)
  BY DEF Docs, In
<1>1. \A k \in 1..Len(b) : d[p + k] = b[k] BY DEF In
<1>2. d[p + i] = b[i] /\ d[p + j] = b[j] BY <1>1
<1>3. ASSUME Free(b, i, j) PROVE Free(d, p + i, p + j)
  <2>1. ASSUME NEW k \in (p+i)+1..(p+j)-1 PROVE ~ Marker(d[k])
    <3>1. k - p \in i+1..j-1 /\ k - p \in 1..Len(b) /\ p + (k - p) = k BY <1>0
    <3>2. ~ Marker(b[k - p]) BY <3>1, <1>3 DEF Free
    <3> QED BY <3>1, <3>2, <1>1
  <2> QED BY <2>1 DEF Free
<1>4. ASSUME Free(d, p + i, p + j) PROVE Free(b, i, j)
  <2>1. ASSUME NEW k \in i+1..j-1 PROVE ~ Marker(b[k])
    <3>1. p + k \in (p+i)+1..(p+j)-1 /\ k \in 1..Len(b) BY <1>0
    <3>2. ~ Marker(d[p + k]) BY <3>1, <1>4 DEF Free
    <3> QED BY <3>1, <3>2, <1>1
  <2> QED BY <2>1 DEF Free
<1>5. j \in i+1..Len(b) <=> p+j \in (p+i)+1..Len(d) BY <1>0
<1>6. p+i \in 1..Len(d) BY <1>0
<1> QED BY <1>2, <1>3, <1>4, <1>5, <1>6 DEF Sect

\* Two paired files are a paired one.
LEMMA PairedConcat ==
  ASSUME NEW a \in Docs, NEW b \in Docs, Paired(a), Paired(b)
  PROVE  Paired(a \o b)
<1> DEFINE c == a \o b
           m == Len(a)
<1>0. /\ c \in Docs /\ Len(c) = m + Len(b) /\ m \in Nat /\ Len(b) \in Nat
      /\ In(a, c, 0) /\ In(b, c, m)
  BY InConcat DEF Docs
<1> HIDE DEF c, m
<1>1. \A i, j \in 1..Len(a) : Sect(a, i, j) => Sect(c, i, j)
  <2> TAKE i, j \in 1..Len(a)
  <2>1. Sect(a, i, j) <=> Sect(c, 0 + i, 0 + j) BY <1>0, SectIn
  <2>2. 0 + i = i /\ 0 + j = j OBVIOUS
  <2> QED BY <2>1, <2>2
<1>2. \A i, j \in 1..Len(b) : Sect(b, i, j) => Sect(c, m + i, m + j)
  BY <1>0, SectIn
<1>3. \A i \in 1..m : c[i] = a[i] /\ i \in 1..Len(a)
  BY <1>0 DEF In, m
<1>4. \A i \in 1..Len(c) : i > m => c[i] = b[i - m] /\ i - m \in 1..Len(b) /\ m + (i - m) = i
  <2> TAKE i \in 1..Len(c)
  <2>1. i > m => i - m \in 1..Len(b) /\ m + (i - m) = i BY <1>0
  <2> QED BY <2>1, <1>0 DEF In
<1>5. \A i \in 1..Len(a) : i \in 1..Len(c) BY <1>0 DEF m
<1>6. \A i \in 1..Len(b) : m + i \in 1..Len(c) BY <1>0
<1>7. ASSUME NEW i \in 1..Len(c), Opener(c[i]) PROVE \E j \in 1..Len(c) : Sect(c, i, j)
  <2>1. CASE i <= m
    <3>1. i \in 1..Len(a) /\ Opener(a[i]) BY <2>1, <1>0, <1>3, <1>7
    <3> QED BY <3>1, <1>1, <1>5 DEF Paired
  <2>2. CASE i > m
    <3>1. i - m \in 1..Len(b) /\ Opener(b[i - m]) BY <2>2, <1>4, <1>7
    <3>2. PICK j \in 1..Len(b) : Sect(b, i - m, j) BY <3>1 DEF Paired
    <3>3. Sect(c, i, m + j) BY <3>1, <3>2, <1>2, <1>4, <2>2
    <3> QED BY <3>3, <1>6
  <2> QED BY <2>1, <2>2, <1>0
<1>8. ASSUME NEW j \in 1..Len(c), Closer(c[j]) PROVE \E i \in 1..Len(c) : Sect(c, i, j)
  <2>1. CASE j <= m
    <3>1. j \in 1..Len(a) /\ Closer(a[j]) BY <2>1, <1>0, <1>3, <1>8
    <3> QED BY <3>1, <1>1, <1>5 DEF Paired
  <2>2. CASE j > m
    <3>1. j - m \in 1..Len(b) /\ Closer(b[j - m]) BY <2>2, <1>4, <1>8
    <3>2. PICK i \in 1..Len(b) : Sect(b, i, j - m) BY <3>1 DEF Paired
    <3>3. Sect(c, m + i, j) BY <3>1, <3>2, <1>2, <1>4, <2>2
    <3> QED BY <3>3, <1>6
  <2> QED BY <2>1, <2>2, <1>0
<1> QED BY <1>7, <1>8 DEF Paired, c

-----------------------------------------------------------------------------
(* Cuts between sections *)

\* No section reaches across the place in front of line i.
Cut(d, i) ==
  /\ i \in 1..Len(d)+1
  /\ \A k, l \in 1..Len(d) : Sect(d, k, l) => l < i \/ i <= k

\* What is known of the lines of a section.
LEMMA SectBounds ==
  ASSUME NEW d \in Docs, NEW i, NEW j, Sect(d, i, j)
  PROVE  /\ i \in 1..Len(d) /\ j \in 1..Len(d) /\ i < j
         /\ d[i] \in Line /\ d[j] \in Line
         /\ Opener(d[i]) /\ Closer(d[j]) /\ d[j] = Closing(d[i])
         /\ \A k \in i+1..j-1 : ~ Marker(d[k])
<1>0. Len(d) \in Nat /\ d \in [1..Len(d) -> Line] BY DEF Docs
<1>1. i \in 1..Len(d) /\ j \in i+1..Len(d) /\ Opener(d[i]) /\ d[j] = Closing(d[i])
  BY DEF Sect, Ends
<1>2. j \in 1..Len(d) /\ i < j BY <1>0, <1>1
<1>3. Closer(d[j]) BY <1>0, <1>1, Pairs
<1> QED BY <1>0, <1>1, <1>2, <1>3 DEF Sect, Free

\* Sections do not overlap.
LEMMA Disjoint ==
  ASSUME NEW d \in Docs, NEW i, NEW j, Sect(d, i, j), NEW k, NEW l, Sect(d, k, l)
  PROVE  (i = k /\ j = l) \/ j < k \/ l < i
<1>0. Len(d) \in Nat BY DEF Docs
<1>1. /\ i \in 1..Len(d) /\ j \in 1..Len(d) /\ i < j
      /\ Opener(d[i]) /\ Closer(d[j]) /\ ~ Closer(d[i])
      /\ \A n \in i+1..j-1 : ~ Marker(d[n])
  BY SectBounds, NotBoth
<1>2. /\ k \in 1..Len(d) /\ l \in 1..Len(d) /\ k < l
      /\ Opener(d[k]) /\ Closer(d[l]) /\ ~ Closer(d[k])
      /\ \A n \in k+1..l-1 : ~ Marker(d[n])
  BY SectBounds, NotBoth
<1>3. ~ Opener(d[j]) /\ ~ Opener(d[l]) BY <1>1, <1>2, SectBounds, NotBoth
<1>4. k \notin i+1..j-1 /\ l \notin i+1..j-1 /\ i \notin k+1..l-1 /\ j \notin k+1..l-1
  BY <1>1, <1>2 DEF Marker
<1>5. k # j /\ l # i BY <1>1, <1>2, <1>3
<1> QED BY <1>0, <1>1, <1>2, <1>4, <1>5

\* A file may be cut at its ends.
LEMMA CutEnds == ASSUME NEW d \in Docs PROVE Cut(d, 1) /\ Cut(d, Len(d)+1)
<1> Len(d) \in Nat BY DEF Docs
<1> QED BY DEF Cut

\* A file may be cut before and behind a section.
LEMMA CutSect ==
  ASSUME NEW d \in Docs, NEW i, NEW j, Sect(d, i, j)
  PROVE  Cut(d, i) /\ Cut(d, j+1)
<1>0. Len(d) \in Nat BY DEF Docs
<1>1. i \in 1..Len(d) /\ j \in 1..Len(d) /\ i < j BY SectBounds
<1>2. \A k, l \in 1..Len(d) : Sect(d, k, l) => (i = k /\ j = l) \/ j < k \/ l < i
  BY Disjoint
<1>3. \A k, l \in 1..Len(d) : Sect(d, k, l) => k < l BY SectBounds
<1>4. ASSUME NEW k \in 1..Len(d), NEW l \in 1..Len(d), Sect(d, k, l)
      PROVE  (l < i \/ i <= k) /\ (l < j+1 \/ j+1 <= k)
  BY <1>0, <1>1, <1>2, <1>3, <1>4
<1> QED BY <1>0, <1>1, <1>4 DEF Cut

\* A file may be cut behind a line that is in no section.
LEMMA CutNext ==
  ASSUME NEW d \in Docs, NEW i \in 1..Len(d), Cut(d, i), ~ Marker(d[i])
  PROVE  Cut(d, i+1)
<1>0. Len(d) \in Nat BY DEF Docs
<1>1. ASSUME NEW k \in 1..Len(d), NEW l \in 1..Len(d), Sect(d, k, l)
      PROVE  l < i+1 \/ i+1 <= k
  <2>1. l < i \/ i <= k BY <1>1 DEF Cut
  <2>2. i # k BY <1>1, SectBounds DEF Marker
  <2> QED BY <1>0, <2>1, <2>2
<1> QED BY <1>0, <1>1 DEF Cut

\* What is behind a cut.
LEMMA CutLine ==
  ASSUME NEW d \in Docs, Paired(d), NEW i \in 1..Len(d), Cut(d, i)
  PROVE  \/ ~ Marker(d[i]) /\ Cut(d, i+1)
         \/ Opener(d[i]) /\ \E j \in i+1..Len(d) : Sect(d, i, j) /\ Cut(d, j+1)
<1>0. Len(d) \in Nat BY DEF Docs
<1>1. CASE ~ Marker(d[i]) BY <1>1, CutNext
<1>2. CASE Opener(d[i])
  <2>1. PICK j \in 1..Len(d) : Sect(d, i, j) BY <1>2 DEF Paired
  <2>2. j \in i+1..Len(d) BY <2>1 DEF Sect
  <2> QED BY <1>2, <2>1, <2>2, CutSect
<1>3. CASE Closer(d[i])
  <2>1. PICK k \in 1..Len(d) : Sect(d, k, i) BY <1>3 DEF Paired
  <2>2. i < i \/ i <= k BY <2>1 DEF Cut
  <2>3. k < i BY <2>1, SectBounds
  <2> QED BY <2>2, <2>3, <1>0
<1> QED BY <1>1, <1>2, <1>3 DEF Marker

\* The parts of a cut paired file are paired.
LEMMA CutSplit ==
  ASSUME NEW d \in Docs, Paired(d), NEW i, Cut(d, i)
  PROVE  /\ SubSeq(d, 1, i-1) \in Docs /\ SubSeq(d, i, Len(d)) \in Docs
         /\ Paired(SubSeq(d, 1, i-1)) /\ Paired(SubSeq(d, i, Len(d)))
         /\ d = SubSeq(d, 1, i-1) \o SubSeq(d, i, Len(d))
<1> DEFINE L == Len(d)
           a == SubSeq(d, 1, i-1)
           b == SubSeq(d, i, L)
<1>0. L \in Nat /\ i \in 1..L+1 BY DEF Docs, Cut
<1>1. a \in Docs /\ Len(a) = i-1 /\ In(a, d, 0)
  <2>1. i-1 \in 1-1..L /\ 1 \in 1..L+1 /\ i-1-1+1 = i-1 /\ 1-1 = 0 BY <1>0
  <2> QED BY <2>1, InSubSeq
<1>2. b \in Docs /\ Len(b) = L-i+1 /\ In(b, d, i-1)
  <2>1. L \in i-1..L BY <1>0
  <2> QED BY <2>1, <1>0, InSubSeq
<1>3. d = a \o b
  <2>1. /\ 1 \in 1..L+1 /\ i-1 \in 1-1..L /\ L \in i-1..L /\ (i-1)+1 = i BY <1>0
  <2>2. a \o b = SubSeq(d, 1, L) BY <2>1, ConcatAdjacentSubSeq DEF Docs
  <2> QED BY <2>2, SubSeqFull DEF Docs
<1> HIDE DEF a, b, L
<1>4. \A k, l \in 1..L : Sect(d, k, l) => l < i \/ i <= k BY DEF Cut, L
<1>5. \A k, l \in 1..L : Sect(d, k, l) => k < l BY SectBounds
<1>6. \A k, l \in 1..i-1 : Sect(d, k, l) => Sect(a, k, l)
  <2> TAKE k, l \in 1..i-1
  <2>1. 0 + k = k /\ 0 + l = l OBVIOUS
  <2>2. Sect(a, k, l) <=> Sect(d, 0+k, 0+l) BY <1>1, SectIn
  <2> QED BY <2>1, <2>2
<1>7. \A k, l \in i..L : Sect(d, k, l) => Sect(b, k-i+1, l-i+1)
  <2> TAKE k, l \in i..L
  <2>1. k-i+1 \in 1..Len(b) /\ l-i+1 \in 1..Len(b) /\ i-1+(k-i+1) = k /\ i-1+(l-i+1) = l
    BY <1>0, <1>2
  <2>2. Sect(b, k-i+1, l-i+1) <=> Sect(d, i-1+(k-i+1), i-1+(l-i+1)) BY <1>2, <2>1, SectIn
  <2> QED BY <2>1, <2>2
<1>8. \A k \in 1..i-1 : a[k] = d[k] /\ k \in 1..L BY <1>0, <1>1 DEF In
<1>9. \A k \in 1..L-i+1 : b[k] = d[i-1+k] /\ i-1+k \in i..L /\ (i-1+k)-i+1 = k
  BY <1>0, <1>2 DEF In
<1>10. \A k \in i..L : k \in 1..L /\ k-i+1 \in 1..Len(b) BY <1>0, <1>2
<1>11. Paired(a)
  <2>1. ASSUME NEW k \in 1..Len(a), Opener(a[k]) PROVE \E l \in 1..Len(a) : Sect(a, k, l)
    <3>1. PICK l \in 1..L : Sect(d, k, l) BY <1>1, <1>8, <2>1 DEF Paired, L
    <3>2. l \in 1..i-1 BY <1>0, <1>1, <1>4, <3>1, <1>8
    <3> QED BY <3>1, <3>2, <1>1, <1>6
  <2>2. ASSUME NEW l \in 1..Len(a), Closer(a[l]) PROVE \E k \in 1..Len(a) : Sect(a, k, l)
    <3>1. PICK k \in 1..L : Sect(d, k, l) BY <1>1, <1>8, <2>2 DEF Paired, L
    <3>2. k \in 1..i-1 BY <1>0, <1>1, <1>5, <3>1, <1>8
    <3> QED BY <3>1, <3>2, <1>1, <1>6
  <2> QED BY <2>1, <2>2 DEF Paired
<1>12. Paired(b)
  <2>1. ASSUME NEW n \in 1..Len(b), Opener(b[n]) PROVE \E l \in 1..Len(b) : Sect(b, n, l)
    <3>0. i-1+n \in i..L /\ Opener(d[i-1+n]) /\ (i-1+n)-i+1 = n BY <1>2, <1>9, <2>1
    <3>1. PICK l \in 1..L : Sect(d, i-1+n, l) BY <3>0, <1>10 DEF Paired, L
    <3>2. l \in i..L BY <1>0, <1>5, <3>0, <3>1, <1>10
    <3> QED BY <3>0, <3>1, <3>2, <1>7, <1>10
  <2>2. ASSUME NEW n \in 1..Len(b), Closer(b[n]) PROVE \E k \in 1..Len(b) : Sect(b, k, n)
    <3>0. i-1+n \in i..L /\ Closer(d[i-1+n]) /\ (i-1+n)-i+1 = n BY <1>2, <1>9, <2>2
    <3>1. PICK k \in 1..L : Sect(d, k, i-1+n) BY <3>0, <1>10 DEF Paired, L
    <3>2. k \in i..L BY <1>0, <1>4, <3>0, <3>1, <1>10
    <3> QED BY <3>0, <3>1, <3>2, <1>7, <1>10
  <2> QED BY <2>1, <2>2 DEF Paired
<1> QED BY <1>1, <1>2, <1>3, <1>11, <1>12 DEF a, b, L

-----------------------------------------------------------------------------
(* Writing line by line *)

\* A writer that takes one line after the other.
Onward(p) == [i \in 1..Len(p) |-> i + 1]
Flat(p) == Written(p, Onward(p))

\* It is a writer of lines.
LEMMA FlatPiece ==
  ASSUME NEW p \in Seq(Docs)
  PROVE  Piece(Line, p, Onward(p))
BY DEF Piece, Goes, Onward, Docs

\* What a walk with single steps has written from line i on.
LEMMA FlatRest ==
  ASSUME NEW p \in Seq(Docs)
  PROVE  LET R == Rest(p, Onward(p)) IN
         /\ Flat(p) = R[1] /\ Flat(p) \in Docs
         /\ R[Len(p)+1] = <<>>
         /\ \A i \in 1..Len(p) : R[i] = p[i] \o R[i+1]
         /\ \A i \in 1..Len(p)+1 : R[i] \in Docs
<1> DEFINE R == Rest(p, Onward(p))
<1>0. Len(p) \in Nat OBVIOUS
<1>1. Piece(Line, p, Onward(p)) BY FlatPiece
<1>2. Steps(p, Onward(p), R) BY <1>1, RestSteps
<1>3. R[Len(p)+1] = <<>> BY <1>1, RestEnd
<1>4. \A i \in 1..Len(p)+1 : R[i] \in Docs BY <1>1, RestType DEF Docs
<1>5. Flat(p) = R[1] BY WrittenIsRest DEF Flat
<1> HIDE DEF R
<1>6. \A i \in 1..Len(p) : R[i] = p[i] \o R[i+1] BY <1>2 DEF Steps, Onward
<1>7. 1 \in 1..Len(p)+1 BY <1>0
<1> QED BY <1>3, <1>4, <1>5, <1>6, <1>7 DEF R

\* Concatenation of files is associative.
LEMMA Assoc ==
  ASSUME NEW a, NEW b, NEW c, a \in Docs, b \in Docs, c \in Docs
  PROVE  (a \o b) \o c = a \o (b \o c)
BY ConcatAssociative DEF Docs

\* The empty file is neutral.
LEMMA Empty ==
  ASSUME NEW a, a \in Docs
  PROVE  a \o <<>> = a /\ <<>> \o a = a /\ <<>> \in Docs
BY ConcatEmptySeq DEF Docs

\* What is written for two lists of pieces.
LEMMA FlatConcat ==
  ASSUME NEW p \in Seq(Docs), NEW q \in Seq(Docs)
  PROVE  Flat(p \o q) = Flat(p) \o Flat(q)
<1> DEFINE c == p \o q
           m == Len(p)
           n == Len(q)
           P == Rest(p, Onward(p))
           Q == Rest(q, Onward(q))
           C == Rest(c, Onward(c))
<1>1. /\ c \in Seq(Docs) /\ Len(c) = m + n
      /\ \A i \in 1..m+n : c[i] = IF i <= m THEN p[i] ELSE q[i - m]
  BY ConcatProperties
<1>2. /\ Flat(p) = P[1] /\ P[m+1] = <<>>
      /\ \A i \in 1..m : P[i] = p[i] \o P[i+1]
      /\ \A i \in 1..m+1 : P[i] \in Docs
  BY FlatRest
<1>3. /\ Flat(q) = Q[1] /\ Q[n+1] = <<>>
      /\ \A i \in 1..n : Q[i] = q[i] \o Q[i+1]
      /\ \A i \in 1..n+1 : Q[i] \in Docs
  BY FlatRest
<1>4. /\ Flat(c) = C[1] /\ C[Len(c)+1] = <<>>
      /\ \A i \in 1..Len(c) : C[i] = c[i] \o C[i+1]
  BY <1>1, FlatRest
<1>5. /\ C[m+n+1] = <<>>
      /\ \A i \in 1..m+n : C[i] = c[i] \o C[i+1]
  BY <1>1, <1>4
<1>6. m \in Nat /\ n \in Nat /\ \A i \in 1..m : p[i] \in Docs OBVIOUS
<1> HIDE DEF c, m, n, P, Q, C
<1> DEFINE S == {i \in 1..n+1 : C[m+i] = Q[i]}
           U == {i \in 1..m+1 : C[i] = P[i] \o Q[1]}
<1> HIDE DEF S, U
<1>7. ASSUME NEW i \in 1..n+1, \A k \in i+1..n+1 : k \in S PROVE i \in S
  <2>1. CASE i = n+1
    <3>1. m + (n+1) = m+n+1 BY <1>6
    <3> QED BY <2>1, <3>1, <1>3, <1>5, <1>6 DEF S
  <2>2. CASE i \in 1..n
    <3>1. i+1 \in S BY <2>2, <1>6, <1>7
    <3>2. m+i \in 1..m+n /\ ~ (m+i <= m) /\ (m+i)-m = i /\ (m+i)+1 = m+(i+1)
      BY <2>2, <1>6
    <3>3. c[m+i] = q[i] BY <3>2, <1>1
    <3>4. C[m+i] = q[i] \o C[m+(i+1)] BY <3>2, <3>3, <1>5
    <3> QED BY <2>2, <3>1, <3>4, <1>3 DEF S
  <2> QED BY <2>1, <2>2, <1>6
<1>8. \A i \in 1..n+1 : i \in S
  <2>1. n+1 \in Nat BY <1>6
  <2> QED BY <2>1, <1>7, Downward
<1>9. ASSUME NEW i \in 1..m+1, \A k \in i+1..m+1 : k \in U PROVE i \in U
  <2>0. 1 \in 1..n+1 /\ Q[1] \in Docs BY <1>3, <1>6
  <2>1. CASE i = m+1
    <3>1. C[i] = Q[1] BY <2>0, <2>1, <1>8 DEF S
    <3>2. P[i] \o Q[1] = Q[1] BY <2>0, <2>1, <1>2, Empty
    <3> QED BY <3>1, <3>2 DEF U
  <2>2. CASE i \in 1..m
    <3>1. i+1 \in U BY <2>2, <1>6, <1>9
    <3>2. i \in 1..m+n /\ i <= m BY <2>2, <1>6
    <3>3. C[i] = p[i] \o C[i+1] BY <3>2, <1>1, <1>5
    <3>4. C[i+1] = P[i+1] \o Q[1] BY <3>1 DEF U
    <3>5. P[i+1] \in Docs /\ p[i] \in Docs BY <2>2, <1>2, <1>6
    <3>6. p[i] \o (P[i+1] \o Q[1]) = (p[i] \o P[i+1]) \o Q[1]
      <4> DEFINE a == p[i]
                 b == P[i+1]
                 e == Q[1]
      <4>1. a \in Docs /\ b \in Docs /\ e \in Docs BY <3>5, <2>0
      <4> HIDE DEF a, b, e
      <4>2. (a \o b) \o e = a \o (b \o e) BY <4>1, Assoc
      <4> QED BY <4>2 DEF a, b, e
    <3>7. P[i] = p[i] \o P[i+1] BY <2>2, <1>2
    <3>8. C[i] = P[i] \o Q[1] BY <3>3, <3>4, <3>6, <3>7, Zenon
    <3> QED BY <3>8 DEF U
  <2> QED BY <2>1, <2>2, <1>6
<1>10. \A i \in 1..m+1 : i \in U
  <2>1. m+1 \in Nat BY <1>6
  <2> QED BY <2>1, <1>9, Downward
<1>11. 1 \in U BY <1>6, <1>10
<1>12. C[1] = P[1] \o Q[1] BY <1>11 DEF U
<1> QED BY <1>12, <1>2, <1>3, <1>4 DEF c

\* Of empty pieces nothing is written.
LEMMA FlatEmpty ==
  ASSUME NEW p \in Seq(Docs), \A i \in 1..Len(p) : p[i] = <<>>
  PROVE  Flat(p) = <<>>
<1> DEFINE m == Len(p)
           P == Rest(p, Onward(p))
           S == {i \in 1..m+1 : P[i] = <<>>}
<1>1. /\ Flat(p) = P[1] /\ P[m+1] = <<>>
      /\ \A i \in 1..m : P[i] = p[i] \o P[i+1]
      /\ \A i \in 1..m+1 : P[i] \in Docs
  BY FlatRest
<1>2. m \in Nat /\ \A i \in 1..m : p[i] = <<>> OBVIOUS
<1> HIDE DEF m, P, S
<1>3. ASSUME NEW i \in 1..m+1, \A k \in i+1..m+1 : k \in S PROVE i \in S
  <2>1. CASE i = m+1 BY <2>1, <1>1 DEF S
  <2>2. CASE i \in 1..m
    <3>1. i+1 \in S BY <2>2, <1>2, <1>3
    <3>2. P[i] = <<>> \o <<>> BY <2>2, <3>1, <1>1, <1>2 DEF S
    <3>3. P[i] = <<>> BY <3>2
    <3> QED BY <3>3 DEF S
  <2> QED BY <2>1, <2>2, <1>2
<1>4. m+1 \in Nat BY <1>2
<1>5. \A i \in 1..m+1 : i \in S BY <1>3, <1>4, Downward
<1>6. 1 \in S BY <1>2, <1>5
<1> QED BY <1>1, <1>6 DEF S

\* Each line of each piece is written.
LEMMA FlatMember ==
  ASSUME NEW p \in Seq(Docs), NEW i \in 1..Len(p), NEW k \in 1..Len(p[i])
  PROVE  \E n \in 1..Len(Flat(p)) : Flat(p)[n] = p[i][k]
<1> DEFINE m == Len(p)
           P == Rest(p, Onward(p))
           Has(d) == \E n \in 1..Len(d) : d[n] = p[i][k]
           S == {j \in 1..m+1 : j <= i => Has(P[j])}
<1>1. /\ Flat(p) = P[1] /\ P[m+1] = <<>>
      /\ \A j \in 1..m : P[j] = p[j] \o P[j+1]
      /\ \A j \in 1..m+1 : P[j] \in Docs
  BY FlatRest
<1>2. m \in Nat /\ i \in 1..m /\ \A j \in 1..m : p[j] \in Docs OBVIOUS
<1>3. Has(p[i]) OBVIOUS
<1> HIDE DEF m, P, S, Has
<1>a. ASSUME NEW a \in Docs, NEW b \in Docs PROVE Has(a) => Has(a \o b)
  <2> HIDE DEF Has
  <2>1. \A n \in 1..Len(a) : (a \o b)[n] = a[n] /\ n \in 1..Len(a \o b)
    BY ConcatProperties DEF Docs
  <2> QED BY <2>1 DEF Has
<1>b. ASSUME NEW a \in Docs, NEW b \in Docs PROVE Has(b) => Has(a \o b)
  <2> DEFINE c == a \o b
  <2>1. In(b, c, Len(a)) /\ Len(c) = Len(a) + Len(b) BY InConcat
  <2>2. Len(a) \in Nat /\ Len(b) \in Nat BY DEF Docs
  <2> HIDE DEF c
  <2>3. \A n \in 1..Len(b) : c[Len(a) + n] = b[n] /\ Len(a) + n \in 1..Len(c)
    BY <2>1, <2>2 DEF In
  <2>4. Has(b) => Has(c) BY <2>3 DEF Has
  <2> QED BY <2>4 DEF c
<1>4. ASSUME NEW j \in 1..m+1, \A l \in j+1..m+1 : l \in S PROVE j \in S
  <2>1. CASE j > i BY <2>1, <1>2 DEF S
  <2>2. CASE j <= i
    <3>1. j \in 1..m /\ j+1 \in j+1..m+1 /\ j+1 \in 1..m+1 BY <2>2, <1>2
    <3>2. P[j] = p[j] \o P[j+1] /\ p[j] \in Docs /\ P[j+1] \in Docs BY <3>1, <1>1, <1>2
    <3>3. CASE j = i
      <4>1. Has(p[j]) BY <3>3, <1>3
      <4>2. Has(P[j]) BY <4>1, <3>2, <1>a
      <4> QED BY <4>2 DEF S
    <3>4. CASE j < i
      <4>1. Has(P[j+1]) BY <3>1, <3>4, <1>2, <1>4 DEF S
      <4>2. Has(P[j]) BY <4>1, <3>2, <1>b
      <4> QED BY <4>2 DEF S
    <3> QED BY <3>3, <3>4, <2>2, <1>2
  <2> QED BY <2>1, <2>2, <1>2
<1>5. m+1 \in Nat BY <1>2
<1>6. \A j \in 1..m+1 : j \in S BY <1>4, <1>5, Downward
<1>7. 1 \in S /\ 1 <= i BY <1>2, <1>6
<1> QED BY <1>1, <1>7 DEF S, Has

-----------------------------------------------------------------------------
(* The loose lines *)

\* Each line of a file is a line.
LEMMA DocsIs ==
  ASSUME NEW d \in Docs
  PROVE  Len(d) \in Nat /\ d \in Seq(Line) /\ \A i \in 1..Len(d) : d[i] \in Line
BY DEF Docs

\* The end of a section is the first such marker behind its begin.
LEMMA SectFrom ==
  ASSUME NEW d \in Docs, NEW i, NEW j, Sect(d, i, j)
  PROVE  From(d, i, Closing(d[i])) = j
<1>1. /\ i \in 1..Len(d) /\ j \in 1..Len(d) /\ i < j
      /\ d[j] = Closing(d[i]) /\ Closer(d[j])
      /\ \A k \in i+1..j-1 : ~ Marker(d[k])
  BY SectBounds
<1>2. \A k \in i+1..j-1 : d[k] # Closing(d[i]) BY <1>1 DEF Marker
<1>3. i \in Nat /\ j \in i+1..Len(d) BY <1>1, DocsIs
<1>4. d \in Seq(Line) BY DocsIs
<1> DEFINE t == Closing(d[i])
<1>5. d[j] = t /\ \A k \in i+1..j-1 : d[k] # t BY <1>1, <1>2
<1> HIDE DEF t
<1>6. From(d, i, t) = j BY <1>3, <1>4, <1>5, FromAt
<1> QED BY <1>6 DEF t

\* Inside, with both kinds of markers in one.
LEMMA InsideIs ==
  ASSUME NEW d \in Docs, NEW i \in 1..Len(d)
  PROVE  Inside(d, i) <=>
           \E k \in 1..i-1 : Opener(d[k]) /\ From(d, k, Closing(d[k])) > i
<1> DEFINE E(k) == CASE d[k][1] = "begin" -> EndOf(d[k][2])
                     [] d[k][1] = "lbegin" -> <<"lend", d[k][2], 0>>
                     [] OTHER -> <<>>
<1>0. i \in Nat /\ i <= Len(d) BY DocsIs
<1>1. Inside(d, i) <=> \E k \in 1..i-1 : From(d, k, E(k)) > i BY DEF Inside
<1>2. ASSUME NEW k \in 1..i-1, Opener(d[k]) PROVE E(k) = Closing(d[k])
  BY <1>2 DEF Opener, Closing
<1>3. ASSUME NEW k \in 1..i-1, ~ Opener(d[k]) PROVE ~ (From(d, k, E(k)) > i)
  <2>1. E(k) = <<>> BY <1>3 DEF Opener
  <2>2. \A n \in 1..Len(d) : d[n] # <<>>
    <3>1. \A x \in Line : x # <<>> BY DEF Line, Stop, OldStop, Own
    <3> QED BY <3>1, DocsIs
  <2>3. k \in Nat /\ \A n \in k+1..Len(d) : n \in 1..Len(d) BY DocsIs
  <2>4. From(d, k, <<>>) = 0 BY <2>2, <2>3, FromNone, DocsIs
  <2> QED BY <2>1, <2>4, <1>0
<1> HIDE DEF E
<1> QED BY <1>1, <1>2, <1>3

\* In a paired file, a line is inside when a section has it between its
\* markers.
LEMMA InsidePaired ==
  ASSUME NEW d \in Docs, Paired(d), NEW i \in 1..Len(d)
  PROVE  Inside(d, i) <=> \E k, l \in 1..Len(d) : Sect(d, k, l) /\ k < i /\ i < l
<1>0. Len(d) \in Nat BY DocsIs
<1>1. ASSUME NEW k \in 1..i-1, Opener(d[k]), From(d, k, Closing(d[k])) > i
      PROVE  \E m, l \in 1..Len(d) : Sect(d, m, l) /\ m < i /\ i < l
  <2>1. k \in 1..Len(d) BY <1>0
  <2>2. PICK l \in 1..Len(d) : Sect(d, k, l) BY <1>1, <2>1 DEF Paired
  <2>3. From(d, k, Closing(d[k])) = l BY <2>2, SectFrom
  <2> QED BY <1>0, <1>1, <2>1, <2>2, <2>3
<1>2. ASSUME NEW k \in 1..Len(d), NEW l \in 1..Len(d), Sect(d, k, l), k < i, i < l
      PROVE  \E m \in 1..i-1 : Opener(d[m]) /\ From(d, m, Closing(d[m])) > i
  <2>1. k \in 1..i-1 /\ Opener(d[k]) BY <1>0, <1>2, SectBounds
  <2>2. From(d, k, Closing(d[k])) = l BY <1>2, SectFrom
  <2> QED BY <2>1, <2>2, <1>2
<1> QED BY <1>1, <1>2, InsideIs

\* What Loose writes for a line.
LoosePiece(d, i) == IF d[i][1] = "own" /\ ~ Inside(d, i) THEN <<d[i]>> ELSE <<>>
\* Loose writes the own lines that are in no section.
Pieces(d) == [i \in 1..Len(d) |-> LoosePiece(d, i)]

\* Loose goes through a file line by line.
LEMMA LooseIsFlat ==
  ASSUME NEW d \in Docs
  PROVE  /\ Loose(d) = Flat(Pieces(d)) /\ Loose(d) \in Docs
         /\ Pieces(d) \in Seq(Docs) /\ Len(Pieces(d)) = Len(d)
<1>0. Len(d) \in Nat /\ \A i \in 1..Len(d) : d[i] \in Line BY DocsIs
<1>1. \A i \in 1..Len(d) : LoosePiece(d, i) \in Docs BY <1>0 DEF LoosePiece, Docs
<1>2. Pieces(d) \in Seq(Docs) /\ Len(Pieces(d)) = Len(d) BY <1>0, <1>1 DEF Pieces
<1>3. Loose(d) = Flat(Pieces(d)) BY <1>2 DEF Loose, Flat, Pieces, LoosePiece, Onward
<1>4. Flat(Pieces(d)) \in Docs BY <1>2, FlatRest
<1> QED BY <1>2, <1>3, <1>4

\* The loose lines of two paired files are those of the first, then those of
\* the second.
LEMMA LooseConcat ==
  ASSUME NEW a \in Docs, NEW b \in Docs, Paired(a), Paired(b)
  PROVE  Loose(a \o b) = Loose(a) \o Loose(b)
<1> DEFINE c == a \o b
           m == Len(a)
           n == Len(b)
<1>0. /\ c \in Docs /\ Len(c) = m + n /\ m \in Nat /\ n \in Nat
      /\ In(a, c, 0) /\ In(b, c, m) /\ Paired(c)
  BY InConcat, DocsIs, PairedConcat
<1> HIDE DEF c
<1>1. \A k \in 1..m : c[k] = a[k] /\ k \in 1..m+n BY <1>0 DEF In
<1>2. \A k \in 1..n : c[m+k] = b[k] /\ m+k \in 1..m+n BY <1>0 DEF In
<1>3. \A k, l \in 1..m : Sect(a, k, l) <=> Sect(c, k, l)
  <2> TAKE k, l \in 1..m
  <2>1. 0 + k = k /\ 0 + l = l OBVIOUS
  <2>2. Sect(a, k, l) <=> Sect(c, 0+k, 0+l) BY <1>0, SectIn
  <2> QED BY <2>1, <2>2
<1>4. \A k, l \in 1..n : Sect(b, k, l) <=> Sect(c, m+k, m+l)
  BY <1>0, SectIn
<1>5. ASSUME NEW k \in 1..m+n, NEW l \in 1..m+n, Sect(c, k, l)
      PROVE  (k \in 1..m /\ l \in 1..m) \/ (k > m /\ l > m)
  <2>1. k < l BY <1>0, <1>5, SectBounds
  <2>2. CASE k <= m
    <3>1. k \in 1..m /\ Opener(c[k]) BY <2>2, <1>0, <1>5, SectBounds
    <3>2. PICK e \in 1..m : Sect(a, k, e) BY <3>1, <1>1 DEF Paired
    <3>3. Sect(c, k, e) BY <3>1, <3>2, <1>3
    <3>4. e = l
      <4>1. k < e BY <3>2, SectBounds
      <4> QED BY <4>1, <3>3, <1>0, <1>5, <2>1, Disjoint
    <3> QED BY <3>1, <3>2, <3>4
  <2> QED BY <2>1, <2>2, <1>0
<1>6. ASSUME NEW i \in 1..m PROVE Inside(c, i) <=> Inside(a, i)
  <2>1. Inside(c, i) <=> \E k, l \in 1..m+n : Sect(c, k, l) /\ k < i /\ i < l
    BY <1>0, <1>1, InsidePaired
  <2>2. Inside(a, i) <=> \E k, l \in 1..m : Sect(a, k, l) /\ k < i /\ i < l
    BY InsidePaired
  <2>3. \A k, l \in 1..m+n : Sect(c, k, l) /\ k < i => k \in 1..m /\ l \in 1..m
    BY <1>0, <1>5
  <2> HIDE DEF m
  <2> QED BY <1>1, <1>3, <2>1, <2>2, <2>3
<1>7. ASSUME NEW i \in 1..n PROVE Inside(c, m+i) <=> Inside(b, i)
  <2>1. Inside(c, m+i) <=> \E k, l \in 1..m+n : Sect(c, k, l) /\ k < m+i /\ m+i < l
    BY <1>0, <1>2, InsidePaired
  <2>2. Inside(b, i) <=> \E k, l \in 1..n : Sect(b, k, l) /\ k < i /\ i < l
    BY InsidePaired
  <2>3. ASSUME NEW k \in 1..m+n, NEW l \in 1..m+n, Sect(c, k, l), k < m+i, m+i < l
        PROVE  \E f, g \in 1..n : Sect(b, f, g) /\ f < i /\ i < g
    <3>1. k > m /\ l > m BY <1>0, <1>5, <2>3
    <3>2. /\ k-m \in 1..n /\ l-m \in 1..n /\ m+(k-m) = k /\ m+(l-m) = l
          /\ k-m < i /\ i < l-m
      BY <1>0, <2>3, <3>1
    <3>3. Sect(b, k-m, l-m) BY <1>4, <2>3, <3>2
    <3> QED BY <3>2, <3>3
  <2>4. ASSUME NEW k \in 1..n, NEW l \in 1..n, Sect(b, k, l), k < i, i < l
        PROVE  \E f, g \in 1..m+n : Sect(c, f, g) /\ f < m+i /\ m+i < g
    <3>1. m+k \in 1..m+n /\ m+l \in 1..m+n /\ m+k < m+i /\ m+i < m+l BY <1>0, <2>4
    <3>2. Sect(c, m+k, m+l) BY <1>4, <2>4
    <3> QED BY <3>1, <3>2
  <2> QED BY <2>1, <2>2, <2>3, <2>4
<1>8. Pieces(c) = Pieces(a) \o Pieces(b)
  <2>1. /\ Pieces(a) \in Seq(Docs) /\ Len(Pieces(a)) = m
        /\ Pieces(b) \in Seq(Docs) /\ Len(Pieces(b)) = n
        /\ Pieces(c) \in Seq(Docs) /\ Len(Pieces(c)) = m + n
    BY <1>0, LooseIsFlat
  <2> DEFINE e == Pieces(a) \o Pieces(b)
  <2>2. /\ e \in Seq(Docs) /\ Len(e) = m + n
        /\ \A i \in 1..m+n : e[i] = IF i <= m THEN Pieces(a)[i] ELSE Pieces(b)[i - m]
    <3> DEFINE p == Pieces(a)
               q == Pieces(b)
    <3>1. p \in Seq(Docs) /\ q \in Seq(Docs) /\ Len(p) = m /\ Len(q) = n BY <2>1
    <3> HIDE DEF p, q, m, n
    <3>2. /\ p \o q \in Seq(Docs) /\ Len(p \o q) = m + n
          /\ \A i \in 1..m+n : (p \o q)[i] = IF i <= m THEN p[i] ELSE q[i - m]
      BY <3>1, ConcatProperties
    <3> QED BY <3>2 DEF p, q
  <2> HIDE DEF e
  <2>3. ASSUME NEW i \in 1..m+n PROVE Pieces(c)[i] = e[i]
    <3>1. Pieces(c)[i] = LoosePiece(c, i) BY <1>0 DEF Pieces
    <3>2. CASE i \in 1..m
      <4>1. LoosePiece(c, i) = LoosePiece(a, i) BY <3>2, <1>1, <1>6 DEF LoosePiece
      <4>2. Pieces(a)[i] = LoosePiece(a, i) BY <3>2 DEF Pieces
      <4>3. e[i] = Pieces(a)[i] BY <3>2, <2>2
      <4> QED BY <3>1, <4>1, <4>2, <4>3
    <3>3. CASE i > m
      <4>1. i-m \in 1..n /\ m+(i-m) = i /\ ~ (i <= m) BY <3>3, <1>0
      <4>2. LoosePiece(c, m+(i-m)) = LoosePiece(b, i-m) BY <4>1, <1>2, <1>7 DEF LoosePiece
      <4>3. Pieces(b)[i-m] = LoosePiece(b, i-m) BY <4>1 DEF Pieces
      <4>4. e[i] = Pieces(b)[i-m] BY <4>1, <2>2
      <4> QED BY <3>1, <4>1, <4>2, <4>3, <4>4
    <3> QED BY <3>2, <3>3, <1>0
  <2>4. Pieces(c) = e BY <2>1, <2>2, <2>3, SeqEqual
  <2> QED BY <2>4 DEF e
<1>9. Loose(c) = Flat(Pieces(a) \o Pieces(b)) BY <1>0, <1>8, LooseIsFlat
<1>10. Flat(Pieces(a) \o Pieces(b)) = Flat(Pieces(a)) \o Flat(Pieces(b))
  BY LooseIsFlat, FlatConcat
<1> QED BY <1>9, <1>10, LooseIsFlat DEF c

-----------------------------------------------------------------------------
(* Migrations *)

\* A migration turns a marker of an earlier release into one of now, and
\* leaves every other line.
LEMMA RenewedIs ==
  ASSUME NEW x \in Line
  PROVE  /\ Renewed(x) \in Line
         /\ Opener(Renewed(x)) <=> Opener(x)
         /\ Closer(Renewed(x)) <=> Closer(x)
         /\ ~ Marker(x) => Renewed(x) = x
         /\ Opener(x) => /\ Renewed(x) = Begin(x[2])
                         /\ Renewed(Closing(x)) = Closing(Renewed(x))
         /\ Renewed(x)[1] \notin {"lbegin", "lend"}
         /\ Renewed(x)[1] = "own" <=> x[1] = "own"
<1>1. CASE x[1] = "lbegin"
  <2>1. x[2] \in Sections /\ Renewed(x) = Begin(x[2]) BY <1>1, LineCases DEF Renewed
  <2>2. Closing(x) = <<"lend", x[2], 0>> BY <1>1 DEF Closing
  <2>3. Renewed(<<"lend", x[2], 0>>) = EndOf(x[2]) BY DEF Renewed
  <2>4. Closing(Begin(x[2])) = EndOf(x[2]) /\ Begin(x[2]) \in Line BY <2>1, MarkersAreLines
  <2>5. Begin(x[2])[1] = "begin" BY DEF Begin
  <2> QED BY <1>1, <2>1, <2>2, <2>3, <2>4, <2>5 DEF Opener, Closer, Marker
<1>2. CASE x[1] = "lend"
  <2>1. x[2] \in Sections /\ Renewed(x) = EndOf(x[2]) BY <1>2, LineCases DEF Renewed
  <2>2. EndOf(x[2]) \in Line BY <2>1, MarkersAreLines
  <2>3. EndOf(x[2])[1] = "end" BY DEF EndOf
  <2> QED BY <1>2, <2>1, <2>2, <2>3 DEF Opener, Closer, Marker
<1>3. CASE x[1] \notin {"lbegin", "lend"}
  <2>1. Renewed(x) = x BY <1>3 DEF Renewed
  <2>2. ASSUME Opener(x) PROVE Renewed(x) = Begin(x[2]) /\ Renewed(Closing(x)) = Closing(x)
    <3>1. x[1] = "begin" BY <1>3, <2>2 DEF Opener
    <3>2. x = Begin(x[2]) /\ Closing(x) = EndOf(x[2]) BY <3>1, LineCases DEF Closing
    <3>3. Renewed(EndOf(x[2])) = EndOf(x[2]) BY DEF Renewed, EndOf
    <3> QED BY <2>1, <3>2, <3>3
  <2> QED BY <1>3, <2>1, <2>2
<1> QED BY <1>1, <1>2, <1>3

\* It does so line by line.
LEMMA MigratedIs ==
  ASSUME NEW d \in Docs
  PROVE  /\ Migrated(d) \in Docs /\ Len(Migrated(d)) = Len(d)
         /\ \A i \in 1..Len(d) : Migrated(d)[i] = Renewed(d[i])
<1>1. Len(d) \in Nat /\ \A i \in 1..Len(d) : Renewed(d[i]) \in Line BY DocsIs, RenewedIs
<1> QED BY <1>1 DEF Migrated, Docs

\* A section stays one.
LEMMA MigratedSect ==
  ASSUME NEW d \in Docs, NEW i, NEW j, Sect(d, i, j)
  PROVE  Sect(Migrated(d), i, j)
<1> DEFINE e == Migrated(d)
<1>1. e \in Docs /\ Len(e) = Len(d) /\ \A k \in 1..Len(d) : e[k] = Renewed(d[k])
  BY MigratedIs
<1>2. /\ i \in 1..Len(d) /\ j \in 1..Len(d) /\ i < j /\ d[i] \in Line
      /\ Opener(d[i]) /\ d[j] = Closing(d[i])
      /\ \A k \in i+1..j-1 : ~ Marker(d[k])
  BY SectBounds
<1>0. j \in i+1..Len(d) BY DEF Sect
<1> HIDE DEF e
<1>3. Ends(e[i], e[j]) BY <1>1, <1>2, RenewedIs DEF Ends
<1>4. ASSUME NEW k \in i+1..j-1 PROVE ~ Marker(e[k])
  <2>1. k \in 1..Len(d) /\ ~ Marker(d[k]) BY <1>2, DocsIs
  <2>2. d[k] \in Line BY <2>1, DocsIs
  <2>3. e[k] = d[k] BY <1>1, <2>1, <2>2, RenewedIs
  <2> QED BY <2>1, <2>3
<1>5. Sect(e, i, j) BY <1>0, <1>1, <1>2, <1>3, <1>4 DEF Sect, Free
<1> QED BY <1>5 DEF e

\* A paired file stays one, and has no other section then.
LEMMA MigratedPaired ==
  ASSUME NEW d \in Docs, Paired(d)
  PROVE  /\ Paired(Migrated(d))
         /\ \A i, j : Sect(Migrated(d), i, j) => Sect(d, i, j)
<1> DEFINE e == Migrated(d)
<1>1. e \in Docs /\ Len(e) = Len(d) /\ \A k \in 1..Len(d) : e[k] = Renewed(d[k])
  BY MigratedIs
<1>2. \A i, j : Sect(d, i, j) => Sect(e, i, j) BY MigratedSect
<1> HIDE DEF e
<1>3. \A i \in 1..Len(e) : (Opener(e[i]) <=> Opener(d[i])) /\ (Closer(e[i]) <=> Closer(d[i]))
  BY <1>1, RenewedIs, DocsIs
<1>4. \A i \in 1..Len(e) : Opener(e[i]) => \E j \in 1..Len(e) : Sect(d, i, j)
  BY <1>1, <1>3 DEF Paired
<1>5. \A j \in 1..Len(e) : Closer(e[j]) => \E i \in 1..Len(e) : Sect(d, i, j)
  BY <1>1, <1>3 DEF Paired
<1>6. Paired(e) BY <1>2, <1>4, <1>5 DEF Paired
<1>7. ASSUME NEW i, NEW j, Sect(e, i, j) PROVE Sect(d, i, j)
  <2>1. i \in 1..Len(e) /\ j \in 1..Len(e) /\ i < j /\ Opener(e[i])
    BY <1>1, <1>7, SectBounds
  <2>2. PICK k \in 1..Len(e) : Sect(d, i, k) BY <1>4, <2>1
  <2>3. i < k BY <2>2, SectBounds
  <2>4. Sect(e, i, k) BY <1>2, <2>2
  <2>5. j = k \/ k < i \/ j < i BY <1>1, <1>7, <2>4, Disjoint
  <2>6. j = k BY <1>1, <2>1, <2>2, <2>3, <2>5, DocsIs
  <2> QED BY <2>2, <2>6
<1> QED BY <1>6, <1>7 DEF e

\* It keeps the loose lines.
LEMMA MigratedLoose ==
  ASSUME NEW d \in Docs, Paired(d)
  PROVE  Loose(Migrated(d)) = Loose(d)
<1> DEFINE e == Migrated(d)
<1>1. /\ e \in Docs /\ Len(e) = Len(d) /\ Paired(e)
      /\ \A i \in 1..Len(d) : e[i] = Renewed(d[i]) /\ d[i] \in Line
  BY MigratedIs, MigratedPaired, DocsIs
<1>2. \A i, j : Sect(e, i, j) <=> Sect(d, i, j) BY MigratedSect, MigratedPaired
<1> HIDE DEF e
<1>3. ASSUME NEW i \in 1..Len(d) PROVE LoosePiece(e, i) = LoosePiece(d, i)
  <2>1. Inside(e, i) <=> \E k, l \in 1..Len(d) : Sect(e, k, l) /\ k < i /\ i < l
    BY <1>1, InsidePaired
  <2>2. Inside(d, i) <=> \E k, l \in 1..Len(d) : Sect(d, k, l) /\ k < i /\ i < l
    BY InsidePaired
  <2>3. Inside(e, i) <=> Inside(d, i) BY <1>2, <2>1, <2>2
  <2>4. e[i][1] = "own" <=> d[i][1] = "own" BY <1>1, RenewedIs
  <2>5. d[i][1] = "own" => e[i] = d[i] BY <1>1, RenewedIs DEF Marker, Opener, Closer
  <2> QED BY <2>3, <2>4, <2>5 DEF LoosePiece
<1>4. Pieces(e) = Pieces(d) BY <1>1, <1>3 DEF Pieces
<1> QED BY <1>1, <1>4, LooseIsFlat DEF e

\* No block of a paired file is malformed.
LEMMA PairedSafe ==
  ASSUME NEW d \in Docs, Paired(d)
  PROVE  BlocksSafe(d)
<1>0. Len(d) \in Nat /\ \A i \in 1..Len(d) : d[i] \in Line BY DocsIs
<1>1. ASSUME NEW i, NEW j, Sect(d, i, j) PROVE NoMarker(d, i, j)
  BY <1>1 DEF Sect, Free, NoMarker, Marker, Opener, Closer
<1>2. ASSUME NEW i \in 1..Len(d), d[i][1] = "begin"
      PROVE  \E j \in i+1..Len(d) : d[j] = EndOf(d[i][2]) /\ NoMarker(d, i, j)
  <2>1. Opener(d[i]) BY <1>2 DEF Opener
  <2>2. PICK j \in 1..Len(d) : Sect(d, i, j) BY <2>1 DEF Paired
  <2>3. j \in i+1..Len(d) /\ d[j] = EndOf(d[i][2]) BY <1>2, <2>2 DEF Sect, Ends, Closing
  <2> QED BY <1>1, <2>2, <2>3
<1>3. ASSUME NEW j \in 1..Len(d), d[j][1] = "end"
      PROVE  \E i \in 1..j-1 : d[i] = Begin(d[j][2]) /\ NoMarker(d, i, j)
  <2>1. Closer(d[j]) BY <1>3 DEF Closer
  <2>2. PICK i \in 1..Len(d) : Sect(d, i, j) BY <2>1 DEF Paired
  <2>3. /\ i \in 1..j-1 /\ d[i] \in Line /\ Opener(d[i]) /\ d[j] = Closing(d[i])
    BY <1>0, <2>2, SectBounds
  <2>4. d[i][1] = "begin"
    <3>1. d[i][1] # "begin" => d[j] = <<"lend", d[i][2], 0>> BY <2>3 DEF Closing
    <3> QED BY <3>1, <1>3
  <2>5. d[i] = Begin(d[j][2])
    <3>1. d[i] = Begin(d[i][2]) BY <2>3, <2>4, LineCases
    <3>2. d[j] = EndOf(d[i][2]) BY <2>3, <2>4 DEF Closing
    <3>3. d[j][2] = d[i][2] BY <3>2 DEF EndOf
    <3> QED BY <3>1, <3>3
  <2> QED BY <1>1, <2>2, <2>3, <2>5
<1> QED BY <1>2, <1>3 DEF BlocksSafe

\* A migration brings no second section of a name.
LEMMA MigratedOnce ==
  ASSUME NEW d \in Docs, NEW s \in Sections, Once(d, s)
  PROVE  Once(Migrated(d), s)
<1> DEFINE e == Migrated(d)
<1>1. Len(e) = Len(d) /\ \A i \in 1..Len(d) : e[i] = Renewed(d[i]) /\ d[i] \in Line
  BY MigratedIs, DocsIs
<1> HIDE DEF e
<1>2. ASSUME NEW i \in 1..Len(e), e[i] \in OpensOf(s) PROVE d[i] \in OpensOf(s)
  <2>1. e[i][2] = s /\ Opener(e[i]) BY <1>2 DEF OpensOf, Begin, Opener
  <2>2. Opener(d[i]) /\ e[i] = Begin(d[i][2]) BY <1>1, <2>1, RenewedIs
  <2>3. d[i][2] = s BY <2>1, <2>2 DEF Begin
  <2>4. d[i] = Begin(s) \/ d[i] = <<"lbegin", s, 0>> BY <1>1, <2>2, <2>3, LineCases DEF Opener
  <2> QED BY <2>4 DEF OpensOf
<1>3. Once(e, s) BY <1>1, <1>2 DEF Once
<1> QED BY <1>3 DEF e

-----------------------------------------------------------------------------
(* Sections *)

\* A section, of any release.
IsSect(x) == x \in Docs /\ Len(x) > 0 /\ Sect(x, 1, Len(x))

\* A section is a paired file without a loose line.
LEMMA SectPaired ==
  ASSUME NEW x, IsSect(x)
  PROVE  x \in Docs /\ Paired(x) /\ Loose(x) = <<>>
<1> DEFINE n == Len(x)
<1>1. x \in Docs /\ n \in Nat /\ n > 0 /\ Sect(x, 1, n) BY DocsIs DEF IsSect
<1>2. /\ n > 1 /\ Opener(x[1]) /\ Closer(x[n]) /\ x[1] \in Line /\ x[n] \in Line
      /\ \A k \in 2..n-1 : ~ Marker(x[k])
  <2>1. /\ 1 < n /\ Opener(x[1]) /\ Closer(x[n]) /\ x[1] \in Line /\ x[n] \in Line
        /\ \A k \in 1+1..n-1 : ~ Marker(x[k])
    BY <1>1, SectBounds
  <2> QED BY <2>1
<1>3. ~ Closer(x[1]) /\ ~ Opener(x[n]) BY <1>2, NotBoth
<1> HIDE DEF n
<1>4. \A k \in 1..n : k = 1 \/ k = n \/ k \in 2..n-1 BY <1>1
<1>5. \A i \in 1..n : Opener(x[i]) => i = 1 BY <1>2, <1>3, <1>4 DEF Marker
<1>6. \A i \in 1..n : Closer(x[i]) => i = n BY <1>2, <1>3, <1>4 DEF Marker
<1>7. 1 \in 1..n /\ n \in 1..n BY <1>1
<1>8. Paired(x) BY <1>1, <1>5, <1>6, <1>7 DEF Paired, n
<1>9. ASSUME NEW i \in 1..n PROVE LoosePiece(x, i) = <<>>
  <2>1. CASE i \in 2..n-1
    <3>1. 1 < i /\ i < n BY <2>1, <1>1
    <3>2. Inside(x, i) BY <3>1, <1>1, <1>7, <1>8, InsidePaired DEF n
    <3> QED BY <3>2 DEF LoosePiece
  <2>2. CASE i = 1 BY <2>2, <1>2 DEF LoosePiece, Opener
  <2>3. CASE i = n BY <2>3, <1>2 DEF LoosePiece, Closer
  <2> QED BY <2>1, <2>2, <2>3, <1>4
<1>10. /\ Pieces(x) \in Seq(Docs) /\ Len(Pieces(x)) = n /\ Loose(x) = Flat(Pieces(x))
  BY <1>1, LooseIsFlat DEF n
<1>11. \A i \in 1..n : Pieces(x)[i] = <<>> BY <1>9 DEF Pieces, n
<1>12. Flat(Pieces(x)) = <<>> BY <1>10, <1>11, FlatEmpty
<1> QED BY <1>1, <1>8, <1>10, <1>12

\* The empty file is paired.
LEMMA EmptyPaired == <<>> \in Docs /\ Len(<<>>) = 0 /\ Paired(<<>>) /\ Loose(<<>>) = <<>>
<1>1. <<>> \in Docs /\ Len(<<>>) = 0 BY DEF Docs
<1>2. Paired(<<>>) BY <1>1 DEF Paired
<1>3. Pieces(<<>>) \in Seq(Docs) /\ Len(Pieces(<<>>)) = 0 /\ Loose(<<>>) = Flat(Pieces(<<>>))
  BY <1>1, LooseIsFlat
<1>4. Flat(Pieces(<<>>)) = <<>> BY <1>3, FlatEmpty
<1> QED BY <1>1, <1>2, <1>3, <1>4

\* A line that is no marker is a paired file.
LEMMA LinePaired ==
  ASSUME NEW x \in Line, ~ Marker(x)
  PROVE  <<x>> \in Docs /\ Paired(<<x>>)
<1>1. <<x>> \in Docs /\ Len(<<x>>) = 1 /\ <<x>>[1] = x BY DEF Docs
<1> QED BY <1>1 DEF Paired, Marker

-----------------------------------------------------------------------------
(* The section that is found *)

\* The markers of earlier releases.
LBegin(s) == <<"lbegin", s, 0>>
LEnd(s) == <<"lend", s, 0>>

\* In a paired file the bounds for a begin marker are the first section that
\* has it.
LEMMA BoundsPaired ==
  ASSUME NEW d \in Docs, Paired(d), NEW o \in Line, Opener(o)
  PROVE  \/ Bounds(d, o, Closing(o)) = <<>> /\ \A k \in 1..Len(d) : d[k] # o
         \/ \E i, j \in 1..Len(d) :
              /\ Sect(d, i, j) /\ d[i] = o /\ Bounds(d, o, Closing(o)) = <<i, j>>
              /\ \A k \in 1..i-1 : d[k] # o
<1> DEFINE i == First(d, o)
           e == First(d, Closing(o))
<1>0. Len(d) \in Nat /\ d \in Seq(Line) /\ \A k \in 1..Len(d) : d[k] \in Line BY DocsIs
<1>1. /\ i \in Nat
      /\ i = 0 => \A k \in 1..Len(d) : d[k] # o
      /\ i # 0 => i \in 1..Len(d) /\ d[i] = o /\ \A k \in 1..i-1 : d[k] # o
  <2>1. i = From(d, 0, o) BY <1>0, FirstIsFrom
  <2>2. LET f == From(d, 0, o) IN
        /\ f \in Nat
        /\ f = 0 => \A k \in 0+1..Len(d) : d[k] # o
        /\ f # 0 => f \in 0+1..Len(d) /\ d[f] = o /\ \A k \in 0+1..f-1 : d[k] # o
    BY <1>0, FromIs
  <2> QED BY <2>1, <2>2
<1>2. Bounds(d, o, Closing(o)) = IF i > 0 /\ e > i THEN <<i, e>> ELSE <<>>
  BY DEF Bounds
<1>3. CASE i = 0 BY <1>1, <1>2, <1>3
<1>4. CASE i # 0
  <2>1. i \in 1..Len(d) /\ d[i] = o /\ \A k \in 1..i-1 : d[k] # o BY <1>1, <1>4
  <2> HIDE DEF i
  <2>2. PICK j \in 1..Len(d) : Sect(d, i, j) BY <2>1 DEF Paired
  <2>3. i < j /\ d[j] = Closing(o) BY <2>1, <2>2, SectBounds
  <2>4. ASSUME NEW k \in 1..j-1 PROVE d[k] # Closing(o)
    <3> SUFFICES ASSUME d[k] = Closing(o) PROVE FALSE OBVIOUS
    <3>1. k \in 1..Len(d) /\ Closer(d[k]) BY <1>0, Pairs
    <3>2. PICK m \in 1..Len(d) : Sect(d, m, k) BY <3>1 DEF Paired
    <3>3. m < k /\ Opener(d[m]) /\ d[k] = Closing(d[m]) /\ d[m] \in Line
      BY <3>2, SectBounds
    <3>4. d[m] = o BY <3>3, Pairs
    <3>5. ~ (m < i) BY <3>4, <2>1, <1>0
    <3>6. (i = m /\ j = k) \/ j < m \/ k < i BY <2>2, <3>2, Disjoint
    <3> QED BY <1>0, <2>1, <2>2, <3>1, <3>2, <3>3, <3>5, <3>6
  <2>5. e = j
    <3>1. e = From(d, 0, Closing(o)) BY <1>0, FirstIsFrom
    <3>2. j \in 0+1..Len(d) /\ \A k \in 0+1..j-1 : d[k] # Closing(o) BY <2>2, <2>4
    <3>3. From(d, 0, Closing(o)) = j BY <1>0, <2>3, <3>2, FromAt
    <3> QED BY <3>1, <3>3
  <2>6. Bounds(d, o, Closing(o)) = <<i, j>> BY <1>2, <2>1, <2>2, <2>3, <2>5
  <2> QED BY <2>1, <2>2, <2>6
<1> QED BY <1>3, <1>4

\* The section of that name that is found.
Picked(d, s, i) ==
  /\ d[i] \in OpensOf(s) /\ \A k \in 1..i-1 : d[k] # d[i]
  /\ d[i] # Begin(s) => \A k \in 1..Len(d) : d[k] # Begin(s)

\* No begin marker of s, old or new.
Absent(d, s) == \A k \in 1..Len(d) : d[k] \notin OpensOf(s)

\* The begin markers of s, and what closes them.
LEMMA OpensAre ==
  ASSUME NEW s \in Sections
  PROVE  /\ OpensOf(s) = {Begin(s), LBegin(s)} /\ Begin(s) # LBegin(s)
         /\ Begin(s) \in Line /\ Opener(Begin(s)) /\ Closing(Begin(s)) = EndOf(s)
         /\ LBegin(s) \in Line /\ Opener(LBegin(s)) /\ Closing(LBegin(s)) = LEnd(s)
<1>1. OpensOf(s) = {Begin(s), LBegin(s)} /\ Begin(s) # LBegin(s) BY DEF OpensOf, LBegin, Begin
<1> QED BY <1>1, MarkersAreLines DEF LBegin, LEnd

\* LocateSection, with those names.
LEMMA LocateIs ==
  ASSUME NEW d, NEW s
  PROVE  LocateSection(d, s) = IF Bounds(d, Begin(s), EndOf(s)) # <<>>
                               THEN Bounds(d, Begin(s), EndOf(s))
                               ELSE Bounds(d, LBegin(s), LEnd(s))
BY DEF LocateSection, LBegin, LEnd

\* In a paired file a section is found unless it has no begin marker.
LEMMA Located ==
  ASSUME NEW d \in Docs, Paired(d), NEW s \in Sections
  PROVE  \/ LocateSection(d, s) = <<>> /\ Absent(d, s)
         \/ \E i, j \in 1..Len(d) :
              Sect(d, i, j) /\ Picked(d, s, i) /\ LocateSection(d, s) = <<i, j>>
<1> DEFINE r == Bounds(d, Begin(s), EndOf(s))
           q == Bounds(d, LBegin(s), LEnd(s))
           l == LocateSection(d, s)
<1>1. \/ r = <<>> /\ \A k \in 1..Len(d) : d[k] # Begin(s)
      \/ \E i, j \in 1..Len(d) : /\ Sect(d, i, j) /\ d[i] = Begin(s) /\ r = <<i, j>>
                                 /\ \A k \in 1..i-1 : d[k] # Begin(s)
  BY OpensAre, BoundsPaired
<1>2. \/ q = <<>> /\ \A k \in 1..Len(d) : d[k] # LBegin(s)
      \/ \E i, j \in 1..Len(d) : /\ Sect(d, i, j) /\ d[i] = LBegin(s) /\ q = <<i, j>>
                                 /\ \A k \in 1..i-1 : d[k] # LBegin(s)
  BY OpensAre, BoundsPaired
<1>3. l = IF r # <<>> THEN r ELSE q BY LocateIs
<1>o. OpensOf(s) = {Begin(s), LBegin(s)} /\ Begin(s) # LBegin(s) BY OpensAre
<1> HIDE DEF r, q, l
<1>4. \A i, j : <<i, j>> # <<>> OBVIOUS
<1>5. CASE \E i, j \in 1..Len(d) : /\ Sect(d, i, j) /\ d[i] = Begin(s) /\ r = <<i, j>>
                                   /\ \A k \in 1..i-1 : d[k] # Begin(s)
  <2>1. PICK i, j \in 1..Len(d) : /\ Sect(d, i, j) /\ d[i] = Begin(s) /\ r = <<i, j>>
                                  /\ \A k \in 1..i-1 : d[k] # Begin(s)
    BY <1>5
  <2>2. Picked(d, s, i) BY <2>1, <1>o DEF Picked
  <2>3. l = <<i, j>> BY <2>1, <1>3, <1>4
  <2> QED BY <2>1, <2>2, <2>3 DEF l
<1>6. CASE /\ r = <<>> /\ \A k \in 1..Len(d) : d[k] # Begin(s)
           /\ \E i, j \in 1..Len(d) : /\ Sect(d, i, j) /\ d[i] = LBegin(s) /\ q = <<i, j>>
                                      /\ \A k \in 1..i-1 : d[k] # LBegin(s)
  <2>1. PICK i, j \in 1..Len(d) : /\ Sect(d, i, j) /\ d[i] = LBegin(s) /\ q = <<i, j>>
                                  /\ \A k \in 1..i-1 : d[k] # LBegin(s)
    BY <1>6
  <2>2. Picked(d, s, i) BY <2>1, <1>6, <1>o DEF Picked
  <2>3. l = <<i, j>> BY <2>1, <1>3, <1>6
  <2> QED BY <2>1, <2>2, <2>3 DEF l
<1>7. CASE /\ r = <<>> /\ \A k \in 1..Len(d) : d[k] # Begin(s)
           /\ q = <<>> /\ \A k \in 1..Len(d) : d[k] # LBegin(s)
  <2>1. l = <<>> BY <1>3, <1>7
  <2>2. Absent(d, s) BY <1>7, <1>o DEF Absent
  <2> QED BY <2>1, <2>2 DEF l
<1> QED BY <1>1, <1>2, <1>5, <1>6, <1>7

\* There is one section that is found.
LEMMA LocateAt ==
  ASSUME NEW d \in Docs, Paired(d), NEW s \in Sections, NEW i, NEW j, Sect(d, i, j),
         Picked(d, s, i)
  PROVE  LocateSection(d, s) = <<i, j>>
<1>1. i \in 1..Len(d) /\ j \in 1..Len(d) /\ Len(d) \in Nat BY SectBounds, DocsIs
<1>2. d[i] \in OpensOf(s) /\ ~ Absent(d, s) BY <1>1 DEF Absent, Picked
<1>3. PICK k, l \in 1..Len(d) :
        Sect(d, k, l) /\ Picked(d, s, k) /\ LocateSection(d, s) = <<k, l>>
  BY <1>2, Located
<1>4. OpensOf(s) = {Begin(s), LBegin(s)} BY OpensAre
<1>5. d[i] = d[k] BY <1>1, <1>3, <1>4 DEF Picked
<1>6. i = k BY <1>1, <1>3, <1>5 DEF Picked
<1>7. j = l
  <2>1. i < j /\ k < l BY <1>3, SectBounds
  <2>2. (i = k /\ j = l) \/ j < k \/ l < i BY <1>3, Disjoint
  <2> QED BY <1>1, <1>3, <1>6, <2>1, <2>2
<1> QED BY <1>3, <1>6, <1>7

-----------------------------------------------------------------------------
(* Writes of sections keep the loose lines *)

\* One line of a file.
LEMMA OneLine ==
  ASSUME NEW d \in Docs, NEW k \in 1..Len(d)
  PROVE  SubSeq(d, k, k) = <<d[k]>>
<1>1. k \in k..Len(d) /\ k \in Int /\ k+1 \in Int /\ k < k+1 BY DocsIs
<1>2. SubSeq(d, k, k) = <<d[k]>> \o SubSeq(d, k+1, k)
  BY <1>1, SubSeqRecursiveFirst DEF Docs
<1>3. SubSeq(d, k+1, k) = <<>> BY <1>1, SubSeqEmpty
<1>4. <<d[k]>> \in Docs BY DocsIs DEF Docs
<1> DEFINE x == <<d[k]>>
<1> HIDE DEF x
<1>5. x \o <<>> = x BY <1>4, Empty DEF x
<1> QED BY <1>2, <1>3, <1>5 DEF x

\* A block is a section.
LEMMA BlockIs ==
  ASSUME NEW s \in Sections, NEW v \in Version
  PROVE  /\ Block(s, v) \in Docs /\ Len(Block(s, v)) = 3 /\ IsSect(Block(s, v))
         /\ Block(s, v)[1] = Begin(s) /\ Block(s, v)[3] = EndOf(s)
         /\ Block(s, v)[2] = <<"text", s, v>>
<1> DEFINE b == Block(s, v)
<1>1. /\ Begin(s) \in Line /\ EndOf(s) \in Line /\ <<"text", s, v>> \in Line
      /\ Opener(Begin(s)) /\ Closing(Begin(s)) = EndOf(s) /\ ~ Marker(<<"text", s, v>>)
  BY MarkersAreLines
<1>2. /\ b \in Docs /\ Len(b) = 3 /\ b[1] = Begin(s) /\ b[3] = EndOf(s)
      /\ b[2] = <<"text", s, v>>
  <2>1. b = <<Begin(s), <<"text", s, v>>, EndOf(s)>> BY DEF Block
  <2> QED BY <1>1, <2>1 DEF Docs
<1> HIDE DEF b
<1>3. Sect(b, 1, 3)
  <2>1. Ends(b[1], b[3]) BY <1>1, <1>2 DEF Ends
  <2>2. Free(b, 1, 3)
    <3>1. \A k \in 1+1..3-1 : k = 2 OBVIOUS
    <3> QED BY <3>1, <1>1, <1>2 DEF Free
  <2>3. 1 \in 1..3 /\ 3 \in 1+1..3 OBVIOUS
  <2> QED BY <1>2, <2>1, <2>2, <2>3 DEF Sect
<1> QED BY <1>2, <1>3 DEF IsSect, b

\* A document around one of its sections.
Around(d, i, j, a, m, b) ==
  /\ a \in Docs /\ m \in Docs /\ b \in Docs
  /\ Paired(a) /\ Paired(b) /\ IsSect(m)
  /\ Len(a) = i-1 /\ Len(m) = j-i+1 /\ Len(b) = Len(d)-j
  /\ d = (a \o m) \o b
  /\ In(a, d, 0) /\ In(m, d, i-1) /\ In(b, d, j)

\* A paired file is split around a section.
LEMMA SplitSect ==
  ASSUME NEW d \in Docs, Paired(d), NEW i, NEW j, Sect(d, i, j)
  PROVE  Around(d, i, j, SubSeq(d, 1, i-1), SubSeq(d, i, j), SubSeq(d, j+1, Len(d)))
<1> DEFINE L == Len(d)
           a == SubSeq(d, 1, i-1)
           m == SubSeq(d, i, j)
           b == SubSeq(d, j+1, L)
<1>0. L \in Nat /\ i \in 1..L /\ j \in 1..L /\ i < j BY DocsIs, SectBounds
<1>1. Cut(d, i) /\ Cut(d, j+1) BY CutSect
<1>2. a \in Docs /\ Paired(a) BY <1>1, CutSplit
<1>3. b \in Docs /\ Paired(b) BY <1>1, CutSplit
<1>4. Len(a) = i-1 /\ In(a, d, 0)
  <2>1. i-1 \in 1-1..L /\ 1 \in 1..L+1 /\ i-1-1+1 = i-1 /\ 1-1 = 0 BY <1>0
  <2> QED BY <2>1, InSubSeq
<1>5. m \in Docs /\ Len(m) = j-i+1 /\ In(m, d, i-1)
  <2>1. i \in 1..L+1 /\ j \in i-1..L BY <1>0
  <2> QED BY <2>1, InSubSeq
<1>6. Len(b) = L-j /\ In(b, d, j)
  <2>1. j+1 \in 1..L+1 /\ L \in (j+1)-1..L /\ L-(j+1)+1 = L-j /\ (j+1)-1 = j BY <1>0
  <2> QED BY <2>1, InSubSeq
<1>7. IsSect(m)
  <2>1. 1 \in 1..Len(m) /\ Len(m) \in 1..Len(m) /\ i-1+1 = i /\ i-1+Len(m) = j
    BY <1>0, <1>5
  <2>2. Sect(m, 1, Len(m)) <=> Sect(d, i-1+1, i-1+Len(m)) BY <1>5, <2>1, SectIn
  <2>3. Len(m) > 0 BY <1>0, <1>5
  <2> QED BY <1>5, <2>1, <2>2, <2>3 DEF IsSect
<1>8. d = (a \o m) \o b
  <2>1. a \o m = SubSeq(d, 1, j)
    <3>1. 1 \in 1..L+1 /\ i-1 \in 1-1..L /\ j \in i-1..L /\ (i-1)+1 = i BY <1>0
    <3> QED BY <3>1, ConcatAdjacentSubSeq DEF Docs
  <2>2. SubSeq(d, 1, j) \o b = SubSeq(d, 1, L)
    <3>1. 1 \in 1..L+1 /\ j \in 1-1..L /\ L \in j..L BY <1>0
    <3> QED BY <3>1, ConcatAdjacentSubSeq DEF Docs
  <2>3. SubSeq(d, 1, L) = d BY SubSeqFull DEF Docs
  <2> QED BY <2>1, <2>2, <2>3, Zenon
<1> QED BY <1>2, <1>3, <1>4, <1>5, <1>6, <1>7, <1>8 DEF Around

\* Something without loose lines.
Mute(x) == x \in Docs /\ Paired(x) /\ Loose(x) = <<>>

\* A section is mute.
LEMMA MuteSect == ASSUME NEW x, IsSect(x) PROVE Mute(x)
BY SectPaired DEF Mute

\* So is the empty file.
LEMMA MuteEmpty == Mute(<<>>)
BY EmptyPaired DEF Mute

\* Something mute between two files adds no loose line.
LEMMA MuteBetween ==
  ASSUME NEW a \in Docs, NEW b \in Docs, NEW x, Paired(a), Paired(b), Mute(x)
  PROVE  /\ (a \o x) \o b \in Docs /\ Paired((a \o x) \o b)
         /\ Loose((a \o x) \o b) = Loose(a) \o Loose(b)
<1>1. x \in Docs /\ Paired(x) /\ Loose(x) = <<>> BY DEF Mute
<1>2. a \o x \in Docs /\ Paired(a \o x) BY <1>1, InConcat, PairedConcat
<1>3. (a \o x) \o b \in Docs /\ Paired((a \o x) \o b) BY <1>2, InConcat, PairedConcat
<1>4. Loose(a \o x) = Loose(a) \o <<>> BY <1>1, LooseConcat
<1>5. Loose(a \o x) = Loose(a) BY <1>4, LooseIsFlat, Empty
<1>6. Loose((a \o x) \o b) = Loose(a \o x) \o Loose(b) BY <1>2, LooseConcat
<1> QED BY <1>3, <1>5, <1>6

\* Something mute in the place of a section keeps the loose lines.
LEMMA ReplaceKeeps ==
  ASSUME NEW d \in Docs, Paired(d), NEW i, NEW j, Sect(d, i, j), NEW x, Mute(x)
  PROVE  /\ Replace(d, <<i, j>>, x) \in Docs /\ Paired(Replace(d, <<i, j>>, x))
         /\ Loose(Replace(d, <<i, j>>, x)) = Loose(d)
<1> DEFINE a == SubSeq(d, 1, i-1)
           m == SubSeq(d, i, j)
           b == SubSeq(d, j+1, Len(d))
<1>1. /\ a \in Docs /\ b \in Docs /\ Paired(a) /\ Paired(b) /\ Mute(m)
      /\ d = (a \o m) \o b
  <2>1. /\ a \in Docs /\ b \in Docs /\ Paired(a) /\ Paired(b) /\ IsSect(m)
        /\ d = (a \o m) \o b
    <3>1. Around(d, i, j, a, m, b) BY SplitSect
    <3> HIDE DEF a, m, b
    <3> QED BY <3>1 DEF Around
  <2>2. Mute(m) BY <2>1, MuteSect
  <2> QED BY <2>1, <2>2
<1>2. Replace(d, <<i, j>>, x) = (a \o x) \o b BY DEF Replace
<1> HIDE DEF a, m, b
<1>3. Loose(d) = Loose(a) \o Loose(b) BY <1>1, MuteBetween
<1>4. /\ (a \o x) \o b \in Docs /\ Paired((a \o x) \o b)
      /\ Loose((a \o x) \o b) = Loose(a) \o Loose(b)
  BY <1>1, MuteBetween
<1> QED BY <1>2, <1>3, <1>4

\* A write of a section keeps the file paired, and its loose lines.
LEMMA ApplyKeeps ==
  ASSUME NEW d \in Docs, Paired(d), NEW s \in Sections, NEW v \in Version
  PROVE  /\ ApplySection(d, s, v) \in Docs /\ Paired(ApplySection(d, s, v))
         /\ Loose(ApplySection(d, s, v)) = Loose(d)
<1> DEFINE x == Block(s, v)
           r == LocateSection(d, s)
<1>1. Mute(x) BY BlockIs, MuteSect
<1>2. ApplySection(d, s, v) = IF r = <<>> THEN d \o x ELSE Replace(d, r, x)
  BY DEF ApplySection
<1> HIDE DEF x
<1>3. CASE r = <<>>
  <2>1. ApplySection(d, s, v) = d \o x BY <1>2, <1>3
  <2>2. x \in Docs /\ Paired(x) /\ Loose(x) = <<>> BY <1>1 DEF Mute
  <2>3. Loose(d \o x) = Loose(d) \o <<>> BY <2>2, LooseConcat
  <2>4. Loose(d) \o <<>> = Loose(d) BY LooseIsFlat, Empty
  <2> QED BY <2>1, <2>2, <2>3, <2>4, InConcat, PairedConcat
<1>4. CASE r # <<>>
  <2>1. PICK i, j \in 1..Len(d) : Sect(d, i, j) /\ r = <<i, j>> BY <1>4, Located
  <2>2. ApplySection(d, s, v) = Replace(d, <<i, j>>, x) BY <1>2, <1>4, <2>1
  <2> QED BY <1>1, <2>1, <2>2, ReplaceKeeps
<1> QED BY <1>3, <1>4

\* So does the removal of a section.
LEMMA CleanKeeps ==
  ASSUME NEW d \in Docs, Paired(d), NEW s \in Sections
  PROVE  /\ CleanSection(d, s) \in Docs /\ Paired(CleanSection(d, s))
         /\ Loose(CleanSection(d, s)) = Loose(d)
<1> DEFINE r == LocateSection(d, s)
<1>2. CleanSection(d, s) = IF r = <<>> THEN d ELSE Replace(d, r, <<>>)
  BY DEF CleanSection
<1>3. CASE r = <<>> BY <1>2, <1>3
<1>4. CASE r # <<>>
  <2>1. PICK i, j \in 1..Len(d) : Sect(d, i, j) /\ r = <<i, j>> BY <1>4, Located
  <2>2. CleanSection(d, s) = Replace(d, <<i, j>>, <<>>) BY <1>2, <1>4, <2>1
  <2> QED BY <2>1, <2>2, MuteEmpty, ReplaceKeeps
<1> QED BY <1>3, <1>4

\* A walk that leaves each plain line and puts something mute in the place of
\* each section, from line i on.
Rewrites(d, R) ==
  \A i \in 1..Len(d) : Cut(d, i) =>
    \/ ~ Marker(d[i]) /\ R[i] = <<d[i]>> \o R[i+1]
    \/ \E j \in i+1..Len(d), x \in Docs : Sect(d, i, j) /\ Mute(x) /\ R[i] = x \o R[j+1]

\* A file from line i on.
Suffix(d, i) == SubSeq(d, i, Len(d))

\* Between two cuts, a paired file is the lines up to the second and the rest.
LEMMA SuffixStep ==
  ASSUME NEW d \in Docs, Paired(d), NEW i \in 1..Len(d), NEW j \in i..Len(d),
         Cut(d, i), Cut(d, j+1)
  PROVE  /\ SubSeq(d, i, j) \in Docs /\ Suffix(d, i) \in Docs /\ Suffix(d, j+1) \in Docs
         /\ Suffix(d, i) = SubSeq(d, i, j) \o Suffix(d, j+1)
         /\ Paired(Suffix(d, i)) /\ Paired(Suffix(d, j+1))
<1>0. Len(d) \in Nat BY DocsIs
<1>1. Suffix(d, i) \in Docs /\ Paired(Suffix(d, i)) BY CutSplit DEF Suffix
<1>2. Suffix(d, j+1) \in Docs /\ Paired(Suffix(d, j+1)) BY CutSplit DEF Suffix
<1>3. SubSeq(d, i, j) \in Docs
  <2>1. i \in 1..Len(d)+1 /\ j \in i-1..Len(d) BY <1>0
  <2> QED BY <2>1, InSubSeq
<1>4. Suffix(d, i) = SubSeq(d, i, j) \o Suffix(d, j+1)
  <2>1. i \in 1..Len(d)+1 /\ j \in i-1..Len(d) /\ Len(d) \in j..Len(d) BY <1>0
  <2> QED BY <2>1, ConcatAdjacentSubSeq DEF Suffix, Docs
<1> QED BY <1>1, <1>2, <1>3, <1>4

\* Such a walk keeps the file paired, and its loose lines.
LEMMA RewriteKeeps ==
  ASSUME NEW d \in Docs, Paired(d), NEW R, Rewrites(d, R), R[Len(d)+1] = <<>>,
         NEW i \in 1..Len(d)+1, Cut(d, i)
  PROVE  R[i] \in Docs /\ Paired(R[i]) /\ Loose(R[i]) = Loose(Suffix(d, i))
<1> DEFINE L == Len(d)
           Ok(k) == R[k] \in Docs /\ Paired(R[k]) /\ Loose(R[k]) = Loose(Suffix(d, k))
           S == {k \in 1..L+1 : Cut(d, k) => Ok(k)}
<1>0. L \in Nat /\ \A k \in 1..L : d[k] \in Line BY DocsIs
<1>1. R[L+1] = <<>> OBVIOUS
<1> HIDE DEF L, Ok, S
<1>2. ASSUME NEW k \in 1..L+1, \A n \in k+1..L+1 : n \in S PROVE k \in S
  <2> SUFFICES ASSUME Cut(d, k) PROVE Ok(k) BY DEF S
  <2>1. CASE k = L+1
    <3>1. Suffix(d, k) = <<>> BY <2>1, <1>0, SubSeqEmpty DEF Suffix, L
    <3> QED BY <3>1, <2>1, <1>1, EmptyPaired DEF Ok
  <2>2. CASE k \in 1..L
    <3>1. CASE ~ Marker(d[k]) /\ R[k] = <<d[k]>> \o R[k+1]
      <4>1. Cut(d, k+1) BY <2>2, <3>1, CutNext DEF L
      <4>2. Ok(k+1) BY <4>1, <2>2, <1>0, <1>2 DEF S
      <4>3. <<d[k]>> \in Docs /\ Paired(<<d[k]>>) BY <2>2, <3>1, <1>0, LinePaired
      <4> DEFINE x == <<d[k]>>
                 y == R[k+1]
                 z == Suffix(d, k+1)
      <4>4. Suffix(d, k) = x \o z /\ z \in Docs /\ Paired(z)
        <5>1. SubSeq(d, k, k) = x BY <2>2, OneLine DEF L
        <5>2. k \in k..L BY <2>2, <1>0
        <5> QED BY <5>1, <5>2, <2>2, <4>1, SuffixStep DEF L
      <4>5. y \in Docs /\ Paired(y) /\ Loose(y) = Loose(z) BY <4>2 DEF Ok
      <4>6. x \in Docs /\ Paired(x) /\ R[k] = x \o y BY <4>3, <3>1
      <4> HIDE DEF x, y, z
      <4>7. Loose(x \o y) = Loose(x) \o Loose(y) BY <4>5, <4>6, LooseConcat
      <4>8. Loose(x \o z) = Loose(x) \o Loose(z) BY <4>4, <4>6, LooseConcat
      <4>9. x \o y \in Docs /\ Paired(x \o y) BY <4>5, <4>6, InConcat, PairedConcat
      <4> QED BY <4>4, <4>5, <4>6, <4>7, <4>8, <4>9 DEF Ok
    <3>2. CASE \E j \in k+1..L, x \in Docs : Sect(d, k, j) /\ Mute(x) /\ R[k] = x \o R[j+1]
      <4>1. PICK j \in k+1..L, x \in Docs : Sect(d, k, j) /\ Mute(x) /\ R[k] = x \o R[j+1]
        BY <3>2
      <4>2. Cut(d, j+1) BY <4>1, CutSect
      <4>3. Ok(j+1) BY <4>2, <2>2, <1>0, <1>2 DEF S
      <4> DEFINE m == SubSeq(d, k, j)
                 y == R[j+1]
                 z == Suffix(d, j+1)
      <4>4. Suffix(d, k) = m \o z /\ m \in Docs /\ z \in Docs /\ Paired(z)
        <5>1. j \in k..L BY <2>2, <1>0
        <5> QED BY <5>1, <2>2, <4>2, SuffixStep DEF L
      <4>5. y \in Docs /\ Paired(y) /\ Loose(y) = Loose(z) BY <4>3 DEF Ok
      <4>6. Paired(m) /\ Loose(m) = <<>>
        <5>1. IsSect(m) BY <4>1, SplitSect DEF Around
        <5> QED BY <5>1, SectPaired
      <4>7. Paired(x) /\ Loose(x) = <<>> /\ R[k] = x \o y BY <4>1 DEF Mute
      <4> HIDE DEF m, y, z
      <4>8. Loose(x \o y) = <<>> \o Loose(y) BY <4>5, <4>7, LooseConcat
      <4>9. Loose(m \o z) = <<>> \o Loose(z) BY <4>4, <4>6, LooseConcat
      <4>10. x \o y \in Docs /\ Paired(x \o y) BY <4>5, <4>7, InConcat, PairedConcat
      <4> QED BY <4>4, <4>5, <4>7, <4>8, <4>9, <4>10 DEF Ok
    <3> QED BY <3>1, <3>2, <2>2 DEF Rewrites, L
  <2> QED BY <2>1, <2>2, <1>0
<1>3. L+1 \in Nat BY <1>0
<1>4. \A k \in 1..L+1 : k \in S BY <1>2, <1>3, Downward
<1> QED BY <1>4 DEF S, Ok, L

-----------------------------------------------------------------------------
(* PruneSections *)

\* EndAt finds the first end marker of the name, or none.
LEMMA EndAtIs ==
  ASSUME NEW d \in Docs, NEW i \in 1..Len(d)
  PROVE  LET e == EndAt(d, i) IN
         /\ e \in Nat
         /\ e = 0 => \A k \in i+1..Len(d) : d[k] # EndOf(d[i][2])
         /\ e # 0 => /\ e \in i+1..Len(d) /\ d[e] = EndOf(d[i][2])
                     /\ \A k \in i+1..e-1 : d[k] # EndOf(d[i][2])
<1> DEFINE t == EndOf(d[i][2])
<1>1. i \in Nat /\ d \in Seq(Line) BY DocsIs
<1>2. EndAt(d, i) = From(d, i, t) BY DEF EndAt
<1> HIDE DEF t
<1>3. LET e == From(d, i, t) IN
         /\ e \in Nat
         /\ e = 0 => \A k \in i+1..Len(d) : d[k] # t
         /\ e # 0 => /\ e \in i+1..Len(d) /\ d[e] = t
                     /\ \A k \in i+1..e-1 : d[k] # t
  BY <1>1, FromIs
<1> QED BY <1>2, <1>3 DEF t

\* A begin marker of this release.
IsBegin(x) == x[1] = "begin"

\* In a section, EndAt finds its end.
LEMMA EndAtSect ==
  ASSUME NEW d \in Docs, NEW i, NEW j, Sect(d, i, j)
  PROVE  /\ \A k \in i+1..j : ~ IsBegin(d[k])
         /\ IsBegin(d[i]) => EndAt(d, i) = j
<1>1. /\ i \in 1..Len(d) /\ j \in 1..Len(d) /\ i < j /\ Closer(d[j])
      /\ \A k \in i+1..j-1 : ~ Marker(d[k])
  BY SectBounds
<1>2. \A k \in i+1..j : ~ IsBegin(d[k])
  <2> TAKE k \in i+1..j
  <2>1. k \in i+1..j-1 \/ k = j BY <1>1
  <2> QED BY <1>1, <2>1 DEF IsBegin, Marker, Opener, Closer
<1>3. ASSUME IsBegin(d[i]) PROVE EndAt(d, i) = j
  <2>1. EndAt(d, i) = From(d, i, Closing(d[i])) BY <1>3 DEF EndAt, IsBegin, Closing
  <2> QED BY <2>1, SectFrom
<1> QED BY <1>2, <1>3

-----------------------------------------------------------------------------
\* The walk of PruneSections.
Gone(d, keep, i) == IsBegin(d[i]) /\ d[i][2] \notin keep /\ EndAt(d, i) > 0
PrunePiece(d, keep) == [i \in 1..Len(d) |-> IF Gone(d, keep, i) THEN <<>> ELSE <<d[i]>>]
PruneNext(d, keep) ==
  [i \in 1..Len(d) |-> IF Gone(d, keep, i) THEN EndAt(d, i) + 1 ELSE i + 1]
PruneRest(d, keep) == Rest(PrunePiece(d, keep), PruneNext(d, keep))

\* PruneSections is that walk.
LEMMA PruneIs ==
  ASSUME NEW d, NEW keep
  PROVE  PruneSections(d, keep) = PruneRest(d, keep)[1]
<1>1. PruneSections(d, keep) = Written(PrunePiece(d, keep), PruneNext(d, keep))
  BY DEF PruneSections, PrunePiece, PruneNext, Gone, IsBegin
<1> QED BY <1>1, WrittenIsRest DEF PruneRest

\* It is a writer of lines.
LEMMA PruneWalk ==
  ASSUME NEW d \in Docs, NEW keep
  PROVE  Piece(Line, PrunePiece(d, keep), PruneNext(d, keep))
         /\ Len(PrunePiece(d, keep)) = Len(d)
<1> DEFINE p == PrunePiece(d, keep)
           n == PruneNext(d, keep)
<1>0. Len(d) \in Nat /\ \A i \in 1..Len(d) : d[i] \in Line BY DocsIs
<1>1. ASSUME NEW i \in 1..Len(d) PROVE p[i] \in Seq(Line) /\ n[i] \in i+1..Len(d)+1
  <2>1. p[i] \in Seq(Line) BY <1>0 DEF PrunePiece
  <2>2. Gone(d, keep, i) => EndAt(d, i) \in i+1..Len(d)
    <3>1. EndAt(d, i) # 0 => EndAt(d, i) \in i+1..Len(d) BY EndAtIs
    <3> QED BY <3>1 DEF Gone
  <2>3. n[i] = IF Gone(d, keep, i) THEN EndAt(d, i) + 1 ELSE i + 1 BY DEF PruneNext
  <2>4. n[i] \in i+1..Len(d)+1 BY <1>0, <2>2, <2>3
  <2> QED BY <2>1, <2>4
<1>2. p = [i \in 1..Len(d) |-> p[i]] BY DEF PrunePiece
<1> HIDE DEF p, n
<1>3. p \in Seq(Seq(Line)) /\ Len(p) = Len(d) BY <1>0, <1>1, <1>2
<1> QED BY <1>1, <1>3 DEF Piece, Goes, p, n

\* Each line is written or its section skipped.
LEMMA PruneSteps ==
  ASSUME NEW d \in Docs, NEW keep
  PROVE  LET R == PruneRest(d, keep) IN
         /\ R[Len(d)+1] = <<>>
         /\ \A i \in 1..Len(d)+1 : R[i] \in Docs
         /\ \A i \in 1..Len(d) : ~ Gone(d, keep, i) => R[i] = <<d[i]>> \o R[i+1]
         /\ \A i \in 1..Len(d) : Gone(d, keep, i) => R[i] = R[EndAt(d, i)+1]
<1> DEFINE R == PruneRest(d, keep)
           p == PrunePiece(d, keep)
           n == PruneNext(d, keep)
<1>1. Piece(Line, p, n) /\ Len(p) = Len(d) BY PruneWalk
<1>2. R[Len(d)+1] = <<>> BY <1>1, RestEnd DEF PruneRest
<1>3. \A i \in 1..Len(d)+1 : R[i] \in Docs BY <1>1, RestType DEF PruneRest, Docs
<1>4. \A i \in 1..Len(d) : R[i] = p[i] \o R[n[i]]
  <2>1. Steps(p, n, R) BY <1>1, RestSteps DEF PruneRest
  <2> HIDE DEF p, n, R
  <2> QED BY <1>1, <2>1 DEF Steps
<1>5. ASSUME NEW i \in 1..Len(d), ~ Gone(d, keep, i) PROVE R[i] = <<d[i]>> \o R[i+1]
  <2>1. p[i] = <<d[i]>> /\ n[i] = i+1 BY <1>5 DEF PrunePiece, PruneNext
  <2> HIDE DEF p, n, R
  <2> QED BY <1>4, <2>1
<1>6. ASSUME NEW i \in 1..Len(d), Gone(d, keep, i) PROVE R[i] = R[EndAt(d, i)+1]
  <2>1. p[i] = <<>> /\ n[i] = EndAt(d, i)+1 BY <1>6 DEF PrunePiece, PruneNext
  <2>2. n[i] \in 1..Len(d)+1
    <3>1. n[i] \in i+1..Len(d)+1 BY <1>1 DEF Piece, Goes
    <3>2. Len(d) \in Nat BY DocsIs
    <3> HIDE DEF n
    <3> QED BY <3>1, <3>2
  <2> DEFINE y == R[n[i]]
  <2>3. y \in Docs BY <1>3, <2>2
  <2> HIDE DEF p, n, R
  <2>4. R[i] = <<>> \o y BY <1>4, <2>1
  <2> HIDE DEF y
  <2>5. <<>> \o y = y BY <2>3, Empty
  <2> QED BY <2>1, <2>4, <2>5 DEF y
<1> QED BY <1>2, <1>3, <1>5, <1>6

\* At a cut, a line is written, or a section is skipped or written.
Prunes(d, keep, R) ==
  \A i \in 1..Len(d) : Cut(d, i) =>
    \/ ~ Marker(d[i]) /\ R[i] = <<d[i]>> \o R[i+1]
    \/ \E j \in i+1..Len(d) :
         /\ Sect(d, i, j)
         /\ \/ Gone(d, keep, i) /\ R[i] = R[j+1]
            \/ ~ Gone(d, keep, i) /\ R[i] = SubSeq(d, i, j) \o R[j+1]

\* So it is in a prune of a paired file.
LEMMA PruneCuts ==
  ASSUME NEW d \in Docs, Paired(d), NEW keep
  PROVE  Prunes(d, keep, PruneRest(d, keep))
<1> DEFINE R == PruneRest(d, keep)
<1>0. Len(d) \in Nat BY DocsIs
<1>1. /\ \A i \in 1..Len(d) : ~ Gone(d, keep, i) => R[i] = <<d[i]>> \o R[i+1]
      /\ \A i \in 1..Len(d) : Gone(d, keep, i) => R[i] = R[EndAt(d, i)+1]
  BY PruneSteps
<1> SUFFICES ASSUME NEW i \in 1..Len(d), Cut(d, i)
             PROVE  \/ ~ Marker(d[i]) /\ R[i] = <<d[i]>> \o R[i+1]
                    \/ \E j \in i+1..Len(d) :
                         /\ Sect(d, i, j)
                         /\ \/ Gone(d, keep, i) /\ R[i] = R[j+1]
                            \/ ~ Gone(d, keep, i) /\ R[i] = SubSeq(d, i, j) \o R[j+1]
  BY DEF Prunes
<1>2. CASE ~ Marker(d[i])
  <2>1. ~ Gone(d, keep, i) BY <1>2 DEF Gone, IsBegin, Marker, Opener
  <2> QED BY <1>1, <1>2, <2>1
<1>3. CASE \E j \in i+1..Len(d) : Sect(d, i, j) /\ Cut(d, j+1)
  <2>1. PICK j \in i+1..Len(d) : Sect(d, i, j) /\ Cut(d, j+1) BY <1>3
  <2>3. CASE Gone(d, keep, i)
    <3>1. EndAt(d, i) = j BY <2>1, <2>3, EndAtSect DEF Gone
    <3>2. R[i] = R[j+1] BY <1>1, <2>3, <3>1
    <3> HIDE DEF R
    <3> QED BY <2>1, <2>3, <3>2
  <2>4. CASE ~ Gone(d, keep, i)
    <3> DEFINE p == PrunePiece(d, keep)
               n == PruneNext(d, keep)
    <3>1. \A k \in i..j : k \in 1..Len(d) /\ ~ Gone(d, keep, k)
      <4>1. \A k \in i+1..j : ~ IsBegin(d[k]) BY <2>1, EndAtSect
      <4>2. \A k \in i+1..j : ~ Gone(d, keep, k) BY <4>1 DEF Gone
      <4> QED BY <1>0, <2>1, <2>4, <4>2
    <3>2. Plain(d, p, n, i, j+1)
      <4>1. \A k \in i..j : p[k] = <<d[k]>> /\ n[k] = k+1
        BY <3>1 DEF PrunePiece, PruneNext
      <4>2. i..(j+1)-1 = i..j BY <1>0, <2>1
      <4> QED BY <4>1, <4>2 DEF Plain
    <3>3. R[i] = SubSeq(d, i, (j+1)-1) \o R[j+1]
      <4>1. Piece(Line, p, n) /\ Len(p) = Len(d) BY PruneWalk
      <4>2. j+1 \in 1..Len(d)+1 /\ i \in 1..j+1 BY <1>0, <2>1
      <4>3. d \in Seq(Line) BY DocsIs
      <4> DEFINE q == j+1
      <4> HIDE DEF p, n, q
      <4>4. Plain(d, p, n, i, q) /\ q \in 1..Len(d)+1 /\ i \in 1..q BY <3>2, <4>2 DEF q
      <4>5. Copies(d, Rest(p, n), i, q) BY <4>1, <4>3, <4>4, PlainSteps
      <4> QED BY <4>5 DEF Copies, PruneRest, p, n, q
    <3>4. (j+1)-1 = j BY <2>1
    <3>5. R[i] = SubSeq(d, i, j) \o R[j+1] BY <3>3, <3>4
    <3> HIDE DEF R
    <3> QED BY <2>1, <2>4, <3>5
  <2> QED BY <2>3, <2>4
<1> QED BY <1>2, <1>3, CutLine

\* A prune of a paired file skips whole sections.
LEMMA PruneRewrites ==
  ASSUME NEW d \in Docs, Paired(d), NEW keep
  PROVE  Rewrites(d, PruneRest(d, keep))
<1> DEFINE R == PruneRest(d, keep)
<1>0. Len(d) \in Nat BY DocsIs
<1>1. Prunes(d, keep, R) BY PruneCuts
<1>2. \A i \in 1..Len(d)+1 : R[i] \in Docs BY PruneSteps
<1> HIDE DEF R
<1>3. ASSUME NEW i \in 1..Len(d), NEW j \in i+1..Len(d), Sect(d, i, j),
             \/ R[i] = R[j+1]
             \/ R[i] = SubSeq(d, i, j) \o R[j+1]
      PROVE  \E x \in Docs : Mute(x) /\ R[i] = x \o R[j+1]
  <2> DEFINE y == R[j+1]
             m == SubSeq(d, i, j)
  <2>1. y \in Docs
    <3>1. j+1 \in 1..Len(d)+1 BY <1>0
    <3> QED BY <1>2, <3>1
  <2>2. <<>> \o y = y /\ <<>> \in Docs
    <3> HIDE DEF y
    <3> QED BY <2>1, Empty
  <2>3. m \in Docs /\ Mute(m)
    <3>1. Around(d, i, j, SubSeq(d, 1, i-1), m, SubSeq(d, j+1, Len(d)))
      BY <1>3, SplitSect
    <3> HIDE DEF m
    <3> QED BY <3>1, MuteSect DEF Around
  <2>4. CASE R[i] = R[j+1] BY <2>2, <2>4, MuteEmpty
  <2>5. CASE R[i] = m \o R[j+1]
    <3> HIDE DEF m
    <3> QED BY <2>3, <2>5
  <2> QED BY <1>3, <2>4, <2>5
<1>4. ASSUME NEW i \in 1..Len(d), Cut(d, i)
      PROVE  \/ ~ Marker(d[i]) /\ R[i] = <<d[i]>> \o R[i+1]
             \/ \E j \in i+1..Len(d), x \in Docs :
                  Sect(d, i, j) /\ Mute(x) /\ R[i] = x \o R[j+1]
  <2>1. CASE ~ Marker(d[i]) /\ R[i] = <<d[i]>> \o R[i+1] BY <2>1
  <2>2. CASE \E j \in i+1..Len(d) :
               /\ Sect(d, i, j)
               /\ \/ Gone(d, keep, i) /\ R[i] = R[j+1]
                  \/ ~ Gone(d, keep, i) /\ R[i] = SubSeq(d, i, j) \o R[j+1]
    <3>1. PICK j \in i+1..Len(d) :
            Sect(d, i, j) /\ (R[i] = R[j+1] \/ R[i] = SubSeq(d, i, j) \o R[j+1])
      BY <2>2
    <3>2. PICK x \in Docs : Mute(x) /\ R[i] = x \o R[j+1] BY <1>3, <3>1
    <3> QED BY <3>1, <3>2
  <2> QED BY <1>1, <1>4, <2>1, <2>2 DEF Prunes
<1> QED BY <1>4 DEF Rewrites, R

\* A file is its suffix from line 1 on.
LEMMA WholeSuffix ==
  ASSUME NEW d \in Docs PROVE Suffix(d, 1) = d /\ Cut(d, 1) /\ 1 \in 1..Len(d)+1
<1>1. Suffix(d, 1) = d BY SubSeqFull DEF Suffix, Docs
<1>2. Len(d) \in Nat BY DocsIs
<1> QED BY <1>1, <1>2, CutEnds

\* A prune keeps the file paired, and its loose lines.
LEMMA PruneKeeps ==
  ASSUME NEW d \in Docs, Paired(d), NEW keep
  PROVE  /\ PruneSections(d, keep) \in Docs /\ Paired(PruneSections(d, keep))
         /\ Loose(PruneSections(d, keep)) = Loose(d)
<1> DEFINE R == PruneRest(d, keep)
<1>1. Rewrites(d, R) BY PruneRewrites
<1>2. R[Len(d)+1] = <<>> BY PruneSteps
<1>3. Suffix(d, 1) = d /\ Cut(d, 1) /\ 1 \in 1..Len(d)+1 BY WholeSuffix
<1> HIDE DEF R
<1>4. R[1] \in Docs /\ Paired(R[1]) /\ Loose(R[1]) = Loose(d)
  BY <1>1, <1>2, <1>3, RewriteKeeps
<1> QED BY <1>4, PruneIs DEF R

-----------------------------------------------------------------------------
(* ReconcileSections *)

\* The walk of ReconcileSections.
Seen(d, i) == \E k \in 1..i-1 : d[k] = d[i]
Kept(d, A, T, v, i) ==
  IF d[i][2] \in T \/ (d[i][2] \in A /\ Seen(d, i)) THEN <<>>
  ELSE IF d[i][2] \in A THEN Block(d[i][2], v)
  ELSE SubSeq(d, i, EndAt(d, i))
RecPiece(d, A, T, v) ==
  [i \in 1..Len(d) |-> IF ~ IsBegin(d[i]) THEN <<d[i]>>
                       ELSE IF Malformed(d, i) THEN Suffix(d, i) ELSE Kept(d, A, T, v, i)]
RecNext(d) ==
  [i \in 1..Len(d) |-> IF ~ IsBegin(d[i]) THEN i + 1
                       ELSE IF Malformed(d, i) THEN Len(d) + 1 ELSE EndAt(d, i) + 1]
RecRest(d, A, T, v) == Rest(RecPiece(d, A, T, v), RecNext(d))
Missing(d, A, X) == {s \in A \ X : First(d, Begin(s)) = 0}

\* ReconcileSections is that walk and the missing blocks.
LEMMA ReconcileIs ==
  ASSUME NEW d, NEW A, NEW X, NEW T, NEW v
  PROVE  ReconcileSections(d, A, X, T, v) = RecRest(d, A, T, v)[1] \o Blocks(Missing(d, A, X), v)
<1>1. ReconcileSections(d, A, X, T, v)
        = Written(RecPiece(d, A, T, v), RecNext(d)) \o Blocks(Missing(d, A, X), v)
  BY DEF ReconcileSections, RecPiece, RecNext, Kept, Seen, Missing, Suffix, IsBegin
<1> QED BY <1>1, WrittenIsRest DEF RecRest

\* A well-formed section.
LEMMA WellFormed ==
  ASSUME NEW d \in Docs, NEW i \in 1..Len(d), IsBegin(d[i]), ~ Malformed(d, i)
  PROVE  /\ EndAt(d, i) \in i+1..Len(d) /\ d[EndAt(d, i)] = EndOf(d[i][2])
         /\ d[i][2] \in Sections /\ d[i] = Begin(d[i][2])
         /\ \A k \in i+1..EndAt(d, i) : ~ IsBegin(d[k])
         /\ \A k \in i+1..EndAt(d, i)-1 : d[k] # EndOf(d[i][2])
<1> DEFINE e == EndAt(d, i)
<1>1. e # 0 /\ ~ \E k \in i+1..e-1 : d[k][1] = "begin" BY DEF Malformed
<1>2. e \in i+1..Len(d) /\ d[e] = EndOf(d[i][2]) /\ \A k \in i+1..e-1 : d[k] # EndOf(d[i][2])
  BY <1>1, EndAtIs
<1>3. d[i] \in Line /\ Len(d) \in Nat BY DocsIs
<1>4. d[i][2] \in Sections /\ d[i] = Begin(d[i][2]) BY <1>3, LineCases DEF IsBegin
<1> HIDE DEF e
<1>5. ASSUME NEW k \in i+1..e PROVE ~ IsBegin(d[k])
  <2>1. k \in i+1..e-1 \/ k = e BY <1>2, <1>3
  <2> QED BY <1>1, <1>2, <2>1 DEF IsBegin, EndOf
<1> QED BY <1>2, <1>4, <1>5 DEF e

\* What is written for a well-formed section is a file.
LEMMA KeptIsDoc ==
  ASSUME NEW d \in Docs, NEW A, NEW T, NEW v \in Version, NEW i \in 1..Len(d),
         IsBegin(d[i]), ~ Malformed(d, i)
  PROVE  Kept(d, A, T, v, i) \in Docs
<1>1. d[i][2] \in Sections /\ EndAt(d, i) \in i+1..Len(d) /\ Len(d) \in Nat
  BY WellFormed, DocsIs
<1>2. Block(d[i][2], v) \in Docs BY <1>1, BlockIs
<1>3. SubSeq(d, i, EndAt(d, i)) \in Docs
  <2>1. i \in 1..Len(d)+1 /\ EndAt(d, i) \in i-1..Len(d) BY <1>1
  <2> QED BY <2>1, InSubSeq
<1>4. <<>> \in Docs BY EmptyPaired
<1> QED BY <1>2, <1>3, <1>4 DEF Kept

\* So is a suffix.
LEMMA SuffixIsDoc ==
  ASSUME NEW d \in Docs, NEW i \in 1..Len(d)+1 PROVE Suffix(d, i) \in Docs
<1>1. Len(d) \in i-1..Len(d) BY DocsIs
<1> QED BY <1>1, InSubSeq DEF Suffix

\* The walk is a writer of lines.
LEMMA RecWalk ==
  ASSUME NEW d \in Docs, NEW A, NEW T, NEW v \in Version
  PROVE  Piece(Line, RecPiece(d, A, T, v), RecNext(d))
         /\ Len(RecPiece(d, A, T, v)) = Len(d)
<1> DEFINE p == RecPiece(d, A, T, v)
           n == RecNext(d)
<1>0. Len(d) \in Nat /\ \A i \in 1..Len(d) : d[i] \in Line BY DocsIs
<1>1. ASSUME NEW i \in 1..Len(d) PROVE p[i] \in Docs /\ n[i] \in i+1..Len(d)+1
  <2>1. CASE ~ IsBegin(d[i])
    <3>1. p[i] = <<d[i]>> /\ n[i] = i+1 BY <2>1 DEF RecPiece, RecNext
    <3>2. <<d[i]>> \in Docs BY <1>0 DEF Docs
    <3> QED BY <1>0, <3>1, <3>2
  <2>2. CASE IsBegin(d[i]) /\ Malformed(d, i)
    <3>1. p[i] = Suffix(d, i) /\ n[i] = Len(d)+1 BY <2>2 DEF RecPiece, RecNext
    <3>2. Suffix(d, i) \in Docs BY <1>0, SuffixIsDoc
    <3> QED BY <1>0, <3>1, <3>2
  <2>3. CASE IsBegin(d[i]) /\ ~ Malformed(d, i)
    <3>1. p[i] = Kept(d, A, T, v, i) /\ n[i] = EndAt(d, i)+1
      BY <2>3 DEF RecPiece, RecNext
    <3>2. Kept(d, A, T, v, i) \in Docs /\ EndAt(d, i) \in i+1..Len(d)
      BY <2>3, KeptIsDoc, WellFormed
    <3> QED BY <1>0, <3>1, <3>2
  <2> QED BY <2>1, <2>2, <2>3
<1>2. p = [i \in 1..Len(d) |-> p[i]] BY DEF RecPiece
<1> HIDE DEF p, n
<1>3. p \in Seq(Docs) /\ Len(p) = Len(d) BY <1>0, <1>1, <1>2
<1> QED BY <1>1, <1>3 DEF Piece, Goes, p, n, Docs

\* Each line is written, a well-formed section treated, the rest kept from a
\* malformed one on.
Reconciles(d, A, T, v, R) ==
  /\ R[Len(d)+1] = <<>>
  /\ \A i \in 1..Len(d)+1 : R[i] \in Docs
  /\ \A i \in 1..Len(d) : ~ IsBegin(d[i]) => R[i] = <<d[i]>> \o R[i+1]
  /\ \A i \in 1..Len(d) : IsBegin(d[i]) /\ Malformed(d, i) => R[i] = Suffix(d, i)
  /\ \A i \in 1..Len(d) : IsBegin(d[i]) /\ ~ Malformed(d, i) =>
       R[i] = Kept(d, A, T, v, i) \o R[EndAt(d, i)+1]

\* The walk does that.
LEMMA RecSteps ==
  ASSUME NEW d \in Docs, NEW A, NEW T, NEW v \in Version
  PROVE  Reconciles(d, A, T, v, RecRest(d, A, T, v))
<1> DEFINE R == RecRest(d, A, T, v)
           p == RecPiece(d, A, T, v)
           n == RecNext(d)
<1>0. Len(d) \in Nat BY DocsIs
<1>1. Piece(Line, p, n) /\ Len(p) = Len(d) BY RecWalk
<1>2. R[Len(d)+1] = <<>> BY <1>1, RestEnd DEF RecRest
<1>3. \A i \in 1..Len(d)+1 : R[i] \in Docs BY <1>1, RestType DEF RecRest, Docs
<1>4. \A i \in 1..Len(d) : R[i] = p[i] \o R[n[i]]
  <2>1. Steps(p, n, R) BY <1>1, RestSteps DEF RecRest
  <2> HIDE DEF p, n, R
  <2> QED BY <1>1, <2>1 DEF Steps
<1>5. ASSUME NEW i \in 1..Len(d), ~ IsBegin(d[i]) PROVE R[i] = <<d[i]>> \o R[i+1]
  <2>1. p[i] = <<d[i]>> /\ n[i] = i+1 BY <1>5 DEF RecPiece, RecNext
  <2> HIDE DEF p, n, R
  <2> QED BY <1>4, <2>1
<1>6. ASSUME NEW i \in 1..Len(d), IsBegin(d[i]), Malformed(d, i) PROVE R[i] = Suffix(d, i)
  <2>1. p[i] = Suffix(d, i) /\ n[i] = Len(d)+1 BY <1>6 DEF RecPiece, RecNext
  <2> HIDE DEF p, n, R
  <2>2. R[i] = Suffix(d, i) \o <<>> BY <1>2, <1>4, <2>1
  <2>3. Suffix(d, i) \in Docs BY <1>0, SuffixIsDoc
  <2> QED BY <2>2, <2>3, Empty
<1>7. ASSUME NEW i \in 1..Len(d), IsBegin(d[i]), ~ Malformed(d, i)
      PROVE  R[i] = Kept(d, A, T, v, i) \o R[EndAt(d, i)+1]
  <2>1. p[i] = Kept(d, A, T, v, i) /\ n[i] = EndAt(d, i)+1
    BY <1>7 DEF RecPiece, RecNext
  <2> HIDE DEF p, n, R
  <2> QED BY <1>4, <2>1
<1> QED BY <1>2, <1>3, <1>5, <1>6, <1>7 DEF Reconciles

\* On a paired file it puts something mute in the place of whole sections.
LEMMA RecRewrites ==
  ASSUME NEW d \in Docs, Paired(d), NEW A, NEW T, NEW v \in Version
  PROVE  Rewrites(d, RecRest(d, A, T, v))
<1> DEFINE R == RecRest(d, A, T, v)
<1>0. Len(d) \in Nat BY DocsIs
<1>1. /\ \A i \in 1..Len(d)+1 : R[i] \in Docs
      /\ \A i \in 1..Len(d) : ~ IsBegin(d[i]) => R[i] = <<d[i]>> \o R[i+1]
      /\ \A i \in 1..Len(d) : IsBegin(d[i]) /\ ~ Malformed(d, i) =>
           R[i] = Kept(d, A, T, v, i) \o R[EndAt(d, i)+1]
  <2>1. Reconciles(d, A, T, v, R) BY RecSteps
  <2> HIDE DEF R
  <2> QED BY <2>1 DEF Reconciles
<1> SUFFICES ASSUME NEW i \in 1..Len(d), Cut(d, i)
             PROVE  \/ ~ Marker(d[i]) /\ R[i] = <<d[i]>> \o R[i+1]
                    \/ \E j \in i+1..Len(d), x \in Docs :
                         Sect(d, i, j) /\ Mute(x) /\ R[i] = x \o R[j+1]
  BY DEF Rewrites
<1>2. CASE ~ Marker(d[i])
  <2>1. ~ IsBegin(d[i]) BY <1>2 DEF IsBegin, Marker, Opener
  <2> QED BY <1>1, <1>2, <2>1
<1>3. CASE \E j \in i+1..Len(d) : Sect(d, i, j) /\ Cut(d, j+1)
  <2>1. PICK j \in i+1..Len(d) : Sect(d, i, j) /\ Cut(d, j+1) BY <1>3
  <2> DEFINE x == SubSeq(d, i, j)
  <2>2. x \in Docs /\ Mute(x)
    <3>1. Around(d, i, j, SubSeq(d, 1, i-1), x, SubSeq(d, j+1, Len(d)))
      BY <2>1, SplitSect
    <3> HIDE DEF x
    <3> QED BY <3>1, MuteSect DEF Around
  <2>3. CASE IsBegin(d[i])
    <3>1. EndAt(d, i) = j /\ \A k \in i+1..j : ~ IsBegin(d[k]) BY <2>1, <2>3, EndAtSect
    <3>2. ~ Malformed(d, i)
      <4>1. j # 0 /\ \A k \in i+1..j-1 : k \in i+1..j BY <2>1
      <4> QED BY <3>1, <4>1 DEF Malformed, IsBegin
    <3> DEFINE y == Kept(d, A, T, v, i)
    <3>3. y \in Docs /\ Mute(y)
      <4>1. d[i][2] \in Sections BY <2>3, <3>2, WellFormed
      <4>2. Mute(Block(d[i][2], v)) BY <4>1, BlockIs, MuteSect
      <4>3. y \in {<<>>, Block(d[i][2], v), x} BY <3>1 DEF Kept
      <4>4. Mute(y) BY <4>2, <4>3, <2>2, MuteEmpty
      <4> HIDE DEF y
      <4> QED BY <4>4 DEF Mute
    <3>4. R[i] = y \o R[j+1] BY <1>1, <2>3, <3>1, <3>2
    <3> HIDE DEF R, y
    <3>5. Sect(d, i, j) /\ Mute(y) /\ R[i] = y \o R[j+1] BY <2>1, <3>3, <3>4
    <3> QED BY <3>3, <3>5 DEF R
  <2>4. CASE ~ IsBegin(d[i])
    <3> DEFINE p == RecPiece(d, A, T, v)
               n == RecNext(d)
    <3>1. \A k \in i..j : k \in 1..Len(d) /\ ~ IsBegin(d[k])
      <4>1. \A k \in i+1..j : ~ IsBegin(d[k]) BY <2>1, EndAtSect
      <4> QED BY <1>0, <2>1, <2>4, <4>1
    <3>2. Plain(d, p, n, i, j+1)
      <4>1. \A k \in i..j : p[k] = <<d[k]>> /\ n[k] = k+1
        BY <3>1 DEF RecPiece, RecNext
      <4>2. i..(j+1)-1 = i..j BY <1>0, <2>1
      <4> QED BY <4>1, <4>2 DEF Plain
    <3>3. R[i] = SubSeq(d, i, (j+1)-1) \o R[j+1]
      <4>1. Piece(Line, p, n) /\ Len(p) = Len(d) BY RecWalk
      <4>2. j+1 \in 1..Len(d)+1 /\ i \in 1..j+1 BY <1>0, <2>1
      <4>3. d \in Seq(Line) BY DocsIs
      <4> DEFINE q == j+1
      <4> HIDE DEF p, n, q
      <4>4. Plain(d, p, n, i, q) /\ q \in 1..Len(d)+1 /\ i \in 1..q BY <3>2, <4>2 DEF q
      <4>5. Copies(d, Rest(p, n), i, q) BY <4>1, <4>3, <4>4, PlainSteps
      <4> QED BY <4>5 DEF Copies, RecRest, p, n, q
    <3>4. (j+1)-1 = j BY <2>1
    <3>6. R[i] = x \o R[j+1] BY <3>3, <3>4
    <3> HIDE DEF R, x
    <3>7. Sect(d, i, j) /\ Mute(x) /\ R[i] = x \o R[j+1] BY <2>1, <2>2, <3>6
    <3> QED BY <2>2, <3>7 DEF R
  <2> QED BY <2>3, <2>4
<1> QED BY <1>2, <1>3, CutLine

-----------------------------------------------------------------------------
\* What Blocks writes for each configured section.
BlockPieces(S, v) ==
  [n \in 1..Len(Order) |-> IF Order[n] \in S THEN Block(Order[n], v) ELSE <<>>]

\* The configured sections, each once.
LEMMA OrderIs ==
  /\ Len(Order) \in Nat /\ \A n \in 1..Len(Order) : Order[n] \in Sections
  /\ \A s \in Sections : \E n \in 1..Len(Order) : Order[n] = s
  /\ \A i, j \in 1..Len(Order) : Order[i] = Order[j] => i = j
<1>1. Order \in Seq(Sections) /\ IsInjective(Order) BY DocsAssumption
<1>2. Sections = {Order[i] : i \in DOMAIN Order} BY DEF Sections, ToSet
<1>3. DOMAIN Order = 1..Len(Order) BY <1>1
<1> QED BY <1>1, <1>2, <1>3 DEF IsInjective

\* Blocks goes through them one by one.
LEMMA BlocksIsFlat ==
  ASSUME NEW S, NEW v \in Version
  PROVE  /\ Blocks(S, v) = Flat(BlockPieces(S, v)) /\ Blocks(S, v) \in Docs
         /\ BlockPieces(S, v) \in Seq(Docs) /\ Len(BlockPieces(S, v)) = Len(Order)
<1>1. \A n \in 1..Len(Order) : Block(Order[n], v) \in Docs BY OrderIs, BlockIs
<1>2. <<>> \in Docs BY EmptyPaired
<1>3. Len(Order) \in Nat BY OrderIs
<1>4. BlockPieces(S, v) \in Seq(Docs) /\ Len(BlockPieces(S, v)) = Len(Order)
  BY <1>1, <1>2, <1>3 DEF BlockPieces
<1>5. Blocks(S, v) = Flat(BlockPieces(S, v))
  BY <1>4 DEF Blocks, Flat, BlockPieces, Onward
<1> QED BY <1>4, <1>5, FlatRest

\* Mute pieces make something mute.
LEMMA FlatMute ==
  ASSUME NEW p \in Seq(Docs), \A i \in 1..Len(p) : Mute(p[i])
  PROVE  Mute(Flat(p))
<1> DEFINE m == Len(p)
           P == Rest(p, Onward(p))
           S == {i \in 1..m+1 : Mute(P[i])}
<1>1. /\ Flat(p) = P[1] /\ P[m+1] = <<>>
      /\ \A i \in 1..m : P[i] = p[i] \o P[i+1]
  BY FlatRest
<1>2. m \in Nat /\ \A i \in 1..m : Mute(p[i]) OBVIOUS
<1> HIDE DEF m, P, S
<1>3. ASSUME NEW i \in 1..m+1, \A k \in i+1..m+1 : k \in S PROVE i \in S
  <2>1. CASE i = m+1 BY <2>1, <1>1, MuteEmpty DEF S
  <2>2. CASE i \in 1..m
    <3>1. i+1 \in S BY <2>2, <1>2, <1>3
    <3> DEFINE x == p[i]
               y == P[i+1]
    <3>2. Mute(x) /\ Mute(y) /\ P[i] = x \o y BY <2>2, <3>1, <1>1, <1>2 DEF S
    <3> HIDE DEF x, y
    <3>3. Loose(x \o y) = <<>> \o <<>> /\ x \o y \in Docs /\ Paired(x \o y)
      BY <3>2, LooseConcat, PairedConcat, InConcat DEF Mute
    <3>4. Mute(P[i]) BY <3>2, <3>3 DEF Mute
    <3> QED BY <3>4 DEF S
  <2> QED BY <2>1, <2>2, <1>2
<1>4. m+1 \in Nat BY <1>2
<1>5. \A i \in 1..m+1 : i \in S BY <1>3, <1>4, Downward
<1>6. 1 \in S BY <1>2, <1>5
<1> QED BY <1>1, <1>6 DEF S

\* The blocks are mute.
LEMMA BlocksMute ==
  ASSUME NEW S, NEW v \in Version PROVE Mute(Blocks(S, v))
<1> DEFINE p == BlockPieces(S, v)
<1>1. \A n \in 1..Len(Order) : Mute(p[n])
  <2>1. \A n \in 1..Len(Order) : Mute(Block(Order[n], v)) BY OrderIs, BlockIs, MuteSect
  <2> QED BY <2>1, MuteEmpty DEF BlockPieces
<1>2. p \in Seq(Docs) /\ Len(p) = Len(Order) /\ Blocks(S, v) = Flat(p) BY BlocksIsFlat
<1> HIDE DEF p
<1>3. Mute(Flat(p)) BY <1>1, <1>2, FlatMute
<1> QED BY <1>2, <1>3

\* A reconciliation keeps the file paired, and its loose lines.
LEMMA ReconcileKeeps ==
  ASSUME NEW d \in Docs, Paired(d), NEW A, NEW X, NEW T, NEW v \in Version
  PROVE  LET e == ReconcileSections(d, A, X, T, v) IN
         e \in Docs /\ Paired(e) /\ Loose(e) = Loose(d)
<1> DEFINE R == RecRest(d, A, T, v)
           b == Blocks(Missing(d, A, X), v)
<1>1. Rewrites(d, R) BY RecRewrites
<1>2. R[Len(d)+1] = <<>> BY RecSteps DEF Reconciles
<1>3. Suffix(d, 1) = d /\ Cut(d, 1) /\ 1 \in 1..Len(d)+1 BY WholeSuffix
<1>4. ReconcileSections(d, A, X, T, v) = R[1] \o b BY ReconcileIs
<1>5. Mute(b) BY BlocksMute
<1> HIDE DEF R, b
<1>6. R[1] \in Docs /\ Paired(R[1]) /\ Loose(R[1]) = Loose(d)
  BY <1>1, <1>2, <1>3, RewriteKeeps
<1> DEFINE a == R[1]
<1>7. a \in Docs /\ Paired(a) /\ Loose(a) = Loose(d) BY <1>6
<1> HIDE DEF a
<1>8. b \in Docs /\ Paired(b) /\ Loose(b) = <<>> BY <1>5 DEF Mute
<1>9. Loose(a \o b) = Loose(a) \o <<>> BY <1>7, <1>8, LooseConcat
<1>10. Loose(a) \o <<>> = Loose(a) BY <1>7, LooseIsFlat, Empty
<1>11. a \o b \in Docs /\ Paired(a \o b) BY <1>7, <1>8, InConcat, PairedConcat
<1> QED BY <1>4, <1>7, <1>9, <1>10, <1>11 DEF a

-----------------------------------------------------------------------------
(* Writes of a torn file *)

\* First finds the first such line, or none.
LEMMA FirstIs ==
  ASSUME NEW d \in Docs, NEW t
  PROVE  /\ First(d, t) \in Nat
         /\ First(d, t) = 0 => \A k \in 1..Len(d) : d[k] # t
         /\ First(d, t) # 0 => /\ First(d, t) \in 1..Len(d) /\ d[First(d, t)] = t
                               /\ \A k \in 1..First(d, t)-1 : d[k] # t
<1>0. d \in Seq(Line) BY DocsIs
<1>1. First(d, t) = From(d, 0, t) BY <1>0, FirstIsFrom
<1>2. LET f == From(d, 0, t) IN
        /\ f \in Nat
        /\ f = 0 => \A k \in 0+1..Len(d) : d[k] # t
        /\ f # 0 => f \in 0+1..Len(d) /\ d[f] = t /\ \A k \in 0+1..f-1 : d[k] # t
  BY <1>0, FromIs
<1> QED BY <1>1, <1>2

\* Of every document, a torn one too.
LEMMA LocateType ==
  ASSUME NEW d \in Docs, NEW s
  PROVE  \/ LocateSection(d, s) = <<>>
         \/ \E i \in 1..Len(d) : \E j \in i+1..Len(d) :
              LocateSection(d, s) = <<i, j>> /\ d[i] \in OpensOf(s)
<1>1. ASSUME NEW b, NEW e
      PROVE  \/ Bounds(d, b, e) = <<>>
             \/ \E i \in 1..Len(d) : \E j \in i+1..Len(d) :
                  Bounds(d, b, e) = <<i, j>> /\ d[i] = b
  <2> DEFINE i == First(d, b)
             j == First(d, e)
  <2>1. Bounds(d, b, e) = IF i > 0 /\ j > i THEN <<i, j>> ELSE <<>> BY DEF Bounds
  <2>2. /\ i \in Nat /\ (i # 0 => i \in 1..Len(d) /\ d[i] = b)
        /\ j \in Nat /\ (j # 0 => j \in 1..Len(d))
    BY FirstIs
  <2>3. Len(d) \in Nat BY DocsIs
  <2> HIDE DEF i, j
  <2>4. CASE i > 0 /\ j > i
    <3>1. i \in 1..Len(d) /\ j \in i+1..Len(d) /\ d[i] = b BY <2>2, <2>3, <2>4
    <3> QED BY <3>1, <2>1, <2>4
  <2> QED BY <2>1, <2>4
<1>2. LBegin(s) \in OpensOf(s) /\ Begin(s) \in OpensOf(s) BY DEF OpensOf, LBegin
<1>3. \/ LocateSection(d, s) = Bounds(d, Begin(s), EndOf(s))
      \/ LocateSection(d, s) = Bounds(d, LBegin(s), LEnd(s))
  BY LocateIs
<1> QED BY <1>1, <1>2, <1>3

\* Every write of harnez leaves a file, of a torn one too.
LEMMA ReplaceType ==
  ASSUME NEW d \in Docs, NEW i \in 1..Len(d), NEW j \in i+1..Len(d), NEW x \in Docs
  PROVE  Replace(d, <<i, j>>, x) \in Docs
<1>0. Len(d) \in Nat BY DocsIs
<1>1. SubSeq(d, 1, i-1) \in Docs
  <2>1. 1 \in 1..Len(d)+1 /\ i-1 \in 1-1..Len(d) BY <1>0
  <2> QED BY <2>1, InSubSeq
<1>2. SubSeq(d, j+1, Len(d)) \in Docs
  <2>1. j+1 \in 1..Len(d)+1 /\ Len(d) \in (j+1)-1..Len(d) BY <1>0
  <2> QED BY <2>1, InSubSeq
<1>3. Replace(d, <<i, j>>, x) = (SubSeq(d, 1, i-1) \o x) \o SubSeq(d, j+1, Len(d))
  BY DEF Replace
<1> DEFINE a == SubSeq(d, 1, i-1)
           b == SubSeq(d, j+1, Len(d))
<1> HIDE DEF a, b
<1>4. (a \o x) \o b \in Docs BY <1>1, <1>2, InConcat DEF a, b
<1> QED BY <1>3, <1>4 DEF a, b

\* A write of a section.
LEMMA ApplyType ==
  ASSUME NEW d \in Docs, NEW s \in Sections, NEW v \in Version
  PROVE  ApplySection(d, s, v) \in Docs
<1> DEFINE x == Block(s, v)
           r == LocateSection(d, s)
<1>1. x \in Docs BY BlockIs
<1>2. ApplySection(d, s, v) = IF r = <<>> THEN d \o x ELSE Replace(d, r, x)
  BY DEF ApplySection
<1> HIDE DEF x
<1>3. d \o x \in Docs BY <1>1, InConcat
<1>4. r # <<>> => Replace(d, r, x) \in Docs BY <1>1, LocateType, ReplaceType
<1> QED BY <1>2, <1>3, <1>4

\* The removal of a section.
LEMMA CleanType ==
  ASSUME NEW d \in Docs, NEW s
  PROVE  CleanSection(d, s) \in Docs
<1> DEFINE r == LocateSection(d, s)
<1>1. CleanSection(d, s) = IF r = <<>> THEN d ELSE Replace(d, r, <<>>)
  BY DEF CleanSection
<1>2. r # <<>> => Replace(d, r, <<>>) \in Docs BY EmptyPaired, LocateType, ReplaceType
<1> QED BY <1>1, <1>2

\* A prune.
LEMMA PruneType ==
  ASSUME NEW d \in Docs, NEW keep
  PROVE  PruneSections(d, keep) \in Docs
<1>1. 1 \in 1..Len(d)+1 BY DocsIs
<1> QED BY <1>1, PruneIs, PruneSteps

\* A reconciliation.
LEMMA ReconcileType ==
  ASSUME NEW d \in Docs, NEW A, NEW X, NEW T, NEW v \in Version
  PROVE  ReconcileSections(d, A, X, T, v) \in Docs
<1> DEFINE a == RecRest(d, A, T, v)[1]
           b == Blocks(Missing(d, A, X), v)
<1>1. 1 \in 1..Len(d)+1 BY DocsIs
<1>2. a \in Docs BY <1>1, RecSteps DEF Reconciles
<1>3. b \in Docs BY BlocksIsFlat
<1>4. ReconcileSections(d, A, X, T, v) = a \o b BY ReconcileIs
<1> HIDE DEF a, b
<1> QED BY <1>2, <1>3, <1>4, InConcat

-----------------------------------------------------------------------------
\* Where line k is once a line has come in at p.
Later(p, k) == IF k < p THEN k ELSE k + 1

\* e is d with x, which is no marker, as its line p.
Inserted(d, e, p, x) ==
  /\ p \in 1..Len(e) /\ Len(e) = Len(d) + 1 /\ e[p] = x /\ ~ Marker(x)
  /\ \A k \in 1..Len(d) : e[Later(p, k)] = d[k]

\* A line that is no marker leaves the sections as they are.
LEMMA InsertSect ==
  ASSUME NEW d \in Docs, NEW e \in Docs, NEW p, NEW x, Inserted(d, e, p, x),
         NEW i \in 1..Len(d), NEW j \in 1..Len(d)
  PROVE  Sect(d, i, j) <=> Sect(e, Later(p, i), Later(p, j))
<1> DEFINE L == Len(d)
<1>0. /\ L \in Nat /\ Len(e) = L+1 /\ p \in 1..L+1 /\ i \in 1..L /\ j \in 1..L
      /\ e[p] = x /\ ~ Marker(x)
  BY DocsIs DEF Inserted
<1>1. \A k \in 1..L : e[Later(p, k)] = d[k] BY DEF Inserted
<1> HIDE DEF L
<1>2. /\ Later(p, i) \in 1..L+1
      /\ j \in i+1..L <=> Later(p, j) \in Later(p, i)+1..L+1
  BY <1>0 DEF Later
<1>3. Ends(d[i], d[j]) <=> Ends(e[Later(p, i)], e[Later(p, j)]) BY <1>0, <1>1
<1>4. ASSUME Free(d, i, j) PROVE Free(e, Later(p, i), Later(p, j))
  <2>1. ASSUME NEW k \in Later(p, i)+1..Later(p, j)-1 PROVE ~ Marker(e[k])
    <3>1. CASE k = p BY <3>1, <1>0
    <3>2. CASE k < p
      <4>1. k \in i+1..j-1 /\ k \in 1..L /\ Later(p, k) = k BY <3>2, <1>0 DEF Later
      <4> QED BY <4>1, <1>1, <1>4 DEF Free
    <3>3. CASE k > p
      <4>1. k-1 \in i+1..j-1 /\ k-1 \in 1..L /\ Later(p, k-1) = k BY <3>3, <1>0 DEF Later
      <4>2. ~ Marker(d[k-1]) BY <4>1, <1>4 DEF Free
      <4> QED BY <4>1, <4>2, <1>1
    <3> QED BY <3>1, <3>2, <3>3, <1>0 DEF Later
  <2> QED BY <2>1 DEF Free
<1>5. ASSUME Free(e, Later(p, i), Later(p, j)) PROVE Free(d, i, j)
  <2>1. ASSUME NEW k \in i+1..j-1 PROVE ~ Marker(d[k])
    <3>1. k \in 1..L /\ Later(p, k) \in Later(p, i)+1..Later(p, j)-1 BY <1>0 DEF Later
    <3>2. ~ Marker(e[Later(p, k)]) BY <3>1, <1>5 DEF Free
    <3> QED BY <3>1, <3>2, <1>1
  <2> QED BY <2>1 DEF Free
<1> QED BY <1>0, <1>2, <1>3, <1>4, <1>5 DEF Sect, L

\* So it leaves the file paired, and so does its removal.
LEMMA InsertPaired ==
  ASSUME NEW d \in Docs, NEW e \in Docs, NEW p, NEW x, Inserted(d, e, p, x)
  PROVE  Paired(d) <=> Paired(e)
<1> DEFINE L == Len(d)
<1>0. /\ L \in Nat /\ Len(e) = L+1 /\ p \in 1..L+1 /\ e[p] = x /\ ~ Marker(x)
  BY DocsIs DEF Inserted
<1>1. \A k \in 1..L : e[Later(p, k)] = d[k] BY DEF Inserted
<1>2. \A i, j \in 1..L : Sect(d, i, j) <=> Sect(e, Later(p, i), Later(p, j))
  BY InsertSect
<1> HIDE DEF L
<1>3. \A k \in 1..L : Later(p, k) \in 1..L+1 BY <1>0 DEF Later
<1>4. \A k \in 1..L+1 : k = p \/ \E n \in 1..L : Later(p, n) = k
  <2> TAKE k \in 1..L+1
  <2>1. CASE k < p
    <3>1. k \in 1..L /\ Later(p, k) = k BY <2>1, <1>0 DEF Later
    <3> QED BY <3>1
  <2>2. CASE k > p
    <3>1. k-1 \in 1..L /\ Later(p, k-1) = k BY <2>2, <1>0 DEF Later
    <3> QED BY <3>1
  <2> QED BY <2>1, <2>2, <1>0
<1>5. ASSUME Paired(d) PROVE Paired(e)
  <2>1. ASSUME NEW k \in 1..L+1, Opener(e[k]) PROVE \E l \in 1..L+1 : Sect(e, k, l)
    <3>1. PICK n \in 1..L : Later(p, n) = k BY <2>1, <1>0, <1>4 DEF Marker
    <3>2. PICK m \in 1..L : Sect(d, n, m) BY <3>1, <2>1, <1>1, <1>5 DEF Paired, L
    <3> QED BY <3>1, <3>2, <1>2, <1>3
  <2>2. ASSUME NEW k \in 1..L+1, Closer(e[k]) PROVE \E l \in 1..L+1 : Sect(e, l, k)
    <3>1. PICK n \in 1..L : Later(p, n) = k BY <2>2, <1>0, <1>4 DEF Marker
    <3>2. PICK m \in 1..L : Sect(d, m, n) BY <3>1, <2>2, <1>1, <1>5 DEF Paired, L
    <3> QED BY <3>1, <3>2, <1>2, <1>3
  <2> QED BY <2>1, <2>2, <1>0 DEF Paired
<1>6. ASSUME Paired(e) PROVE Paired(d)
  <2>1. ASSUME NEW k \in 1..L, Opener(d[k]) PROVE \E l \in 1..L : Sect(d, k, l)
    <3>1. PICK l \in 1..L+1 : Sect(e, Later(p, k), l)
      BY <2>1, <1>0, <1>1, <1>3, <1>6 DEF Paired
    <3>2. Closer(e[l]) BY <3>1, SectBounds
    <3>3. PICK n \in 1..L : Later(p, n) = l BY <3>2, <1>0, <1>4 DEF Marker
    <3> QED BY <3>1, <3>3, <1>2
  <2>2. ASSUME NEW k \in 1..L, Closer(d[k]) PROVE \E l \in 1..L : Sect(d, l, k)
    <3>1. PICK l \in 1..L+1 : Sect(e, l, Later(p, k))
      BY <2>2, <1>0, <1>1, <1>3, <1>6 DEF Paired
    <3>2. Opener(e[l]) BY <3>1, SectBounds
    <3>3. PICK n \in 1..L : Later(p, n) = l BY <3>2, <1>0, <1>4 DEF Marker
    <3> QED BY <3>1, <3>3, <1>2
  <2> QED BY <2>1, <2>2 DEF Paired, L
<1> QED BY <1>5, <1>6

\* The person's new line comes in at p.
LEMMA InsertIs ==
  ASSUME NEW d \in Docs, NEW p \in 1..Len(d)+1, NEW x \in Line
  PROVE  /\ InsertAt(d, p, x) \in Docs /\ Len(InsertAt(d, p, x)) = Len(d) + 1
         /\ InsertAt(d, p, x)[p] = x
         /\ \A k \in 1..Len(d) : InsertAt(d, p, x)[Later(p, k)] = d[k]
<1> DEFINE L == Len(d)
           a == SubSeq(d, 1, p-1)
           b == SubSeq(d, p, L)
           m == <<x>>
           f == a \o m
           e == f \o b
<1>0. L \in Nat /\ p \in 1..L+1 BY DocsIs
<1>1. a \in Docs /\ Len(a) = p-1 /\ In(a, d, 0)
  <2>1. p-1 \in 1-1..L /\ 1 \in 1..L+1 /\ p-1-1+1 = p-1 /\ 1-1 = 0 BY <1>0
  <2> QED BY <2>1, InSubSeq
<1>2. b \in Docs /\ Len(b) = L-p+1 /\ In(b, d, p-1)
  <2>1. L \in p-1..L BY <1>0
  <2> QED BY <2>1, <1>0, InSubSeq
<1>3. m \in Docs /\ Len(m) = 1 /\ m[1] = x BY DEF Docs
<1>4. InsertAt(d, p, x) = e BY DEF InsertAt
<1> HIDE DEF a, b, m, L
<1>5. f \in Docs /\ Len(f) = p /\ In(a, f, 0) /\ In(m, f, p-1)
  <2>1. p-1+1 = p BY <1>0
  <2> QED BY <1>1, <1>3, <2>1, InConcat
<1> HIDE DEF f
<1>6. e \in Docs /\ Len(e) = L+1 /\ In(f, e, 0) /\ In(b, e, p)
  <2>1. p + (L-p+1) = L+1 BY <1>0
  <2> QED BY <1>2, <1>5, <2>1, InConcat
<1> HIDE DEF e
<1>7. \A k \in 1..p-1 : d[k] = a[k] /\ a[k] = f[k] /\ k \in 1..p
  BY <1>0, <1>1, <1>5 DEF In
<1>8. \A k \in 1..p : e[k] = f[k] BY <1>0, <1>5, <1>6 DEF In
<1>9. f[p] = x
  <2>1. f[p-1+1] = m[1] BY <1>3, <1>5 DEF In
  <2>2. p-1+1 = p BY <1>0
  <2> QED BY <1>3, <2>1, <2>2
<1>10. \A k \in 1..L-p+1 : d[p-1+k] = b[k] /\ e[p+k] = b[k] BY <1>2, <1>6 DEF In
<1>11. ASSUME NEW k \in 1..L PROVE e[Later(p, k)] = d[k]
  <2>1. CASE k < p
    <3>1. k \in 1..p-1 /\ k \in 1..p /\ Later(p, k) = k BY <2>1, <1>0 DEF Later
    <3> QED BY <3>1, <1>7, <1>8
  <2>2. CASE k >= p
    <3>1. k-p+1 \in 1..L-p+1 /\ p-1+(k-p+1) = k /\ p+(k-p+1) = k+1 /\ Later(p, k) = k+1
      BY <2>2, <1>0 DEF Later
    <3>2. d[p-1+(k-p+1)] = b[k-p+1] /\ e[p+(k-p+1)] = b[k-p+1] BY <3>1, <1>10
    <3> QED BY <3>1, <3>2
  <2> QED BY <2>1, <2>2, <1>0
<1>12. e[p] = x BY <1>0, <1>8, <1>9
<1> QED BY <1>4, <1>6, <1>11, <1>12 DEF L

\* And is removed from p.
LEMMA RemoveIs ==
  ASSUME NEW d \in Docs, NEW p \in 1..Len(d)
  PROVE  /\ RemoveAt(d, p) \in Docs /\ Len(d) = Len(RemoveAt(d, p)) + 1
         /\ \A k \in 1..Len(RemoveAt(d, p)) : d[Later(p, k)] = RemoveAt(d, p)[k]
<1> DEFINE L == Len(d)
           a == SubSeq(d, 1, p-1)
           b == SubSeq(d, p+1, L)
           e == a \o b
<1>0. L \in Nat /\ p \in 1..L BY DocsIs
<1>1. a \in Docs /\ Len(a) = p-1 /\ In(a, d, 0)
  <2>1. p-1 \in 1-1..L /\ 1 \in 1..L+1 /\ p-1-1+1 = p-1 /\ 1-1 = 0 BY <1>0
  <2> QED BY <2>1, InSubSeq
<1>2. b \in Docs /\ Len(b) = L-p /\ In(b, d, p)
  <2>1. p+1 \in 1..L+1 /\ L \in (p+1)-1..L /\ L-(p+1)+1 = L-p /\ (p+1)-1 = p BY <1>0
  <2> QED BY <2>1, InSubSeq
<1>3. RemoveAt(d, p) = e BY DEF RemoveAt
<1> HIDE DEF a, b, L
<1>4. e \in Docs /\ Len(e) = L-1 /\ In(a, e, 0) /\ In(b, e, p-1)
  <2>1. p-1+(L-p) = L-1 BY <1>0
  <2> QED BY <1>1, <1>2, <2>1, InConcat
<1> HIDE DEF e
<1>5. \A k \in 1..p-1 : d[k] = a[k] /\ e[k] = a[k] BY <1>1, <1>4 DEF In
<1>6. \A k \in 1..L-p : d[p+k] = b[k] /\ e[p-1+k] = b[k] BY <1>2, <1>4 DEF In
<1>7. ASSUME NEW k \in 1..L-1 PROVE d[Later(p, k)] = e[k]
  <2>1. CASE k < p
    <3>1. k \in 1..p-1 /\ Later(p, k) = k BY <2>1, <1>0 DEF Later
    <3> QED BY <3>1, <1>5
  <2>2. CASE k >= p
    <3>1. k-p+1 \in 1..L-p /\ p-1+(k-p+1) = k /\ p+(k-p+1) = k+1 /\ Later(p, k) = k+1
      BY <2>2, <1>0 DEF Later
    <3>2. d[p+(k-p+1)] = b[k-p+1] /\ e[p-1+(k-p+1)] = b[k-p+1] BY <3>1, <1>6
    <3> QED BY <3>1, <3>2
  <2> QED BY <2>1, <2>2, <1>0
<1>8. L = (L-1)+1 BY <1>0
<1> QED BY <1>3, <1>4, <1>7, <1>8 DEF L

-----------------------------------------------------------------------------
(* Copies of bundled docs *)

\* A copy has no section markers and one stop marker at most.
Stops == {Stop, OldStop}
Bare(d) == \A i \in 1..Len(d) : ~ Marker(d[i])
OneStop(d) == \A i, j \in 1..Len(d) : d[i] \in Stops /\ d[j] \in Stops => i = j

\* The stop markers are lines, and no section markers.
LEMMA StopsAre ==
  /\ Stop \in Line /\ OldStop \in Line /\ Stop \in Stops /\ OldStop \in Stops
  /\ \A x \in Stops : ~ Marker(x)
BY DEF Line, Stop, OldStop, Stops, Marker, Opener, Closer

\* The bundled text is one line.
LEMMA BundledIs ==
  ASSUME NEW v \in Version
  PROVE  /\ Bundled(v) \in Docs /\ Len(Bundled(v)) = 1
         /\ Bundled(v)[1] \notin Stops /\ ~ Marker(Bundled(v)[1])
<1>1. <<"text", "bundle", v>> \in Line BY DEF Line
<1>2. Bundled(v) = << <<"text", "bundle", v>> >> BY DEF Bundled
<1>3. Bundled(v) \in Docs /\ Len(Bundled(v)) = 1 BY <1>1, <1>2 DEF Docs
<1>4. Bundled(v)[1] = <<"text", "bundle", v>> BY <1>2
<1> QED BY <1>3, <1>4 DEF Stops, Stop, OldStop, Marker, Opener, Closer

\* StopIndex finds the first stop marker, or none.
LEMMA StopIs ==
  ASSUME NEW d \in Docs
  PROVE  /\ StopIndex(d) \in Nat
         /\ StopIndex(d) = 0 => \A k \in 1..Len(d) : d[k] \notin Stops
         /\ StopIndex(d) # 0 => /\ StopIndex(d) \in 1..Len(d) /\ d[StopIndex(d)] \in Stops
                                /\ \A k \in 1..StopIndex(d)-1 : d[k] \notin Stops
<1> DEFINE I == {k \in 1..Len(d) : d[k] \in Stops}
<1>0. Len(d) \in Nat BY DocsIs
<1>1. StopIndex(d) = IF I # {} THEN CHOOSE x \in I : \A y \in I : x <= y ELSE 0
  BY DEF StopIndex, SelectInSeq, Min, Stops
<1>2. I \in SUBSET Nat OBVIOUS
<1>3. CASE I = {} BY <1>1, <1>3
<1>4. CASE I # {}
  <2>1. \E x \in I : \A y \in I : x <= y BY <1>2, <1>4, LeastNat
  <2>2. StopIndex(d) \in I /\ \A y \in I : StopIndex(d) <= y BY <2>1, <1>1, <1>4
  <2>3. StopIndex(d) \in 1..Len(d) /\ d[StopIndex(d)] \in Stops BY <2>2
  <2>4. ASSUME NEW k \in 1..StopIndex(d)-1, d[k] \in Stops PROVE FALSE
    <3>1. k \in I BY <1>0, <2>3, <2>4
    <3>2. StopIndex(d) <= k BY <2>2, <3>1
    <3> QED BY <2>3, <3>2, <1>0
  <2> QED BY <2>3, <2>4, <1>0
<1> QED BY <1>3, <1>4

\* A bundled text and the local part of d from its stop on.
Merged(d, e, c, k) ==
  /\ e \in Docs /\ StopIndex(e) = 2 /\ e[1] = c[1]
  /\ SubSeq(e, 2, Len(e)) = SubSeq(d, k, Len(d))
  /\ SubSeq(e, 1, 1) = c
  /\ Len(e) = Len(d) - k + 2
  /\ \A i \in 2..Len(e) : k + i - 2 \in 1..Len(d) /\ e[i] = d[k + i - 2]

\* Of the stop that a copy has, one finds its local part again.
LEMMA MergeIs ==
  ASSUME NEW d \in Docs, NEW v \in Version, StopIndex(d) # 0
  PROVE  Merged(d, MergeManagedDoc(d, v), Bundled(v), StopIndex(d))
<1> DEFINE k == StopIndex(d)
           L == Len(d)
           c == Bundled(v)
           b == SubSeq(d, k, L)
           e == c \o b
<1>0. L \in Nat /\ k \in 1..L /\ d[k] \in Stops BY DocsIs, StopIs
<1>1. c \in Docs /\ Len(c) = 1 /\ c[1] \notin Stops BY BundledIs
<1>2. b \in Docs /\ Len(b) = L-k+1 /\ In(b, d, k-1)
  <2>1. k \in 1..L+1 /\ L \in k-1..L BY <1>0
  <2> QED BY <2>1, InSubSeq
<1>3. MergeManagedDoc(d, v) = e BY DEF MergeManagedDoc
<1> HIDE DEF k, L, c, b
<1>4. e \in Docs /\ Len(e) = 1 + Len(b) /\ In(c, e, 0) /\ In(b, e, 1)
  BY <1>1, <1>2, InConcat
<1>5. SubSeq(e, 2, Len(e)) = b /\ SubSeq(e, 1, 1) = c
  <2> DEFINE x == SubSeq(e, 2, Len(e))
             y == SubSeq(e, 1, 1)
  <2>0. Len(e) = L-k+2 BY <1>0, <1>2, <1>4
  <2> HIDE DEF e
  <2>1. x \in Docs /\ Len(x) = Len(b) /\ In(x, e, 1)
    <3>1. /\ 2 \in 1..Len(e)+1 /\ Len(e) \in 2-1..Len(e) /\ Len(e) - 2 + 1 = Len(b)
          /\ 2-1 = 1
      BY <1>0, <1>2, <2>0
    <3> QED BY <3>1, <1>4, InSubSeq
  <2>2. y \in Docs /\ Len(y) = 1 /\ In(y, e, 0)
    <3>1. 1 \in 1..Len(e)+1 /\ 1 \in 1-1..Len(e) /\ 1-1+1 = 1 /\ 1-1 = 0
      BY <1>0, <2>0
    <3> QED BY <3>1, <1>4, InSubSeq
  <2> HIDE DEF x, y
  <2>3. \A n \in 1..Len(b) : x[n] = b[n] BY <1>4, <2>1 DEF In
  <2>4. \A n \in 1..Len(c) : y[n] = c[n] BY <1>1, <1>4, <2>2 DEF In
  <2>5. x = b BY <1>2, <2>1, <2>3, SeqEqual DEF Docs
  <2>6. y = c BY <1>1, <2>2, <2>4, SeqEqual DEF Docs
  <2> QED BY <2>5, <2>6 DEF x, y
<1> HIDE DEF e
<1>6. Len(e) = L-k+2 BY <1>0, <1>2, <1>4
<1>7. e[1] = c[1]
  <2>1. 0+1 = 1 /\ 1 \in 1..Len(c) BY <1>1
  <2> QED BY <2>1, <1>4 DEF In
<1>8. ASSUME NEW i \in 2..Len(e) PROVE k+i-2 \in 1..L /\ e[i] = d[k+i-2]
  <2>1. i-1 \in 1..Len(b) /\ 1+(i-1) = i /\ k-1+(i-1) = k+i-2 /\ k+i-2 \in 1..L
    BY <1>0, <1>2, <1>6
  <2>2. e[1+(i-1)] = b[i-1] /\ d[k-1+(i-1)] = b[i-1] BY <2>1, <1>2, <1>4 DEF In
  <2> QED BY <2>1, <2>2
<1>9. StopIndex(e) = 2
  <2>1. 2 \in 2..Len(e) /\ k+2-2 = k BY <1>0, <1>6
  <2>2. e[2] \in Stops BY <1>0, <1>8, <2>1
  <2>3. e[1] \notin Stops BY <1>1, <1>7
  <2>4. 2 \in 1..Len(e) /\ 1 \in 1..Len(e) BY <2>1
  <2>5. StopIndex(e) # 0 /\ StopIndex(e) \in 1..Len(e) /\ e[StopIndex(e)] \in Stops
        /\ \A n \in 1..StopIndex(e)-1 : e[n] \notin Stops
    BY <1>4, <2>2, <2>4, StopIs
  <2>6. ~ (StopIndex(e) > 2)
    <3>1. StopIndex(e) > 2 => 2 \in 1..StopIndex(e)-1 BY <2>5
    <3> QED BY <2>2, <2>5, <3>1
  <2>7. StopIndex(e) # 1 BY <2>3, <2>5
  <2> QED BY <1>4, <2>5, <2>6, <2>7
<1>10. SubSeq(e, 2, Len(e)) = SubSeq(d, k, L) BY <1>5 DEF b
<1>11. Merged(d, e, c, k)
  BY <1>4, <1>5, <1>6, <1>7, <1>8, <1>9, <1>10 DEF Merged, L
<1> QED BY <1>3, <1>11 DEF k, c

\* A file of two lines.
IsTwo(f, x, y) == f \in Docs /\ Len(f) = 2 /\ f[1] = x /\ f[2] = y

\* The bundled line and a stop are two lines.
LEMMA TwoLines ==
  ASSUME NEW c \in Docs, Len(c) = 1, NEW x \in Line
  PROVE  IsTwo(c \o <<x>>, c[1], x)
<1> DEFINE s == <<x>>
           f == c \o s
<1>1. s \in Docs /\ Len(s) = 1 /\ s[1] = x BY DEF Docs
<1> HIDE DEF s
<1>2. f \in Docs /\ Len(f) = Len(c) + Len(s) /\ In(c, f, 0) /\ In(s, f, Len(c))
  BY <1>1, InConcat
<1> HIDE DEF f
<1>3. f[0+1] = c[1]
  <2>1. 1 \in 1..Len(c) OBVIOUS
  <2> QED BY <1>2, <2>1 DEF In
<1>4. f[1+1] = x
  <2>1. 1 \in 1..Len(s) BY <1>1
  <2> QED BY <1>1, <1>2, <2>1 DEF In
<1>5. 0+1 = 1 /\ 1+1 = 2 OBVIOUS
<1>6. IsTwo(f, c[1], x) BY <1>1, <1>2, <1>3, <1>4, <1>5 DEF IsTwo
<1> QED BY <1>6 DEF f, s

\* A copy that is written has no section markers and one stop at most.
LEMMA PrepareType ==
  ASSUME NEW d \in Docs, NEW v \in Version, Bare(d), OneStop(d)
  PROVE  LET e == PrepareManagedDoc(d, v) IN e \in Docs /\ Bare(e) /\ OneStop(e)
<1> DEFINE e == PrepareManagedDoc(d, v)
           c == Bundled(v)
<1>0. Len(d) \in Nat BY DocsIs
<1>c. c \in Docs /\ Len(c) = 1 /\ c[1] \notin Stops /\ ~ Marker(c[1]) BY BundledIs
<1>1. CASE StopIndex(d) > 0
  <2> DEFINE k == StopIndex(d)
             f == MergeManagedDoc(d, v)
  <2>0. k # 0 /\ k \in 1..Len(d) BY <1>1, StopIs
  <2>1. /\ f \in Docs /\ f[1] = c[1] /\ Len(f) = Len(d) - k + 2
        /\ \A i \in 2..Len(f) : k+i-2 \in 1..Len(d) /\ f[i] = d[k+i-2]
    BY <2>0, MergeIs DEF Merged
  <2>2. e = f BY <1>1 DEF PrepareManagedDoc
  <2> HIDE DEF e, f, k, c
  <2>3. \A i \in 1..Len(f) : i = 1 \/ i \in 2..Len(f) BY <1>0, <2>0, <2>1
  <2>4. ASSUME NEW i \in 1..Len(f) PROVE ~ Marker(f[i])
    <3>1. CASE i = 1 BY <3>1, <1>c, <2>1
    <3>2. CASE i \in 2..Len(f) BY <3>2, <2>1 DEF Bare
    <3> QED BY <3>1, <3>2, <2>3
  <2>5. ASSUME NEW i \in 1..Len(f), NEW j \in 1..Len(f), f[i] \in Stops, f[j] \in Stops
        PROVE  i = j
    <3>1. i \in 2..Len(f) /\ j \in 2..Len(f) BY <1>c, <2>1, <2>3, <2>5
    <3>2. k+i-2 = k+j-2 BY <3>1, <2>1, <2>5 DEF OneStop
    <3> QED BY <3>1, <3>2, <2>0, <1>0
  <2>6. Bare(f) /\ OneStop(f) BY <2>4, <2>5 DEF Bare, OneStop
  <2> QED BY <2>1, <2>2, <2>6 DEF e
<1>2. CASE ~ (StopIndex(d) > 0) /\ LocalAppend(d, v)
  BY <1>2 DEF PrepareManagedDoc
<1>3. CASE ~ (StopIndex(d) > 0) /\ ~ LocalAppend(d, v)
  <2> DEFINE f == c \o <<Stop>>
  <2>2. e = f BY <1>3 DEF PrepareManagedDoc
  <2> HIDE DEF e, c
  <2>3. f \in Docs /\ Len(f) = 2 /\ f[1] = c[1] /\ f[2] = Stop
    BY <1>c, StopsAre, TwoLines DEF IsTwo
  <2> HIDE DEF f
  <2>6. \A i \in 1..2 : i = 1 \/ i = 2 OBVIOUS
  <2>7. Bare(f) BY <2>3, <2>6, <1>c, StopsAre DEF Bare
  <2>8. OneStop(f) BY <2>3, <2>6, <1>c DEF OneStop
  <2> QED BY <2>2, <2>3, <2>7, <2>8 DEF e
<1> QED BY <1>1, <1>2, <1>3

-----------------------------------------------------------------------------
(* The invariant *)

\* The inductive invariant: a file that nobody tore has its markers in pairs.
DocsInv ==
  /\ kind \in {"sections", "copy"} /\ doc \in Docs /\ torn \in BOOLEAN /\ edits \in Nat
  /\ kind = "sections" /\ ~ torn => Paired(doc)
  /\ kind = "copy" => Bare(doc) /\ OneStop(doc)

\* A file of any release has.
LEMMA DocsInvInit == Init => DocsInv
<1> SUFFICES ASSUME Init PROVE DocsInv OBVIOUS
<1>0. torn = FALSE /\ edits = 0 BY DEF Init
<1>1. CASE kind = "sections" /\ \E s \in Sections, v \in Version :
                                   doc \in {<<>>, Legacy(s, v), Block(s, v)}
  <2>1. PICK s \in Sections, v \in Version : doc \in {<<>>, Legacy(s, v), Block(s, v)}
    BY <1>1
  <2>2. Mute(<<>>) /\ Mute(Block(s, v)) BY MuteEmpty, BlockIs, MuteSect
  <2>3. Mute(Legacy(s, v))
    <3> DEFINE b == Legacy(s, v)
    <3>1. /\ LBegin(s) \in Line /\ LEnd(s) \in Line /\ <<"text", s, v>> \in Line
          /\ Opener(LBegin(s)) /\ Closing(LBegin(s)) = LEnd(s)
          /\ ~ Marker(<<"text", s, v>>)
      BY MarkersAreLines DEF LBegin, LEnd
    <3>2. /\ b \in Docs /\ Len(b) = 3 /\ b[1] = LBegin(s) /\ b[3] = LEnd(s)
          /\ b[2] = <<"text", s, v>>
      <4>1. b = <<LBegin(s), <<"text", s, v>>, LEnd(s)>> BY DEF Legacy, LBegin, LEnd
      <4> QED BY <3>1, <4>1 DEF Docs
    <3> HIDE DEF b
    <3>3. Sect(b, 1, 3)
      <4>1. Ends(b[1], b[3]) BY <3>1, <3>2 DEF Ends
      <4>2. Free(b, 1, 3)
        <5>1. \A k \in 1+1..3-1 : k = 2 OBVIOUS
        <5> QED BY <5>1, <3>1, <3>2 DEF Free
      <4>3. 1 \in 1..3 /\ 3 \in 1+1..3 OBVIOUS
      <4> QED BY <3>2, <4>1, <4>2, <4>3 DEF Sect
    <3>4. IsSect(b) BY <3>2, <3>3 DEF IsSect
    <3> QED BY <3>4, MuteSect DEF b
  <2>4. Mute(doc) BY <2>1, <2>2, <2>3
  <2> QED BY <1>0, <1>1, <2>4 DEF DocsInv, Mute
<1>2. CASE kind = "copy" /\ \E v \in Version :
                               doc \in {<<>>, Bundled(v), Bundled(v) \o <<OldStop>>}
  <2>1. PICK v \in Version : doc \in {<<>>, Bundled(v), Bundled(v) \o <<OldStop>>}
    BY <1>2
  <2> DEFINE c == Bundled(v)
             f == c \o <<OldStop>>
  <2>2. c \in Docs /\ Len(c) = 1 /\ c[1] \notin Stops /\ ~ Marker(c[1]) BY BundledIs
  <2> HIDE DEF c
  <2>4. f \in Docs /\ Len(f) = 2 /\ f[1] = c[1] /\ f[2] = OldStop
    BY <2>2, StopsAre, TwoLines DEF IsTwo
  <2> HIDE DEF f
  <2>7. \A i \in 1..2 : i = 1 \/ i = 2 OBVIOUS
  <2>8. Bare(f) /\ OneStop(f)
    BY <2>2, <2>4, <2>7, StopsAre DEF Bare, OneStop
  <2>9. \A i \in 1..1 : i = 1 OBVIOUS
  <2>10. Bare(c) /\ OneStop(c) BY <2>2, <2>9 DEF Bare, OneStop
  <2>11. Bare(<<>>) /\ OneStop(<<>>) /\ <<>> \in Docs BY EmptyPaired DEF Bare, OneStop
  <2>12. doc \in {<<>>, c, f} BY <2>1 DEF c, f
  <2>13. doc \in Docs /\ Bare(doc) /\ OneStop(doc)
    BY <2>2, <2>4, <2>8, <2>10, <2>11, <2>12
  <2> QED BY <1>0, <1>2, <2>13 DEF DocsInv
<1> QED BY <1>1, <1>2 DEF Init

\* A write of a file with sections.
LEMMA SectionsWritten ==
  ASSUME DocsInv, NEW d, WriteFile("sections", d), d \in Docs,
         Paired(doc) => Paired(d)
  PROVE  DocsInv'
BY DEF DocsInv, WriteFile

\* A person's line.
LEMMA WriteLineInv ==
  ASSUME DocsInv, NEW u \in Lines, NEW i \in 1..Len(doc)+1, WriteLine(u, i)
  PROVE  DocsInv'
<1> DEFINE d == doc
           x == Own(u)
           e == InsertAt(d, i, x)
<1>1. doc' = e /\ kind' = kind /\ torn' = torn /\ edits' = edits + 1
  BY DEF WriteLine, Person
<1>2. d \in Docs BY DEF DocsInv
<1>3. x \in Line /\ ~ Marker(x) /\ x \notin Stops
  BY DEF Line, Own, Marker, Opener, Closer, Stops, Stop, OldStop
<1> HIDE DEF x
<1>4. /\ e \in Docs /\ Len(e) = Len(d)+1 /\ e[i] = x
      /\ \A k \in 1..Len(d) : e[Later(i, k)] = d[k]
  BY <1>2, <1>3, InsertIs
<1>0. Len(d) \in Nat /\ i \in 1..Len(d)+1 BY <1>2, DocsIs
<1> HIDE DEF e, d
<1>5. Inserted(d, e, i, x) BY <1>0, <1>3, <1>4 DEF Inserted
<1>6. Paired(d) => Paired(e) BY <1>2, <1>4, <1>5, InsertPaired
<1>7. ASSUME NEW k \in 1..Len(e), k # i
      PROVE  \E n \in 1..Len(d) : k = Later(i, n) /\ e[k] = d[n]
  <2>1. CASE k < i
    <3>1. k \in 1..Len(d) /\ Later(i, k) = k BY <2>1, <1>0, <1>4 DEF Later
    <3> QED BY <3>1, <1>4
  <2>2. CASE k > i
    <3>1. k-1 \in 1..Len(d) /\ Later(i, k-1) = k BY <2>2, <1>0, <1>4 DEF Later
    <3> QED BY <3>1, <1>4
  <2> QED BY <2>1, <2>2, <1>7, <1>0, <1>4
<1>8. Bare(d) => Bare(e)
  <2> SUFFICES ASSUME Bare(d), NEW k \in 1..Len(e) PROVE ~ Marker(e[k]) BY DEF Bare
  <2> QED BY <1>3, <1>4, <1>7 DEF Bare
<1>9. OneStop(d) => OneStop(e)
  <2> SUFFICES ASSUME OneStop(d), NEW k \in 1..Len(e), NEW l \in 1..Len(e),
                      e[k] \in Stops, e[l] \in Stops
               PROVE  k = l
    BY DEF OneStop
  <2>1. k # i /\ l # i BY <1>3, <1>4
  <2>2. PICK n \in 1..Len(d) : k = Later(i, n) /\ e[k] = d[n] BY <1>7, <2>1
  <2>3. PICK m \in 1..Len(d) : l = Later(i, m) /\ e[l] = d[m] BY <1>7, <2>1
  <2>4. n = m BY <2>2, <2>3 DEF OneStop
  <2> QED BY <2>2, <2>3, <2>4
<1> QED BY <1>1, <1>2, <1>4, <1>6, <1>8, <1>9 DEF DocsInv, d

\* A line removed by a person, who has torn the file if it was a marker.
LEMMA RemoveLineInv ==
  ASSUME DocsInv, NEW i \in 1..Len(doc), RemoveLine(i)
  PROVE  DocsInv'
<1> DEFINE d == doc
           x == d[i]
           e == RemoveAt(d, i)
<1>1. /\ doc' = e /\ kind' = kind /\ edits' = edits + 1
      /\ torn' = (torn \/ x[1] \in {"begin", "end", "lbegin", "lend"})
  BY DEF RemoveLine, Person
<1>2. d \in Docs BY DEF DocsInv
<1>3. /\ e \in Docs /\ Len(d) = Len(e)+1
      /\ \A k \in 1..Len(e) : d[Later(i, k)] = e[k]
  BY <1>2, RemoveIs
<1>0. Len(e) \in Nat /\ i \in 1..Len(d) BY <1>3, DocsIs
<1>4. torn' = (torn \/ Marker(x)) BY <1>1 DEF Marker, Opener, Closer
<1> HIDE DEF e, d
<1>5. ~ Marker(x) => Inserted(e, d, i, x) BY <1>0, <1>3 DEF Inserted
<1>6. ~ Marker(x) /\ Paired(d) => Paired(e) BY <1>2, <1>3, <1>5, InsertPaired
<1>7. \A k \in 1..Len(e) : Later(i, k) \in 1..Len(d) BY <1>0, <1>3 DEF Later
<1>8. Bare(d) => Bare(e) BY <1>3, <1>7 DEF Bare
<1>9. OneStop(d) => OneStop(e)
  <2> SUFFICES ASSUME OneStop(d), NEW k \in 1..Len(e), NEW l \in 1..Len(e),
                      e[k] \in Stops, e[l] \in Stops
               PROVE  k = l
    BY DEF OneStop
  <2>1. Later(i, k) = Later(i, l) BY <1>3, <1>7 DEF OneStop
  <2> QED BY <2>1, <1>0 DEF Later
<1>10. torn' \in BOOLEAN BY <1>4 DEF DocsInv
<1>11. ~ torn' => ~ torn /\ ~ Marker(x) BY <1>4
<1> QED BY <1>1, <1>3, <1>6, <1>8, <1>9, <1>10, <1>11 DEF DocsInv, d

\* A section copied by a person.
LEMMA CopySectionInv ==
  ASSUME DocsInv, NEW s \in Sections, CopySection(s)
  PROVE  DocsInv'
<1> DEFINE d == doc
           r == LocateSection(d, s)
           m == SubSeq(d, r[1], r[2])
<1>1. doc' = d \o m /\ kind' = kind /\ torn' = torn /\ edits' = edits + 1 /\ r # <<>>
  BY DEF CopySection, Person
<1>2. d \in Docs BY DEF DocsInv
<1> HIDE DEF d
<1>3. PICK i \in 1..Len(d), j \in 1..Len(d) :
        i < j /\ r = <<i, j>> /\ d[i] \in OpensOf(s)
  <2>1. PICK i \in 1..Len(d) : \E j \in i+1..Len(d) : r = <<i, j>> /\ d[i] \in OpensOf(s)
    BY <1>1, <1>2, LocateType
  <2>2. PICK j \in i+1..Len(d) : r = <<i, j>> /\ d[i] \in OpensOf(s) BY <2>1
  <2>3. j \in 1..Len(d) /\ i < j BY <1>2, DocsIs
  <2> QED BY <2>2, <2>3
<1>4. m = SubSeq(d, i, j) BY <1>3
<1>5. m \in Docs
  <2>1. Len(d) \in Nat BY <1>2, DocsIs
  <2>2. i \in 1..Len(d)+1 /\ j \in i-1..Len(d) BY <2>1, <1>3
  <2> QED BY <1>2, <1>4, <2>2, InSubSeq
<1>6. Paired(d) => Paired(m)
  <2> SUFFICES ASSUME Paired(d) PROVE Paired(m) OBVIOUS
  <2>1. PICK k, l \in 1..Len(d) : Sect(d, k, l) /\ r = <<k, l>>
    BY <1>1, <1>2, Located
  <2>2. k = i /\ l = j BY <1>3, <2>1
  <2>3. Around(d, i, j, SubSeq(d, 1, i-1), m, SubSeq(d, j+1, Len(d)))
    BY <1>2, <1>4, <2>1, <2>2, SplitSect
  <2> HIDE DEF m
  <2>4. IsSect(m) BY <2>3 DEF Around
  <2> QED BY <2>4, SectPaired
<1>7. kind # "copy"
  <2>1. Marker(d[i]) BY <1>3, OpensAre DEF Marker
  <2> QED BY <1>3, <2>1 DEF DocsInv, Bare, d
<1> HIDE DEF m
<1>8. d \o m \in Docs /\ (Paired(d) => Paired(d \o m))
  BY <1>2, <1>5, <1>6, InConcat, PairedConcat
<1> QED BY <1>1, <1>7, <1>8 DEF DocsInv, d

\* Every step keeps the markers in pairs.
LEMMA DocsInvNext == DocsInv /\ [Next]_vars => DocsInv'
<1> SUFFICES ASSUME DocsInv, [Next]_vars PROVE DocsInv' OBVIOUS
<1>0. doc \in Docs BY DEF DocsInv
<1>1. ASSUME NEW s \in Sections, NEW v \in Version, Apply(s, v) PROVE DocsInv'
  BY <1>0, <1>1, ApplyType, ApplyKeeps, SectionsWritten DEF Apply
<1>2. ASSUME NEW s \in Sections, Clean(s) PROVE DocsInv'
  BY <1>0, <1>2, CleanType, CleanKeeps, SectionsWritten DEF Clean
<1>3. ASSUME NEW keep \in SUBSET Sections, Prune(keep) PROVE DocsInv'
  BY <1>0, <1>3, PruneType, PruneKeeps, SectionsWritten DEF Prune
<1>4. ASSUME NEW active, NEW retired, NEW existing, NEW v \in Version,
             Reconcile(active, existing, retired, v)
      PROVE  DocsInv'
  BY <1>0, <1>4, ReconcileType, ReconcileKeeps, SectionsWritten DEF Reconcile
<1>5. ASSUME NEW v \in Version, WriteManagedDoc(v) PROVE DocsInv'
  <2> DEFINE e == PrepareManagedDoc(doc, v)
  <2>1. kind = "copy" /\ doc' = e /\ UNCHANGED <<kind, torn, edits>>
    BY <1>5 DEF WriteManagedDoc, WriteFile
  <2>2. e \in Docs /\ Bare(e) /\ OneStop(e) BY <1>0, <2>1, PrepareType DEF DocsInv
  <2> QED BY <2>1, <2>2 DEF DocsInv
<1>6. ASSUME NEW u \in Lines, NEW i \in 1..Len(doc)+1, WriteLine(u, i) PROVE DocsInv'
  BY <1>6, WriteLineInv
<1>7. ASSUME NEW i \in 1..Len(doc), RemoveLine(i) PROVE DocsInv'
  BY <1>7, RemoveLineInv
<1>8. ASSUME NEW s \in Sections, CopySection(s) PROVE DocsInv'
  BY <1>8, CopySectionInv
<1>9. ASSUME Migrate PROVE DocsInv'
  BY <1>0, <1>9, MigratedIs, MigratedPaired, SectionsWritten DEF Migrate
<1>10. CASE UNCHANGED vars BY <1>10 DEF vars, DocsInv
<1> QED BY <1>1, <1>2, <1>3, <1>4, <1>5, <1>6, <1>7, <1>8, <1>9, <1>10 DEF Next

\* Whatever harnez and a person do, as long as no person has removed a marker
\* the markers of a file with sections are in pairs, and a copy has one stop
\* marker at most.
THEOREM DocsInvariant == Spec => []DocsInv
<1>1. Init => DocsInv BY DocsInvInit
<1>2. DocsInv /\ [Next]_vars => DocsInv' BY DocsInvNext
<1> QED BY <1>1, <1>2, PTL DEF Spec

-----------------------------------------------------------------------------
(* The lines of a person are kept *)

\* What UserLinesKept says of a step.
Keeps ==
  edits' = edits /\ ~ torn =>
    \/ kind = "sections" /\ Loose(doc') = Loose(doc)
    \/ kind = "copy" /\ (StopIndex(doc) > 0 =>
                           SubSeq(doc, StopIndex(doc), Len(doc))
                             = SubSeq(doc', StopIndex(doc'), Len(doc')))

\* Every write of sections keeps the loose lines.
LEMMA SectionsKeep ==
  ASSUME NEW d, WriteFile("sections", d), Loose(d) = Loose(doc)
  PROVE  Keeps
BY DEF Keeps, WriteFile

\* A write of a copy keeps its local part.
LEMMA CopyKeeps ==
  ASSUME DocsInv, NEW v \in Version, WriteManagedDoc(v)
  PROVE  Keeps
<1>1. kind = "copy" /\ doc' = PrepareManagedDoc(doc, v) /\ doc \in Docs
  BY DEF WriteManagedDoc, WriteFile, DocsInv
<1>2. CASE StopIndex(doc) > 0
  <2> DEFINE e == MergeManagedDoc(doc, v)
  <2>1. doc' = e BY <1>1, <1>2 DEF PrepareManagedDoc
  <2>2. StopIndex(e) = 2 /\ SubSeq(e, 2, Len(e)) = SubSeq(doc, StopIndex(doc), Len(doc))
    <3>1. StopIndex(doc) # 0 BY <1>2
    <3>2. Merged(doc, e, Bundled(v), StopIndex(doc)) BY <1>1, <3>1, MergeIs
    <3> HIDE DEF e
    <3> QED BY <3>2 DEF Merged
  <2> HIDE DEF e
  <2> QED BY <1>1, <2>1, <2>2 DEF Keeps
<1> QED BY <1>1, <1>2 DEF Keeps

\* Every step keeps what it says.
LEMMA NextKeeps == DocsInv /\ Next => Keeps
<1> SUFFICES ASSUME DocsInv, Next PROVE Keeps OBVIOUS
<1>0. doc \in Docs /\ edits \in Nat BY DEF DocsInv
<1>p. CASE ~ (edits' = edits /\ ~ torn) BY <1>p DEF Keeps
<1>q. CASE edits' = edits /\ ~ torn
  <2>1. kind = "sections" => Paired(doc) BY <1>q DEF DocsInv
  <2>2. ASSUME NEW s \in Sections, NEW v \in Version, Apply(s, v) PROVE Keeps
    <3>1. kind = "sections" /\ WriteFile("sections", ApplySection(doc, s, v))
      BY <2>2 DEF Apply, WriteFile
    <3>2. Loose(ApplySection(doc, s, v)) = Loose(doc) BY <1>0, <2>1, <3>1, ApplyKeeps
    <3> QED BY <3>1, <3>2, SectionsKeep
  <2>3. ASSUME NEW s \in Sections, Clean(s) PROVE Keeps
    <3>1. kind = "sections" /\ WriteFile("sections", CleanSection(doc, s))
      BY <2>3 DEF Clean, WriteFile
    <3>2. Loose(CleanSection(doc, s)) = Loose(doc) BY <1>0, <2>1, <3>1, CleanKeeps
    <3> QED BY <3>1, <3>2, SectionsKeep
  <2>4. ASSUME NEW keep \in SUBSET Sections, Prune(keep) PROVE Keeps
    <3>1. kind = "sections" /\ WriteFile("sections", PruneSections(doc, keep))
      BY <2>4 DEF Prune, WriteFile
    <3>2. Loose(PruneSections(doc, keep)) = Loose(doc) BY <1>0, <2>1, <3>1, PruneKeeps
    <3> QED BY <3>1, <3>2, SectionsKeep
  <2>5. ASSUME NEW active, NEW retired, NEW existing, NEW v \in Version,
               Reconcile(active, existing, retired, v)
        PROVE  Keeps
    <3> DEFINE e == ReconcileSections(doc, active, existing, retired, v)
    <3>1. kind = "sections" /\ WriteFile("sections", e)
      BY <2>5 DEF Reconcile, WriteFile
    <3>2. Loose(e) = Loose(doc) BY <1>0, <2>1, <3>1, ReconcileKeeps
    <3> HIDE DEF e
    <3> QED BY <3>1, <3>2, SectionsKeep
  <2>6. ASSUME NEW v \in Version, WriteManagedDoc(v) PROVE Keeps
    BY <2>6, CopyKeeps
  <2>7. ASSUME NEW u, NEW i, WriteLine(u, i) PROVE Keeps
    BY <1>0, <1>q, <2>7 DEF WriteLine, Person
  <2>8. ASSUME NEW i, RemoveLine(i) PROVE Keeps
    BY <1>0, <1>q, <2>8 DEF RemoveLine, Person
  <2>9. ASSUME NEW s, CopySection(s) PROVE Keeps
    BY <1>0, <1>q, <2>9 DEF CopySection, Person
  <2>10. ASSUME Migrate PROVE Keeps
    <3>1. kind = "sections" /\ WriteFile("sections", Migrated(doc))
      BY <2>10 DEF Migrate, WriteFile
    <3>2. Loose(Migrated(doc)) = Loose(doc) BY <1>0, <2>1, <3>1, MigratedLoose
    <3> QED BY <3>1, <3>2, SectionsKeep
  <2> QED BY <2>2, <2>3, <2>4, <2>5, <2>6, <2>7, <2>8, <2>9, <2>10 DEF Next
<1> QED BY <1>p, <1>q

\* UserLinesKept for every number of sections, lines and versions: no write of
\* harnez to a paired file (apply, clean, prune, reconcile, migrate, init copy) loses or
\* moves a person's line outside of the sections, or the local part of a copy.
THEOREM LinesKept == Spec => UserLinesKept
<1>1. DocsInv /\ [Next]_vars => [Keeps]_vars BY NextKeeps
<1>2. Spec => []DocsInv BY DocsInvariant
<1> QED BY <1>1, <1>2, PTL DEF Spec, UserLinesKept, Keeps

-----------------------------------------------------------------------------
(* Reconciliations of torn files *)

\* A line is somewhere in a file.
Has(d, x) == \E n \in 1..Len(d) : d[n] = x

\* The lines of a concatenation are those of its parts.
LEMMA HasConcat ==
  ASSUME NEW a \in Docs, NEW b \in Docs, NEW x
  PROVE  Has(a \o b, x) <=> Has(a, x) \/ Has(b, x)
<1> DEFINE c == a \o b
<1>1. /\ c \in Docs /\ Len(c) = Len(a) + Len(b)
      /\ In(a, c, 0) /\ In(b, c, Len(a))
  BY InConcat
<1>2. Len(a) \in Nat /\ Len(b) \in Nat BY DocsIs
<1> HIDE DEF c
<1>3. \A n \in 1..Len(a) : c[0 + n] = a[n] /\ 0 + n = n /\ n \in 1..Len(c)
  BY <1>1, <1>2 DEF In
<1>4. \A n \in 1..Len(b) : c[Len(a) + n] = b[n] /\ Len(a) + n \in 1..Len(c)
  BY <1>1, <1>2 DEF In
<1>5. Has(a, x) \/ Has(b, x) => Has(c, x) BY <1>3, <1>4 DEF Has
<1>6. ASSUME Has(c, x) PROVE Has(a, x) \/ Has(b, x)
  <2>1. PICK n \in 1..Len(c) : c[n] = x BY <1>6 DEF Has
  <2>2. CASE n <= Len(a)
    <3>1. n \in 1..Len(a) BY <2>2
    <3> QED BY <3>1, <2>1, <1>3 DEF Has
  <2>3. CASE n > Len(a)
    <3>1. n - Len(a) \in 1..Len(b) /\ Len(a) + (n - Len(a)) = n BY <2>3, <1>1, <1>2
    <3>2. b[n - Len(a)] = x BY <3>1, <2>1, <1>4
    <3> QED BY <3>1, <3>2 DEF Has
  <2> QED BY <2>2, <2>3, <1>1, <1>2
<1> QED BY <1>5, <1>6 DEF c

\* The line of a file with one line.
LEMMA HasOne == ASSUME NEW x, NEW y PROVE Has(<<x>>, y) <=> x = y
<1>1. Len(<<x>>) = 1 /\ <<x>>[1] = x /\ 1..1 = {1} OBVIOUS
<1> QED BY <1>1 DEF Has

\* The lines that are written are those of the pieces.
LEMMA HasFlat ==
  ASSUME NEW p \in Seq(Docs), NEW x
  PROVE  Has(Flat(p), x) <=> \E i \in 1..Len(p) : Has(p[i], x)
<1> DEFINE m == Len(p)
           P == Rest(p, Onward(p))
           S == {j \in 1..m+1 : Has(P[j], x) => \E i \in 1..m : Has(p[i], x)}
<1>1. /\ Flat(p) = P[1] /\ P[m+1] = <<>>
      /\ \A j \in 1..m : P[j] = p[j] \o P[j+1]
      /\ \A j \in 1..m+1 : P[j] \in Docs
  BY FlatRest
<1>2. m \in Nat /\ \A j \in 1..m : p[j] \in Docs OBVIOUS
<1>3. \A i \in 1..m : Has(p[i], x) => Has(Flat(p), x)
  BY FlatMember DEF Has
<1> HIDE DEF m, P, S
<1>4. ASSUME NEW j \in 1..m+1, \A l \in j+1..m+1 : l \in S PROVE j \in S
  <2>1. CASE j = m+1
    <3>1. ~ Has(P[j], x) BY <2>1, <1>1 DEF Has
    <3> QED BY <3>1 DEF S
  <2>2. CASE j \in 1..m
    <3>1. j+1 \in S BY <2>2, <1>2, <1>4
    <3> DEFINE a == p[j]
               b == P[j+1]
    <3>2. a \in Docs /\ b \in Docs /\ P[j] = a \o b
      <4>1. j+1 \in 1..m+1 BY <2>2, <1>2
      <4>2. a \in Docs /\ b \in Docs BY <2>2, <4>1, <1>1, <1>2
      <4>3. P[j] = a \o b BY <2>2, <1>1
      <4> QED BY <4>2, <4>3
    <3> HIDE DEF a, b
    <3>3. Has(P[j], x) <=> Has(a, x) \/ Has(b, x) BY <3>2, HasConcat
    <3>4. Has(b, x) => \E i \in 1..m : Has(p[i], x) BY <3>1 DEF S, b
    <3>5. Has(a, x) => \E i \in 1..m : Has(p[i], x) BY <2>2 DEF a
    <3> QED BY <3>3, <3>4, <3>5 DEF S
  <2> QED BY <2>1, <2>2, <1>2
<1>5. m+1 \in Nat BY <1>2
<1>6. \A j \in 1..m+1 : j \in S BY <1>4, <1>5, Downward
<1>7. 1 \in S BY <1>2, <1>6
<1>8. Has(Flat(p), x) => \E i \in 1..m : Has(p[i], x) BY <1>1, <1>7 DEF S
<1> QED BY <1>3, <1>8 DEF m

\* ToSet, in these words.
LEMMA HasToSet == ASSUME NEW d \in Docs, NEW x PROVE x \in ToSet(d) <=> Has(d, x)
<1>1. DOMAIN d = 1..Len(d) BY DEF Docs
<1> QED BY <1>1 DEF ToSet, Has

\* A line of a person in no section.
FreeOwn(d, k) == d[k][1] = "own" /\ ~ Inside(d, k)

\* A loose line is an own line of the file that is in no section.
LEMMA HasLoose ==
  ASSUME NEW d \in Docs, NEW x, Has(Loose(d), x)
  PROVE  \E k \in 1..Len(d) : d[k] = x /\ FreeOwn(d, k)
<1>1. /\ Loose(d) = Flat(Pieces(d)) /\ Pieces(d) \in Seq(Docs)
      /\ Len(Pieces(d)) = Len(d)
  BY LooseIsFlat
<1>2. PICK k \in 1..Len(d) : Has(Pieces(d)[k], x) BY <1>1, HasFlat
<1>3. Pieces(d)[k] = LoosePiece(d, k) BY DEF Pieces
<1>4. CASE FreeOwn(d, k)
  <2>1. Pieces(d)[k] = <<d[k]>> BY <1>3, <1>4 DEF LoosePiece, FreeOwn
  <2> QED BY <1>2, <1>4, <2>1, HasOne
<1>5. CASE ~ FreeOwn(d, k)
  <2>1. Pieces(d)[k] = <<>> BY <1>3, <1>5 DEF LoosePiece, FreeOwn
  <2> QED BY <1>2, <2>1 DEF Has
<1> QED BY <1>4, <1>5

\* A line is in every suffix that starts before it.
LEMMA HasSuffix ==
  ASSUME NEW d \in Docs, NEW i \in 1..Len(d)+1, NEW k \in i..Len(d)
  PROVE  Has(Suffix(d, i), d[k])
<1> DEFINE b == Suffix(d, i)
<1>0. Len(d) \in Nat /\ Len(d) \in i-1..Len(d) BY DocsIs
<1>1. Len(b) = Len(d)-i+1 /\ In(b, d, i-1) BY <1>0, InSubSeq DEF Suffix
<1> HIDE DEF b
<1>2. k-i+1 \in 1..Len(b) /\ i-1+(k-i+1) = k BY <1>0, <1>1
<1>3. b[k-i+1] = d[k] BY <1>1, <1>2 DEF In
<1> QED BY <1>2, <1>3 DEF Has, b

\* Of any file, torn or not, a reconciliation writes each line of a person in
\* no section: what is skipped ends at the first end marker of its name, so
\* that the line would have been inside.
LEMMA RecHasOwn ==
  ASSUME NEW d \in Docs, NEW A, NEW T, NEW v \in Version
  PROVE  \A k \in 1..Len(d) : FreeOwn(d, k) => Has(RecRest(d, A, T, v)[1], d[k])
<1> DEFINE R == RecRest(d, A, T, v)
           L == Len(d)
           S == {i \in 1..L+1 : \A k \in i..L : FreeOwn(d, k) => Has(R[i], d[k])}
<1>0. L \in Nat BY DocsIs
<1>1. Reconciles(d, A, T, v, R) BY RecSteps
<1> HIDE DEF R
<1>2. /\ \A i \in 1..L+1 : R[i] \in Docs
      /\ \A i \in 1..L : ~ IsBegin(d[i]) => R[i] = <<d[i]>> \o R[i+1]
      /\ \A i \in 1..L : IsBegin(d[i]) /\ Malformed(d, i) => R[i] = Suffix(d, i)
      /\ \A i \in 1..L : IsBegin(d[i]) /\ ~ Malformed(d, i) =>
           R[i] = Kept(d, A, T, v, i) \o R[EndAt(d, i)+1]
  BY <1>1 DEF Reconciles
<1> HIDE DEF S
<1>3. ASSUME NEW i \in 1..L+1, \A l \in i+1..L+1 : l \in S PROVE i \in S
  <2>0. CASE i = L+1
    <3>1. i..L = {} BY <1>0, <2>0
    <3> QED BY <3>1 DEF S
  <2>1. CASE i \in 1..L /\ ~ IsBegin(d[i])
    <3> DEFINE b == R[i+1]
               a == <<d[i]>>
    <3>1. i+1 \in S /\ i+1 \in 1..L+1 BY <1>0, <1>3, <2>1
    <3>2. b \in Docs /\ a \in Docs BY <1>2, <2>1, <3>1, DocsIs DEF Docs
    <3>3. R[i] = a \o b BY <1>2, <2>1
    <3>4. Has(a, d[i]) BY HasOne
    <3>5. \A k \in i+1..L : FreeOwn(d, k) => Has(b, d[k]) BY <3>1 DEF S
    <3> HIDE DEF a, b
    <3>6. \A k \in i..L : FreeOwn(d, k) => Has(a, d[k]) \/ Has(b, d[k])
      <4> TAKE k \in i..L
      <4>1. k = i \/ k \in i+1..L BY <1>0
      <4> QED BY <4>1, <3>4, <3>5
    <3>7. \A k \in i..L : FreeOwn(d, k) => Has(R[i], d[k])
      BY <3>2, <3>3, <3>6, HasConcat
    <3> QED BY <3>7 DEF S
  <2>2. CASE i \in 1..L /\ IsBegin(d[i]) /\ Malformed(d, i)
    <3>1. R[i] = Suffix(d, i) BY <1>2, <2>2
    <3>2. \A k \in i..L : Has(R[i], d[k]) BY <3>1, HasSuffix
    <3> QED BY <3>2 DEF S
  <2>3. CASE i \in 1..L /\ IsBegin(d[i]) /\ ~ Malformed(d, i)
    <3> DEFINE e == EndAt(d, i)
               a == Kept(d, A, T, v, i)
               b == R[e+1]
    <3>1. /\ e \in i+1..L /\ d[e] = EndOf(d[i][2]) BY <2>3, WellFormed
    <3>2. e+1 \in S /\ e+1 \in 1..L+1 BY <1>0, <1>3, <2>3, <3>1
    <3>3. a \in Docs /\ b \in Docs /\ R[i] = a \o b
      <4>1. a \in Docs BY <2>3, KeptIsDoc
      <4> QED BY <1>2, <2>3, <3>2, <4>1
    <3>4. \A k \in e+1..L : FreeOwn(d, k) => Has(b, d[k]) BY <3>2 DEF S
    <3>5. ASSUME NEW k \in i..e PROVE ~ FreeOwn(d, k)
      <4>1. CASE k = i BY <4>1, <2>3 DEF FreeOwn, IsBegin
      <4>2. CASE k = e BY <4>2, <3>1 DEF FreeOwn, EndOf
      <4>3. CASE k \in i+1..e-1
        <5>1. Opener(d[i]) /\ From(d, i, Closing(d[i])) = e
          BY <2>3 DEF Opener, IsBegin, Closing, EndAt
        <5>2. k \in 1..L /\ i \in 1..k-1 /\ e > k BY <1>0, <2>3, <3>1, <4>3
        <5>3. Inside(d, k) BY <5>1, <5>2, InsideIs
        <5> QED BY <5>3 DEF FreeOwn
      <4> QED BY <4>1, <4>2, <4>3, <3>1
    <3> HIDE DEF a, b, e
    <3>6. \A k \in i..L : FreeOwn(d, k) => Has(b, d[k])
      <4> TAKE k \in i..L
      <4>1. k \in i..e \/ k \in e+1..L BY <1>0, <3>1
      <4> QED BY <4>1, <3>4, <3>5
    <3>7. \A k \in i..L : FreeOwn(d, k) => Has(R[i], d[k]) BY <3>3, <3>6, HasConcat
    <3> QED BY <3>7 DEF S
  <2> QED BY <2>0, <2>1, <2>2, <2>3, <1>0
<1>4. L+1 \in Nat BY <1>0
<1>5. \A i \in 1..L+1 : i \in S BY <1>3, <1>4, Downward
<1>6. 1 \in S BY <1>0, <1>5
<1> QED BY <1>6 DEF S, R

\* So the loose lines are among those of the reconciled file.
LEMMA OwnKept ==
  ASSUME NEW d \in Docs, NEW A, NEW X, NEW T, NEW v \in Version
  PROVE  ToSet(Loose(d)) \subseteq ToSet(ReconcileSections(d, A, X, T, v))
<1> DEFINE a == RecRest(d, A, T, v)[1]
           b == Blocks(Missing(d, A, X), v)
           e == ReconcileSections(d, A, X, T, v)
<1>1. 1 \in 1..Len(d)+1 BY DocsIs
<1>2. a \in Docs BY <1>1, RecSteps DEF Reconciles
<1>3. b \in Docs BY BlocksIsFlat
<1>4. e = a \o b BY ReconcileIs
<1>5. \A k \in 1..Len(d) : FreeOwn(d, k) => Has(a, d[k]) BY RecHasOwn
<1>6. e \in Docs BY ReconcileType
<1> HIDE DEF a, b, e
<1>7. ASSUME NEW x \in ToSet(Loose(d)) PROVE x \in ToSet(e)
  <2>1. Loose(d) \in Docs BY LooseIsFlat
  <2>2. Has(Loose(d), x) BY <2>1, HasToSet
  <2>3. PICK k \in 1..Len(d) : d[k] = x /\ FreeOwn(d, k) BY <2>2, HasLoose
  <2>4. Has(a, x) BY <2>3, <1>5
  <2>5. Has(e, x) BY <2>4, <1>2, <1>3, <1>4, HasConcat
  <2> QED BY <2>5, <1>6, HasToSet
<1> QED BY <1>7 DEF e

\* A part of a part.
LEMMA InIn ==
  ASSUME NEW a \in Docs, NEW b \in Docs, NEW d \in Docs, NEW p, NEW q,
         In(a, b, p), In(b, d, q)
  PROVE  In(a, d, q + p)
<1>0. Len(a) \in Nat /\ Len(b) \in Nat /\ Len(d) \in Nat BY DocsIs
<1>1. p \in Nat /\ q \in Nat /\ p + Len(a) <= Len(b) /\ q + Len(b) <= Len(d) BY DEF In
<1>2. ASSUME NEW k \in 1..Len(a) PROVE d[q + p + k] = a[k]
  <2>1. p + k \in 1..Len(b) /\ q + (p + k) = q + p + k BY <1>0, <1>1
  <2>2. b[p + k] = a[k] BY DEF In
  <2>3. d[q + (p + k)] = b[p + k] BY <2>1 DEF In
  <2> QED BY <2>1, <2>2, <2>3
<1> QED BY <1>0, <1>1, <1>2 DEF In

\* A file of three parts, with the places of the last two.
Joined(N, P, b, C) ==
  /\ N \in Docs /\ P \o b \in Docs /\ b \o C \in Docs
  /\ N = (P \o b) \o C
  /\ Len(N) = Len(P) + Len(b) + Len(C) /\ Len(P \o b) = Len(P) + Len(b)
  /\ In(b, N, Len(P)) /\ In(C, N, Len(P) + Len(b))

\* P, b and C make one.
LEMMA Join ==
  ASSUME NEW P \in Docs, NEW b \in Docs, NEW C \in Docs
  PROVE  Joined(P \o (b \o C), P, b, C)
<1> DEFINE x == P \o b
           y == b \o C
           N == P \o y
           L == x \o C
<1>0. Len(P) \in Nat /\ Len(b) \in Nat /\ Len(C) \in Nat BY DocsIs
<1>1. x \in Docs /\ Len(x) = Len(P) + Len(b) BY InConcat
<1>2. y \in Docs /\ Len(y) = Len(b) + Len(C) /\ In(b, y, 0) /\ In(C, y, Len(b))
  BY InConcat
<1>3. N = L BY Assoc
<1> HIDE DEF x, y
<1>4. N \in Docs /\ Len(N) = Len(P) + Len(y) /\ In(y, N, Len(P)) BY <1>2, InConcat
<1> HIDE DEF N, L
<1>5. In(b, N, Len(P) + 0) /\ In(C, N, Len(P) + Len(b)) BY <1>2, <1>4, InIn
<1>6. In(b, N, Len(P)) /\ Len(N) = Len(P) + Len(b) + Len(C)
  BY <1>0, <1>2, <1>4, <1>5
<1>7. N = x \o C BY <1>3 DEF L
<1> QED BY <1>1, <1>2, <1>4, <1>5, <1>6, <1>7 DEF Joined, N, x, y

-----------------------------------------------------------------------------
\* An end that is found in a part is found in the whole.
LEMMA FoundIn ==
  ASSUME NEW b \in Docs, NEW N \in Docs, NEW p, In(b, N, p),
         NEW i \in 1..Len(b), EndAt(b, i) # 0
  PROVE  EndAt(N, p + i) = p + EndAt(b, i)
<1> DEFINE e == EndAt(b, i)
           t == EndOf(b[i][2])
<1>0. /\ Len(b) \in Nat /\ Len(N) \in Nat /\ p \in Nat /\ p + Len(b) <= Len(N)
      /\ \A k \in 1..Len(b) : N[p + k] = b[k]
  BY DocsIs DEF In
<1>1. e \in i+1..Len(b) /\ b[e] = t /\ \A k \in i+1..e-1 : b[k] # t BY EndAtIs
<1>2. EndAt(N, p + i) = From(N, p + i, t)
  <2>1. N[p + i] = b[i] BY <1>0
  <2> QED BY <2>1 DEF EndAt
<1> HIDE DEF e, t
<1>3. p + e \in (p + i)+1..Len(N) /\ N[p + e] = t
  <2>1. e \in 1..Len(b) BY <1>1
  <2> QED BY <1>0, <1>1, <2>1
<1>4. ASSUME NEW k \in (p + i)+1..(p + e)-1 PROVE N[k] # t
  <2>1. k - p \in i+1..e-1 /\ k - p \in 1..Len(b) /\ p + (k - p) = k BY <1>0, <1>1
  <2>2. b[k - p] # t BY <1>1, <2>1
  <2>3. N[p + (k - p)] = b[k - p] BY <1>0, <2>1
  <2> QED BY <2>1, <2>2, <2>3
<1>5. N \in Seq(Line) /\ p + i \in Nat BY <1>0, DocsIs
<1> DEFINE q == p + i
           f == p + e
<1>6. q \in Nat /\ f \in q+1..Len(N) /\ N[f] = t /\ \A k \in q+1..f-1 : N[k] # t
  BY <1>3, <1>4, <1>5
<1> HIDE DEF q, f
<1>7. From(N, q, t) = f BY <1>5, <1>6, FromAt
<1> QED BY <1>2, <1>7 DEF q, f, e

\* A section with an end in a part is malformed there when it is in the whole.
LEMMA MalformedIn ==
  ASSUME NEW b \in Docs, NEW N \in Docs, NEW p, In(b, N, p),
         NEW i \in 1..Len(b), EndAt(b, i) # 0
  PROVE  Malformed(N, p + i) <=> Malformed(b, i)
<1> DEFINE e == EndAt(b, i)
<1>0. /\ Len(b) \in Nat /\ p \in Nat /\ \A k \in 1..Len(b) : N[p + k] = b[k]
  BY DocsIs DEF In
<1>1. e \in i+1..Len(b) BY EndAtIs
<1>2. EndAt(N, p + i) = p + e BY FoundIn
<1> HIDE DEF e
<1>3. Malformed(b, i) <=> \E k \in i+1..e-1 : b[k][1] = "begin"
  BY <1>1 DEF Malformed, e
<1>4. Malformed(N, p + i) <=> \E k \in p+i+1..p+e-1 : N[k][1] = "begin"
  BY <1>0, <1>1, <1>2 DEF Malformed
<1>5. ASSUME NEW k \in i+1..e-1 PROVE p + k \in p+i+1..p+e-1 /\ N[p + k] = b[k]
  <2>1. k \in 1..Len(b) BY <1>1
  <2> QED BY <1>0, <1>1, <2>1
<1>6. ASSUME NEW k \in p+i+1..p+e-1 PROVE k - p \in i+1..e-1 /\ N[k] = b[k - p]
  <2>1. k - p \in i+1..e-1 /\ k - p \in 1..Len(b) /\ p + (k - p) = k BY <1>0, <1>1
  <2>2. N[p + (k - p)] = b[k - p] BY <1>0, <2>1
  <2> QED BY <2>1, <2>2
<1> QED BY <1>3, <1>4, <1>5, <1>6

\* The last part of a file shows what is malformed in it.
LEMMA MalformedSuffix ==
  ASSUME NEW b \in Docs, NEW N \in Docs, NEW p, In(b, N, p), p + Len(b) = Len(N),
         NEW i \in 1..Len(b)
  PROVE  Malformed(N, p + i) <=> Malformed(b, i)
<1>1. CASE EndAt(b, i) # 0 BY <1>1, MalformedIn
<1>2. CASE EndAt(b, i) = 0
  <2> DEFINE t == EndOf(b[i][2])
  <2>0. /\ Len(b) \in Nat /\ p \in Nat /\ \A k \in 1..Len(b) : N[p + k] = b[k]
        /\ N \in Seq(Line)
    BY DocsIs DEF In
  <2>1. \A k \in i+1..Len(b) : b[k] # t BY <1>2, EndAtIs
  <2>2. EndAt(N, p + i) = From(N, p + i, t)
    <3>1. N[p + i] = b[i] BY <2>0
    <3> QED BY <3>1 DEF EndAt
  <2> HIDE DEF t
  <2>3. ASSUME NEW k \in (p + i)+1..Len(N) PROVE N[k] # t
    <3>1. k - p \in i+1..Len(b) /\ k - p \in 1..Len(b) /\ p + (k - p) = k BY <2>0
    <3>2. N[p + (k - p)] = b[k - p] BY <2>0, <3>1
    <3> QED BY <2>1, <3>1, <3>2
  <2> DEFINE q == p + i
  <2>4. q \in Nat /\ \A k \in q+1..Len(N) : N[k] # t BY <2>0, <2>3
  <2> HIDE DEF q
  <2>5. From(N, q, t) = 0 BY <2>0, <2>4, FromNone
  <2>6. EndAt(N, p + i) = 0 BY <2>2, <2>5 DEF q
  <2> QED BY <1>2, <2>6 DEF Malformed
<1> QED BY <1>1, <1>2

\* A suffix stands in its file.
LEMMA SuffixIs ==
  ASSUME NEW d \in Docs, NEW i \in 1..Len(d)
  PROVE  /\ Suffix(d, i) \in Docs /\ In(Suffix(d, i), d, i-1)
         /\ Len(Suffix(d, i)) = Len(d)-i+1 /\ Suffix(d, i)[1] = d[i]
<1> DEFINE b == Suffix(d, i)
<1>0. Len(d) \in Nat /\ Len(d) \in i-1..Len(d) /\ i \in 1..Len(d)+1 BY DocsIs
<1>1. b \in Docs /\ Len(b) = Len(d)-i+1 /\ In(b, d, i-1) BY <1>0, InSubSeq DEF Suffix
<1> HIDE DEF b
<1>2. 1 \in 1..Len(b) /\ i-1+1 = i BY <1>0, <1>1
<1>3. b[1] = d[i] BY <1>1, <1>2 DEF In
<1> QED BY <1>1, <1>3 DEF b

\* What the scan stops at stays malformed behind other blocks.
LEMMA MalformedConcat ==
  ASSUME NEW d \in Docs, NEW i \in 1..Len(d), Malformed(d, i),
         NEW M \in Docs, ~ Has(M, EndOf(d[i][2]))
  PROVE  LET C == Suffix(d, i) \o M IN
         C \in Docs /\ Len(C) > 0 /\ C[1] = d[i] /\ Malformed(C, 1)
<1> DEFINE b == Suffix(d, i)
           C == b \o M
           t == EndOf(d[i][2])
<1>0. Len(d) \in Nat /\ Len(M) \in Nat BY DocsIs
<1>1. b \in Docs /\ In(b, d, i-1) /\ Len(b) = Len(d)-i+1 /\ b[1] = d[i] BY SuffixIs
<1> HIDE DEF b, t
<1>2. C \in Docs /\ Len(C) = Len(b) + Len(M) /\ In(b, C, 0) /\ In(M, C, Len(b))
  BY <1>1, InConcat
<1> HIDE DEF C
<1>3. 1 \in 1..Len(b) /\ i-1 + 1 = i /\ 0 + 1 = 1 /\ i-1 + Len(b) = Len(d)
  BY <1>0, <1>1
<1>4. Malformed(b, 1)
  <2>1. Malformed(d, i-1 + 1) <=> Malformed(b, 1) BY <1>1, <1>3, MalformedSuffix
  <2> QED BY <1>3, <2>1
<1>5. C[1] = d[i]
  <2>1. C[0 + 1] = b[1] BY <1>2, <1>3 DEF In
  <2> QED BY <1>1, <1>3, <2>1
<1>6. CASE EndAt(b, 1) # 0
  <2>1. Malformed(C, 0 + 1) <=> Malformed(b, 1) BY <1>1, <1>2, <1>3, <1>6, MalformedIn
  <2> QED BY <1>0, <1>1, <1>2, <1>3, <1>4, <1>5, <2>1 DEF C, b
<1>7. CASE EndAt(b, 1) = 0
  <2>1. \A k \in 1+1..Len(b) : b[k] # t BY <1>1, <1>3, <1>7, EndAtIs DEF t
  <2>2. ASSUME NEW k \in 1+1..Len(C) PROVE C[k] # t
    <3>1. CASE k <= Len(b)
      <4>1. k \in 1..Len(b) /\ 0 + k = k BY <3>1
      <4>2. C[0 + k] = b[k] BY <1>2, <4>1 DEF In
      <4> QED BY <2>1, <3>1, <4>1, <4>2
    <3>2. CASE k > Len(b)
      <4>1. k - Len(b) \in 1..Len(M) /\ Len(b) + (k - Len(b)) = k
        BY <1>0, <1>1, <1>2, <3>2
      <4>2. C[Len(b) + (k - Len(b))] = M[k - Len(b)] BY <1>2, <4>1 DEF In
      <4> QED BY <4>1, <4>2 DEF Has, t
    <3> QED BY <3>1, <3>2, <1>0, <1>1
  <2>3. EndAt(C, 1) = From(C, 1, t) BY <1>5 DEF EndAt, t
  <2>4. C \in Seq(Line) /\ 1 \in Nat BY <1>2, DocsIs
  <2>5. From(C, 1, t) = 0 BY <2>2, <2>4, FromNone
  <2>6. Malformed(C, 1) BY <2>3, <2>5 DEF Malformed
  <2> QED BY <1>0, <1>1, <1>2, <1>5, <2>6 DEF C, b
<1> QED BY <1>6, <1>7

-----------------------------------------------------------------------------
(* What a second reconciliation reproduces *)

\* What is written of C behind P is C.
Fixed(A, T, v, P, C) == RecRest(P \o C, A, T, v)[Len(P)+1] = C

\* The end is reproduced.
LEMMA FixedEnd ==
  ASSUME NEW A, NEW T, NEW v \in Version, NEW P \in Docs
  PROVE  Fixed(A, T, v, P, <<>>)
<1>1. P \o <<>> = P BY Empty
<1>2. RecRest(P, A, T, v)[Len(P)+1] = <<>> BY RecSteps DEF Reconciles
<1> QED BY <1>1, <1>2 DEF Fixed

\* A line that is no begin marker is reproduced.
LEMMA FixedLine ==
  ASSUME NEW A, NEW T, NEW v \in Version, NEW P \in Docs, NEW C \in Docs,
         NEW x \in Line, ~ IsBegin(x), Fixed(A, T, v, P \o <<x>>, C)
  PROVE  Fixed(A, T, v, P, <<x>> \o C)
<1> DEFINE b == <<x>>
           N == P \o (b \o C)
           R == RecRest(N, A, T, v)
           q == P \o b
<1>1. b \in Docs /\ Len(b) = 1 /\ b[1] = x BY DEF Docs
<1> HIDE DEF b
<1>2. /\ N \in Docs /\ N = q \o C /\ Len(N) = Len(P) + Len(b) + Len(C)
      /\ Len(q) = Len(P) + Len(b) /\ In(b, N, Len(P))
  <2>1. Joined(N, P, b, C) BY <1>1, Join
  <2> HIDE DEF N, R
  <2> QED BY <2>1 DEF Joined
<1>3. Fixed(A, T, v, q, C) BY DEF b
<1>4. Reconciles(N, A, T, v, R) BY <1>2, RecSteps
<1>5. R[Len(q)+1] = C BY <1>2, <1>3 DEF Fixed
<1>6. Fixed(A, T, v, P, b \o C) <=> R[Len(P)+1] = b \o C BY DEF Fixed
<1> HIDE DEF N, R, q
<1>7. Len(P) \in Nat /\ Len(C) \in Nat BY DocsIs
<1>8. Len(P)+1 \in 1..Len(N) /\ Len(P)+1+1 = Len(q)+1 /\ 1 \in 1..Len(b)
  BY <1>1, <1>2, <1>7
<1>9. N[Len(P)+1] = x BY <1>1, <1>2, <1>8 DEF In
<1>10. R[Len(P)+1] = <<x>> \o R[Len(P)+1+1] BY <1>4, <1>8, <1>9 DEF Reconciles
<1>11. R[Len(P)+1] = b \o C BY <1>5, <1>8, <1>10 DEF b
<1> QED BY <1>6, <1>11 DEF b

\* A section that a scan takes as one.
Section(b, s) ==
  /\ b \in Docs /\ Len(b) > 1 /\ b[1] = Begin(s) /\ b[Len(b)] = EndOf(s)
  /\ \A k \in 2..Len(b)-1 : ~ IsBegin(b[k]) /\ b[k] # EndOf(s)

\* A section of s ends where it ends.
LEMMA SectionEnds ==
  ASSUME NEW s, NEW b, Section(b, s)
  PROVE  EndAt(b, 1) = Len(b) /\ ~ Malformed(b, 1) /\ 1 \in 1..Len(b)
<1>0. b \in Docs /\ b \in Seq(Line) /\ Len(b) \in Nat /\ 1 \in Nat BY DocsIs DEF Section
<1>1. /\ Len(b) \in 1+1..Len(b) /\ b[Len(b)] = EndOf(s) /\ b[1][2] = s
      /\ \A k \in 1+1..Len(b)-1 : ~ IsBegin(b[k]) /\ b[k] # EndOf(s)
  <2>1. \A k \in 1+1..Len(b)-1 : k \in 2..Len(b)-1 OBVIOUS
  <2> QED BY <1>0, <2>1 DEF Section, Begin
<1>2. From(b, 1, EndOf(s)) = Len(b) BY <1>0, <1>1, FromAt
<1>3. EndAt(b, 1) = Len(b) BY <1>1, <1>2 DEF EndAt
<1>4. ~ Malformed(b, 1) BY <1>0, <1>1, <1>3 DEF Malformed, IsBegin, Section
<1> QED BY <1>0, <1>1, <1>3, <1>4

\* Wherever it stands.
LEMMA SectionIn ==
  ASSUME NEW s, NEW b, Section(b, s), NEW N \in Docs, NEW p, In(b, N, p)
  PROVE  /\ p + 1 \in 1..Len(N) /\ N[p + 1] = Begin(s) /\ IsBegin(N[p + 1])
         /\ EndAt(N, p + 1) = p + Len(b) /\ ~ Malformed(N, p + 1)
         /\ SubSeq(N, p + 1, EndAt(N, p + 1)) = b
<1>0. b \in Docs /\ Len(b) \in Nat /\ Len(N) \in Nat /\ Len(b) > 1 BY DocsIs DEF Section
<1>1. p \in Nat /\ p + Len(b) <= Len(N) /\ \A k \in 1..Len(b) : N[p + k] = b[k] BY DEF In
<1>2. EndAt(b, 1) = Len(b) /\ ~ Malformed(b, 1) /\ 1 \in 1..Len(b) BY SectionEnds
<1>3. EndAt(b, 1) # 0 BY <1>0, <1>2
<1>4. EndAt(N, p + 1) = p + Len(b) BY <1>0, <1>2, <1>3, FoundIn
<1>5. ~ Malformed(N, p + 1) BY <1>0, <1>2, <1>3, MalformedIn
<1>6. N[p + 1] = Begin(s) /\ IsBegin(N[p + 1]) BY <1>1, <1>2 DEF Section, IsBegin, Begin
<1> DEFINE c == SubSeq(N, p+1, p+Len(b))
<1>7. c \in Docs /\ Len(c) = Len(b) /\ In(c, N, p)
  <2>1. /\ p+1 \in 1..Len(N)+1 /\ p+Len(b) \in (p+1)-1..Len(N)
        /\ p+Len(b)-(p+1)+1 = Len(b) /\ (p+1)-1 = p
    BY <1>0, <1>1
  <2> DEFINE i == p+1
             j == p+Len(b)
  <2>2. i \in 1..Len(N)+1 /\ j \in i-1..Len(N) /\ j-i+1 = Len(b) /\ i-1 = p BY <2>1
  <2> HIDE DEF i, j
  <2>3. SubSeq(N, i, j) \in Docs /\ Len(SubSeq(N, i, j)) = j-i+1 /\ In(SubSeq(N, i, j), N, i-1)
    BY <2>2, InSubSeq
  <2> QED BY <2>2, <2>3 DEF i, j
<1> HIDE DEF c
<1>8. \A k \in 1..Len(b) : c[k] = b[k] BY <1>1, <1>7 DEF In
<1>9. c = b BY <1>0, <1>7, <1>8, SeqEqual DEF Docs
<1> QED BY <1>0, <1>1, <1>4, <1>5, <1>6, <1>9 DEF c

\* A section that need not change is reproduced.
LEMMA FixedSection ==
  ASSUME NEW A, NEW T, NEW v \in Version, NEW P \in Docs, NEW C \in Docs,
         NEW s \in Sections, NEW b, Section(b, s),
         s \notin T, s \in A => ~ Has(P, Begin(s)) /\ b = Block(s, v),
         Fixed(A, T, v, P \o b, C)
  PROVE  Fixed(A, T, v, P, b \o C)
<1> DEFINE N == P \o (b \o C)
           R == RecRest(N, A, T, v)
           q == P \o b
           p == Len(P)
           i == p+1
<1>1. b \in Docs BY DEF Section
<1>2. /\ N \in Docs /\ N = q \o C /\ Len(N) = p + Len(b) + Len(C)
      /\ Len(q) = p + Len(b) /\ In(b, N, p) /\ In(P, N, 0)
  <2>1. Joined(N, P, b, C) BY <1>1, Join
  <2> DEFINE y == b \o C
  <2>2. y \in Docs BY <1>1, InConcat
  <2> HIDE DEF y
  <2>3. In(P, P \o y, 0) BY <2>2, InConcat
  <2>4. In(P, N, 0) BY <2>3 DEF y
  <2> HIDE DEF N
  <2> QED BY <2>1, <2>4 DEF Joined
<1>3. Fixed(A, T, v, q, C) OBVIOUS
<1>4. Reconciles(N, A, T, v, R) BY <1>2, RecSteps
<1>5. R[Len(q)+1] = C BY <1>2, <1>3 DEF Fixed
<1>6. Fixed(A, T, v, P, b \o C) <=> R[i] = b \o C BY DEF Fixed
<1> HIDE DEF N, R, q
<1>7. p \in Nat BY DocsIs
<1>8. /\ i \in 1..Len(N) /\ N[i] = Begin(s) /\ IsBegin(N[i])
      /\ EndAt(N, i) = p + Len(b) /\ ~ Malformed(N, i)
      /\ SubSeq(N, i, EndAt(N, i)) = b
  <2> HIDE DEF p
  <2>1. Section(b, s) /\ N \in Docs /\ In(b, N, p) BY <1>2
  <2>2. /\ p+1 \in 1..Len(N) /\ N[p+1] = Begin(s) /\ IsBegin(N[p+1])
        /\ EndAt(N, p+1) = p + Len(b) /\ ~ Malformed(N, p+1)
        /\ SubSeq(N, p+1, EndAt(N, p+1)) = b
    BY <2>1, SectionIn
  <2> QED BY <2>2
<1>9. R[i] = Kept(N, A, T, v, i) \o R[EndAt(N, i)+1] BY <1>4, <1>8 DEF Reconciles
<1>10. R[EndAt(N, i)+1] = C BY <1>2, <1>5, <1>8
<1>11. N[i][2] = s BY <1>8 DEF Begin
<1>12. Kept(N, A, T, v, i) = b
  <2>1. CASE s \in A
    <3>1. ~ Seen(N, i)
      <4> SUFFICES ASSUME NEW k \in 1..i-1, N[k] = N[i] PROVE FALSE BY DEF Seen
      <4>1. k \in 1..Len(P) /\ 0 + k = k BY <1>7
      <4>2. N[0 + k] = P[k] BY <1>2, <4>1 DEF In
      <4>3. P[k] = Begin(s) BY <1>8, <4>1, <4>2
      <4> QED BY <2>1, <4>1, <4>3 DEF Has
    <3> QED BY <2>1, <3>1, <1>11 DEF Kept
  <2>2. CASE s \notin A BY <2>2, <1>8, <1>11 DEF Kept
  <2> QED BY <2>1, <2>2
<1> QED BY <1>6, <1>9, <1>10, <1>12

\* From a malformed section on, everything is reproduced.
LEMMA FixedMalformed ==
  ASSUME NEW A, NEW T, NEW v \in Version, NEW P \in Docs, NEW C \in Docs,
         Len(C) > 0, IsBegin(C[1]), Malformed(C, 1)
  PROVE  Fixed(A, T, v, P, C)
<1> DEFINE N == P \o C
           R == RecRest(N, A, T, v)
           p == Len(P)
           i == p+1
<1>0. p \in Nat /\ Len(C) \in Nat /\ 1 \in 1..Len(C) BY DocsIs
<1>1. N \in Docs /\ Len(N) = p + Len(C) /\ In(C, N, p) BY InConcat
<1>2. Reconciles(N, A, T, v, R) BY <1>1, RecSteps
<1>3. Fixed(A, T, v, P, C) <=> R[i] = C BY DEF Fixed
<1> HIDE DEF N, R
<1>4. i \in 1..Len(N) BY <1>0, <1>1
<1>5. N[i] = C[1] BY <1>0, <1>1 DEF In
<1>6. Malformed(N, i) BY <1>0, <1>1, MalformedSuffix
<1>7. R[i] = Suffix(N, i) BY <1>2, <1>4, <1>5, <1>6 DEF Reconciles
<1> DEFINE b == Suffix(N, i)
<1>8. b \in Docs /\ In(b, N, p) /\ Len(b) = Len(C)
  <2>1. i-1 = p /\ Len(N)-i+1 = Len(C) BY <1>0, <1>1
  <2> QED BY <1>1, <1>4, <2>1, SuffixIs
<1> HIDE DEF b, i
<1>9. \A k \in 1..Len(C) : b[k] = C[k] BY <1>1, <1>8 DEF In
<1>10. b = C BY <1>8, <1>9, SeqEqual DEF Docs
<1> QED BY <1>3, <1>7, <1>10 DEF b

\* A block is a section of its name, and has its markers only.
LEMMA BlockHas ==
  ASSUME NEW s \in Sections, NEW v \in Version
  PROVE  /\ Section(Block(s, v), s)
         /\ \A t : Has(Block(s, v), Begin(t)) => t = s
         /\ \A t : Has(Block(s, v), EndOf(t)) => t = s
         /\ Has(Block(s, v), Begin(s))
<1> DEFINE b == Block(s, v)
<1>1. /\ b \in Docs /\ Len(b) = 3 /\ b[1] = Begin(s) /\ b[3] = EndOf(s)
      /\ b[2] = <<"text", s, v>>
  BY BlockIs
<1> HIDE DEF b
<1>2. \A n \in 1..3 : n = 1 \/ n = 2 \/ n = 3 OBVIOUS
<1>3. \A n \in 1..3 : b[n] \in {Begin(s), EndOf(s), <<"text", s, v>>} BY <1>1, <1>2
<1>4. \A t : Has(b, Begin(t)) => t = s BY <1>1, <1>3 DEF Has, Begin, EndOf
<1>5. \A t : Has(b, EndOf(t)) => t = s BY <1>1, <1>3 DEF Has, Begin, EndOf
<1>6. \A k \in 2..3-1 : k = 2 OBVIOUS
<1>7. Section(b, s) BY <1>1, <1>6 DEF Section, IsBegin, EndOf
<1>8. 1 \in 1..3 OBVIOUS
<1>9. Has(b, Begin(s)) BY <1>1, <1>8 DEF Has
<1> QED BY <1>4, <1>5, <1>7, <1>9 DEF b

\* A well-formed section of a file is one of its name.
LEMMA SectionOf ==
  ASSUME NEW d \in Docs, NEW i \in 1..Len(d), IsBegin(d[i]), ~ Malformed(d, i)
  PROVE  /\ Section(SubSeq(d, i, EndAt(d, i)), d[i][2])
         /\ \A t : Has(SubSeq(d, i, EndAt(d, i)), Begin(t)) => t = d[i][2]
<1> DEFINE e == EndAt(d, i)
           s == d[i][2]
           b == SubSeq(d, i, e)
<1>0. Len(d) \in Nat BY DocsIs
<1>1. /\ e \in i+1..Len(d) /\ d[e] = EndOf(s) /\ d[i] = Begin(s)
      /\ \A k \in i+1..e : ~ IsBegin(d[k])
      /\ \A k \in i+1..e-1 : d[k] # EndOf(s)
  BY WellFormed
<1> HIDE DEF e, s
<1>2. b \in Docs /\ Len(b) = e-i+1 /\ In(b, d, i-1)
  <2>1. i \in 1..Len(d)+1 /\ e \in i-1..Len(d) BY <1>0, <1>1
  <2> QED BY <2>1, InSubSeq
<1> HIDE DEF b
<1>3. ASSUME NEW k \in 1..Len(b) PROVE b[k] = d[i-1+k] BY <1>2 DEF In
<1>4. b[1] = Begin(s)
  <2>1. 1 \in 1..Len(b) /\ i-1+1 = i BY <1>1, <1>2
  <2> QED BY <1>1, <1>3, <2>1
<1>5. b[Len(b)] = EndOf(s)
  <2>1. Len(b) \in 1..Len(b) /\ i-1+Len(b) = e BY <1>1, <1>2
  <2> QED BY <1>1, <1>3, <2>1
<1>6. ASSUME NEW k \in 2..Len(b) PROVE i-1+k \in i+1..e /\ k \in 1..Len(b)
  BY <1>1, <1>2
<1>7. \A k \in 2..Len(b) : ~ IsBegin(b[k]) BY <1>1, <1>3, <1>6
<1>8. ASSUME NEW k \in 2..Len(b)-1 PROVE b[k] # EndOf(s)
  <2>1. i-1+k \in i+1..e-1 /\ k \in 1..Len(b) BY <1>1, <1>2
  <2> QED BY <1>1, <1>3, <2>1
<1>9. Section(b, s)
  <2>1. Len(b) > 1 /\ \A k \in 2..Len(b)-1 : k \in 2..Len(b) BY <1>1, <1>2
  <2> QED BY <1>2, <1>4, <1>5, <1>7, <1>8, <2>1 DEF Section
<1>10. ASSUME NEW t, Has(b, Begin(t)) PROVE t = s
  <2>1. PICK k \in 1..Len(b) : b[k] = Begin(t) BY <1>10 DEF Has
  <2>2. k = 1
    <3>1. k \in 2..Len(b) => ~ IsBegin(b[k]) BY <1>7
    <3>2. IsBegin(b[k]) BY <2>1 DEF IsBegin, Begin
    <3> QED BY <3>1, <3>2, <1>2
  <2> QED BY <2>1, <2>2, <1>4 DEF Begin
<1> QED BY <1>9, <1>10 DEF b, e, s

-----------------------------------------------------------------------------
\* The blocks have the markers of their names only.
LEMMA BlocksHas ==
  ASSUME NEW S, NEW v \in Version
  PROVE  /\ \A t : Has(Blocks(S, v), EndOf(t)) => t \in S
         /\ \A s \in Sections : s \in S => Has(Blocks(S, v), Begin(s))
<1> DEFINE p == BlockPieces(S, v)
<1>1. p \in Seq(Docs) /\ Len(p) = Len(Order) /\ Blocks(S, v) = Flat(p) BY BlocksIsFlat
<1>2. \A n \in 1..Len(Order) : p[n] = IF Order[n] \in S THEN Block(Order[n], v) ELSE <<>>
  BY DEF BlockPieces
<1> HIDE DEF p
<1>3. ASSUME NEW t, Has(Blocks(S, v), EndOf(t)) PROVE t \in S
  <2>1. PICK n \in 1..Len(Order) : Has(p[n], EndOf(t)) BY <1>1, <1>3, HasFlat
  <2>2. CASE Order[n] \in S BY <1>2, <2>1, <2>2, OrderIs, BlockHas
  <2>3. CASE Order[n] \notin S
    <3>1. p[n] = <<>> BY <1>2, <2>3
    <3> QED BY <2>1, <3>1 DEF Has
  <2> QED BY <2>2, <2>3
<1>4. ASSUME NEW s \in Sections, s \in S PROVE Has(Blocks(S, v), Begin(s))
  <2>1. PICK n \in 1..Len(Order) : Order[n] = s BY OrderIs
  <2>2. p[n] = Block(s, v) BY <1>2, <1>4, <2>1
  <2>3. Has(p[n], Begin(s)) BY <2>2, BlockHas
  <2> QED BY <1>1, <2>3, HasFlat
<1> QED BY <1>3, <1>4

\* Blocks whose names are not seen before are reproduced.
LEMMA FixedBlocks ==
  ASSUME NEW A, NEW T, NEW v \in Version, NEW S, \A s \in S : s \notin T,
         NEW P \in Docs, \A s \in S : ~ Has(P, Begin(s))
  PROVE  Fixed(A, T, v, P, Blocks(S, v))
<1> DEFINE p == BlockPieces(S, v)
           B == Rest(p, Onward(p))
           m == Len(Order)
           Fresh(Q, n) == \A k \in n..m : Order[k] \in S => ~ Has(Q, Begin(Order[k]))
           Z == {n \in 1..m+1 : \A Q \in Docs : Fresh(Q, n) => Fixed(A, T, v, Q, B[n])}
<1>1. p \in Seq(Docs) /\ Len(p) = m /\ Blocks(S, v) = Flat(p) BY BlocksIsFlat
<1>2. \A n \in 1..m : p[n] = IF Order[n] \in S THEN Block(Order[n], v) ELSE <<>>
  BY DEF BlockPieces
<1>3. /\ Flat(p) = B[1] /\ B[m+1] = <<>>
      /\ \A n \in 1..m : B[n] = p[n] \o B[n+1]
      /\ \A n \in 1..m+1 : B[n] \in Docs
  BY <1>1, FlatRest
<1>4. m \in Nat BY OrderIs
<1> HIDE DEF p, B, m, Z
<1>5. ASSUME NEW n \in 1..m+1, \A l \in n+1..m+1 : l \in Z PROVE n \in Z
  <2> SUFFICES ASSUME NEW Q \in Docs, Fresh(Q, n) PROVE Fixed(A, T, v, Q, B[n])
    BY DEF Z
  <2>1. CASE n = m+1 BY <2>1, <1>3, FixedEnd
  <2>2. CASE n \in 1..m
    <3> DEFINE C == B[n+1]
               s == Order[n]
               b == Block(s, v)
    <3>1. n+1 \in 1..m+1 /\ n+1 \in Z BY <1>4, <1>5, <2>2
    <3>2. C \in Docs BY <3>1, <1>3
    <3>3. \A q \in Docs : Fresh(q, n+1) => Fixed(A, T, v, q, C) BY <3>1 DEF Z
    <3>4. CASE s \notin S
      <4>1. B[n] = <<>> \o C BY <3>4, <2>2, <1>2, <1>3
      <4>2. B[n] = C BY <4>1, <3>2, Empty
      <4>3. Fresh(Q, n+1)
        <5>1. \A k \in n+1..m : k \in n..m BY <1>4
        <5> QED BY <5>1
      <4> QED BY <4>2, <4>3, <3>3
    <3>5. CASE s \in S
      <4>1. B[n] = b \o C BY <3>5, <2>2, <1>2, <1>3
      <4>2. s \in Sections BY <2>2, OrderIs DEF m
      <4>3. Section(b, s) /\ b \in Docs /\ \A t : Has(b, Begin(t)) => t = s
        BY <4>2, BlockHas DEF Section
      <4>4. ~ Has(Q, Begin(s))
        <5>1. n \in n..m BY <2>2, <1>4
        <5> QED BY <3>5, <5>1
      <4>5. b = Block(s, v) OBVIOUS
      <4> DEFINE q == Q \o b
      <4>6. Fresh(q, n+1)
        <5> SUFFICES ASSUME NEW k \in n+1..m, Order[k] \in S, Has(q, Begin(Order[k]))
                     PROVE  FALSE
          OBVIOUS
        <5>1. k \in n..m /\ k \in 1..m /\ k # n BY <2>2, <1>4
        <5>2. ~ Has(Q, Begin(Order[k])) BY <5>1
        <5>3. Has(b, Begin(Order[k])) BY <5>2, <4>3, HasConcat
        <5>4. Order[k] = Order[n] BY <5>3, <4>3
        <5> QED BY <5>1, <5>4, <2>2, OrderIs DEF m
      <4>7. q \in Docs BY <4>3, InConcat
      <4> HIDE DEF C, s, b
      <4>8. Fixed(A, T, v, Q \o b, C) BY <3>3, <4>6, <4>7
      <4>9. s \notin T BY <3>5
      <4>10. Fixed(A, T, v, Q, b \o C)
        BY <3>2, <4>2, <4>3, <4>4, <4>5, <4>8, <4>9, FixedSection
      <4> QED BY <4>1, <4>10
    <3> QED BY <3>4, <3>5
  <2> QED BY <2>1, <2>2, <1>4
<1>6. m+1 \in Nat BY <1>4
<1>7. \A n \in 1..m+1 : n \in Z BY <1>5, <1>6, Downward
<1>8. 1 \in Z BY <1>4, <1>7
<1>9. Fresh(P, 1) OBVIOUS
<1> QED BY <1>1, <1>3, <1>8, <1>9 DEF Z

\* P has the begin markers of the first i-1 lines, as far as A is concerned.
Agree(A, d, P, i) ==
  \A s \in A : Has(P, Begin(s)) <=> \E k \in 1..i-1 : d[k] = Begin(s)

\* The prefixes agree up to behind a section as well.
LEMMA AgreeNext ==
  ASSUME NEW A, NEW d \in Docs, NEW P \in Docs, NEW b \in Docs,
         NEW i \in 1..Len(d), NEW e \in i..Len(d), Agree(A, d, P, i),
         \A k \in i+1..e : ~ IsBegin(d[k]),
         \A s \in A : d[i] = Begin(s) <=> (Has(P, Begin(s)) /\ d[i] = Begin(s)) \/ Has(b, Begin(s))
  PROVE  Agree(A, d, P \o b, e+1)
<1>0. Len(d) \in Nat BY DocsIs
<1> SUFFICES ASSUME NEW s \in A
             PROVE  Has(P \o b, Begin(s)) <=> \E k \in 1..e+1-1 : d[k] = Begin(s)
  BY DEF Agree
<1>1. Has(P \o b, Begin(s)) <=> Has(P, Begin(s)) \/ Has(b, Begin(s)) BY HasConcat
<1>2. Has(P, Begin(s)) <=> \E k \in 1..i-1 : d[k] = Begin(s) BY DEF Agree
<1>3. \A k \in 1..e : k \in 1..i-1 \/ k = i \/ k \in i+1..e BY <1>0
<1>4. \A k \in i+1..e : d[k] # Begin(s) BY DEF IsBegin, Begin
<1>5. (\E k \in 1..e : d[k] = Begin(s)) <=> (\E k \in 1..i-1 : d[k] = Begin(s)) \/ d[i] = Begin(s)
  <2>1. i \in 1..e /\ \A k \in 1..i-1 : k \in 1..e BY <1>0
  <2> QED BY <1>3, <1>4, <2>1
<1>6. 1..e+1-1 = 1..e BY <1>0
<1>7. d[i] = Begin(s) <=> (Has(P, Begin(s)) /\ d[i] = Begin(s)) \/ Has(b, Begin(s)) OBVIOUS
<1> QED BY <1>1, <1>2, <1>5, <1>6, <1>7

\* A second reconciliation reproduces what the first one has written.
LEMMA FixedRec ==
  ASSUME NEW d \in Docs, NEW A, NEW T, A \cap T = {}, NEW v \in Version,
         NEW S, S \subseteq A, \A s \in S : ~ Has(d, Begin(s))
  PROVE  Fixed(A, T, v, <<>>, RecRest(d, A, T, v)[1] \o Blocks(S, v))
<1> DEFINE R == RecRest(d, A, T, v)
           M == Blocks(S, v)
           L == Len(d)
           Z == {i \in 1..L+1 : \A P \in Docs :
                   Agree(A, d, P, i) => Fixed(A, T, v, P, R[i] \o M)}
<1>0. L \in Nat /\ d \in Docs BY DocsIs
<1>1. Reconciles(d, A, T, v, R) BY RecSteps
<1>2. M \in Docs /\ \A t : Has(M, EndOf(t)) => t \in S BY BlocksIsFlat, BlocksHas
<1> HIDE DEF R
<1>3. /\ \A i \in 1..L+1 : R[i] \in Docs
      /\ R[L+1] = <<>>
      /\ \A i \in 1..L : ~ IsBegin(d[i]) => R[i] = <<d[i]>> \o R[i+1]
      /\ \A i \in 1..L : IsBegin(d[i]) /\ Malformed(d, i) => R[i] = Suffix(d, i)
      /\ \A i \in 1..L : IsBegin(d[i]) /\ ~ Malformed(d, i) =>
           R[i] = Kept(d, A, T, v, i) \o R[EndAt(d, i)+1]
  BY <1>1 DEF Reconciles
<1>b. \A P \in Docs : (\A s \in S : ~ Has(P, Begin(s))) => Fixed(A, T, v, P, M)
  <2> TAKE P \in Docs
  <2> HAVE \A s \in S : ~ Has(P, Begin(s))
  <2>1. \A s \in S : s \notin T OBVIOUS
  <2> QED BY <2>1, FixedBlocks
<1> HIDE DEF M, Z
<1>4. ASSUME NEW i \in 1..L+1, \A l \in i+1..L+1 : l \in Z PROVE i \in Z
  <2> SUFFICES ASSUME NEW P \in Docs, Agree(A, d, P, i)
               PROVE  Fixed(A, T, v, P, R[i] \o M)
    BY DEF Z
  <2>1. CASE i = L+1
    <3>1. R[i] \o M = M BY <2>1, <1>2, <1>3, Empty
    <3>2. ASSUME NEW s \in S PROVE ~ Has(P, Begin(s))
      <4>1. ~ \E k \in 1..i-1 : d[k] = Begin(s)
        <5>1. 1..i-1 = 1..L BY <1>0, <2>1
        <5> QED BY <5>1 DEF Has
      <4> QED BY <4>1 DEF Agree
    <3> QED BY <3>1, <3>2, <1>b
  <2>2. CASE i \in 1..L /\ ~ IsBegin(d[i])
    <3> DEFINE b == <<d[i]>>
               r == R[i+1]
               C == r \o M
               q == P \o b
    <3>1. i+1 \in 1..L+1 /\ i+1 \in Z /\ i \in i..L BY <1>0, <1>4, <2>2
    <3>2. r \in Docs /\ b \in Docs BY <3>1, <2>2, <1>3, DocsIs DEF Docs
    <3>3. R[i] = b \o r BY <2>2, <1>3
    <3>4. \A s : ~ Has(b, Begin(s)) /\ d[i] # Begin(s)
      <4>1. \A s : d[i] # Begin(s) BY <2>2 DEF IsBegin, Begin
      <4> QED BY <4>1, HasOne
    <3>5. d[i] \in Line BY <2>2, DocsIs
    <3>6. Agree(A, d, q, i+1)
      <4>1. \A k \in i+1..i : ~ IsBegin(d[k]) OBVIOUS
      <4> HIDE DEF b
      <4> QED BY <2>2, <3>1, <3>2, <3>4, <4>1, <1>0, AgreeNext
    <3> HIDE DEF b, r
    <3>7. q \in Docs /\ C \in Docs BY <3>2, <1>2, InConcat
    <3>8. Fixed(A, T, v, q, C) BY <3>1, <3>6, <3>7 DEF Z, r
    <3>9. (b \o r) \o M = b \o C BY <3>2, <1>2, Assoc
    <3> HIDE DEF C
    <3>10. Fixed(A, T, v, P \o <<d[i]>>, C) BY <3>8 DEF b
    <3>11. Fixed(A, T, v, P, <<d[i]>> \o C) BY <2>2, <3>5, <3>7, <3>10, FixedLine
    <3> QED BY <3>3, <3>9, <3>11 DEF b
  <2>3. CASE i \in 1..L /\ IsBegin(d[i]) /\ Malformed(d, i)
    <3> DEFINE C == Suffix(d, i) \o M
    <3>1. ~ Has(M, EndOf(d[i][2]))
      <4>1. d[i] = Begin(d[i][2]) BY <2>3, DocsIs, LineCases DEF IsBegin
      <4>2. Has(d, Begin(d[i][2])) BY <2>3, <4>1 DEF Has
      <4> QED BY <4>2, <1>2
    <3>2. C \in Docs /\ Len(C) > 0 /\ C[1] = d[i] /\ Malformed(C, 1)
      BY <2>3, <3>1, <1>2, MalformedConcat
    <3>3. R[i] \o M = C BY <2>3, <1>3
    <3> HIDE DEF C
    <3> QED BY <2>3, <3>2, <3>3, FixedMalformed
  <2>4. CASE i \in 1..L /\ IsBegin(d[i]) /\ ~ Malformed(d, i)
    <3> DEFINE e == EndAt(d, i)
               s == d[i][2]
               b == Kept(d, A, T, v, i)
               m == SubSeq(d, i, e)
               r == R[e+1]
               C == r \o M
               q == P \o b
    <3>1. /\ e \in i+1..L /\ s \in Sections /\ d[i] = Begin(s)
          /\ \A k \in i+1..e : ~ IsBegin(d[k])
      BY <2>4, WellFormed
    <3>2. R[i] = b \o r /\ b \in Docs BY <2>4, <1>3, KeptIsDoc
    <3>3. Section(m, s) /\ \A t : Has(m, Begin(t)) => t = s BY <2>4, SectionOf
    <3>4. Section(Block(s, v), s) /\ (\A t : Has(Block(s, v), Begin(t)) => t = s)
          /\ Has(Block(s, v), Begin(s))
      BY <3>1, BlockHas
    <3>5. Seen(d, i) <=> \E k \in 1..i-1 : d[k] = Begin(s) BY <3>1 DEF Seen
    <3>6. s \in A => (Seen(d, i) <=> Has(P, Begin(s))) BY <3>5 DEF Agree
    <3>7. b = IF s \in T \/ (s \in A /\ Seen(d, i)) THEN <<>>
              ELSE IF s \in A THEN Block(s, v) ELSE m
      BY DEF Kept
    <3>8. \A t : d[i] = Begin(t) <=> t = s BY <3>1 DEF Begin
    <3> HIDE DEF e, s, b, m
    <3>9. e+1 \in 1..L+1 /\ e+1 \in Z /\ e \in i..L BY <3>1, <1>0, <1>4
    <3>10. r \in Docs BY <3>9, <1>3
    <3> HIDE DEF r
    <3>11. C \in Docs /\ (b \o r) \o M = b \o C /\ q \in Docs
      BY <3>2, <3>10, <1>2, Assoc, InConcat
    <3>12. Agree(A, d, q, e+1)
      <4>1. \A t : ~ Has(<<>>, Begin(t)) BY DEF Has
      <4>2. ASSUME NEW t \in A
            PROVE  d[i] = Begin(t) <=> (Has(P, Begin(t)) /\ d[i] = Begin(t)) \/ Has(b, Begin(t))
        <5>1. CASE t # s
          <6>1. ~ Has(b, Begin(t)) BY <5>1, <3>3, <3>4, <3>7, <4>1
          <6> QED BY <6>1, <5>1, <3>8
        <5>2. CASE t = s
          <6>1. s \notin T BY <5>2
          <6>2. Has(P, Begin(s)) \/ Has(b, Begin(s)) BY <5>2, <6>1, <3>4, <3>6, <3>7
          <6> QED BY <6>2, <5>2, <3>8
        <5> QED BY <5>1, <5>2
      <4> QED BY <4>2, <2>4, <3>1, <3>2, <3>9, <1>0, AgreeNext
    <3>13. Fixed(A, T, v, q, C) BY <3>9, <3>11, <3>12 DEF Z, r
    <3>14. R[i] \o M = b \o C BY <3>2, <3>11
    <3> HIDE DEF C
    <3>15. CASE s \in T \/ (s \in A /\ Seen(d, i))
      <4>1. b = <<>> BY <3>7, <3>15
      <4>2. q = P /\ b \o C = C BY <4>1, <3>11, Empty
      <4> QED BY <4>2, <3>13, <3>14
    <3>16. CASE ~ (s \in T \/ (s \in A /\ Seen(d, i)))
      <4>1. Section(b, s) /\ (s \in A => b = Block(s, v)) BY <3>3, <3>4, <3>7, <3>16
      <4>2. s \notin T /\ (s \in A => ~ Has(P, Begin(s))) BY <3>6, <3>16
      <4>3. Fixed(A, T, v, P, b \o C)
        BY <3>1, <3>11, <3>13, <4>1, <4>2, FixedSection
      <4> QED BY <3>14, <4>3
    <3> QED BY <3>15, <3>16
  <2> QED BY <2>1, <2>2, <2>3, <2>4, <1>0
<1>5. L+1 \in Nat BY <1>0
<1>6. \A i \in 1..L+1 : i \in Z BY <1>4, <1>5, Downward
<1>7. 1 \in Z BY <1>0, <1>6
<1>8. <<>> \in Docs /\ Agree(A, d, <<>>, 1)
  <2>1. \A t : ~ Has(<<>>, Begin(t)) BY DEF Has
  <2>2. \A k \in 1..1-1 : FALSE OBVIOUS
  <2> QED BY <2>1, <2>2, EmptyPaired DEF Agree
<1> QED BY <1>7, <1>8 DEF Z, R, M

\* The first begin marker of s is in line i or behind it.
Ahead(d, s, i) ==
  (\E k \in i..Len(d) : d[k] = Begin(s)) /\ ~ (\E k \in 1..i-1 : d[k] = Begin(s))

\* An active section that was there is there.
LEMMA RecHasBegin ==
  ASSUME NEW d \in Docs, NEW A, NEW T, A \cap T = {}, NEW v \in Version,
         NEW s \in A, Has(d, Begin(s))
  PROVE  Has(RecRest(d, A, T, v)[1], Begin(s))
<1> DEFINE R == RecRest(d, A, T, v)
           L == Len(d)
           Z == {i \in 1..L+1 : Ahead(d, s, i) => Has(R[i], Begin(s))}
<1>0. L \in Nat BY DocsIs
<1>1. Reconciles(d, A, T, v, R) BY RecSteps
<1> HIDE DEF R
<1>2. /\ \A i \in 1..L+1 : R[i] \in Docs
      /\ \A i \in 1..L : ~ IsBegin(d[i]) => R[i] = <<d[i]>> \o R[i+1]
      /\ \A i \in 1..L : IsBegin(d[i]) /\ Malformed(d, i) => R[i] = Suffix(d, i)
      /\ \A i \in 1..L : IsBegin(d[i]) /\ ~ Malformed(d, i) =>
           R[i] = Kept(d, A, T, v, i) \o R[EndAt(d, i)+1]
  BY <1>1 DEF Reconciles
<1> HIDE DEF Z
<1>3. ASSUME NEW i \in 1..L+1, \A l \in i+1..L+1 : l \in Z PROVE i \in Z
  <2> SUFFICES ASSUME Ahead(d, s, i) PROVE Has(R[i], Begin(s)) BY DEF Z
  <2>0. PICK n \in i..L : d[n] = Begin(s) BY DEF Ahead
  <2>1. i \in 1..L BY <1>0, <2>0
  <2>2. CASE ~ IsBegin(d[i])
    <3> DEFINE a == <<d[i]>>
               b == R[i+1]
    <3>1. i+1 \in 1..L+1 /\ i+1 \in Z BY <1>0, <1>3, <2>1
    <3>2. d[i] # Begin(s) BY <2>2 DEF IsBegin, Begin
    <3>3. Ahead(d, s, i+1)
      <4>1. n \in i+1..L BY <2>0, <3>2, <1>0
      <4>2. \A k \in 1..i+1-1 : k = i \/ k \in 1..i-1 BY <1>0
      <4> QED BY <2>0, <3>2, <4>1, <4>2 DEF Ahead
    <3>4. a \in Docs /\ b \in Docs /\ R[i] = a \o b
      <4>1. d[i] \in Line BY <2>1, DocsIs
      <4>2. a \in Docs BY <4>1 DEF Docs
      <4> QED BY <4>2, <2>1, <2>2, <3>1, <1>2
    <3>5. Has(b, Begin(s)) BY <3>1, <3>3 DEF Z
    <3> HIDE DEF a, b
    <3> QED BY <3>4, <3>5, HasConcat
  <2>3. CASE IsBegin(d[i]) /\ Malformed(d, i)
    <3>1. Has(Suffix(d, i), d[n]) BY <2>0, HasSuffix
    <3> QED BY <3>1, <2>0, <2>1, <2>3, <1>2
  <2>4. CASE IsBegin(d[i]) /\ ~ Malformed(d, i)
    <3> DEFINE e == EndAt(d, i)
               t == d[i][2]
               a == Kept(d, A, T, v, i)
               b == R[e+1]
    <3>1. /\ e \in i+1..L /\ t \in Sections /\ d[i] = Begin(t)
          /\ \A k \in i+1..e : ~ IsBegin(d[k])
      BY <2>1, <2>4, WellFormed
    <3>2. R[i] = a \o b /\ a \in Docs BY <2>1, <2>4, <1>2, KeptIsDoc
    <3>3. e+1 \in 1..L+1 /\ e+1 \in Z BY <3>1, <1>0, <1>3
    <3>4. b \in Docs BY <3>3, <1>2
    <3>5. CASE t = s
      <4>1. ~ Seen(d, i) BY <3>1, <3>5 DEF Seen, Ahead
      <4>2. a = Block(s, v) BY <3>5, <4>1 DEF Kept
      <4>3. Has(a, Begin(s)) BY <4>2, <3>1, <3>5, BlockHas
      <4> HIDE DEF a, b
      <4> QED BY <3>2, <3>4, <4>3, HasConcat
    <3>6. CASE t # s
      <4>1. d[i] # Begin(s) BY <3>1, <3>6 DEF Begin
      <4>2. \A k \in i..e : d[k] # Begin(s)
        <5>1. \A k \in i..e : k = i \/ k \in i+1..e BY <1>0
        <5> QED BY <5>1, <4>1, <3>1 DEF IsBegin, Begin
      <4> HIDE DEF e
      <4>3. Ahead(d, s, e+1)
        <5>1. n \in e+1..L BY <2>0, <4>2, <3>1, <1>0
        <5>2. \A k \in 1..e+1-1 : k \in i..e \/ k \in 1..i-1 BY <3>1, <1>0
        <5>3. \E k \in e+1..L : d[k] = Begin(s) BY <2>0, <5>1
        <5>4. \A k \in 1..i-1 : d[k] # Begin(s) BY DEF Ahead
        <5>5. ~ \E k \in 1..e+1-1 : d[k] = Begin(s) BY <4>2, <5>2, <5>4
        <5>6. e+1 \in Int /\ e+1-1 = e /\ e \in Int BY <3>1
        <5>7. ~ \E k \in 1..e : d[k] = Begin(s) BY <5>5, <5>6
        <5> QED BY <5>3, <5>6, <5>7 DEF Ahead
      <4>4. Has(b, Begin(s)) BY <4>3, <3>3 DEF Z
      <4> HIDE DEF a, b
      <4> QED BY <3>2, <3>4, <4>4, HasConcat
    <3> QED BY <3>5, <3>6
  <2> QED BY <2>2, <2>3, <2>4
<1>4. L+1 \in Nat BY <1>0
<1>5. \A i \in 1..L+1 : i \in Z BY <1>3, <1>4, Downward
<1>6. 1 \in Z BY <1>0, <1>5
<1>7. Ahead(d, s, 1)
  <2>1. \A k \in 1..1-1 : FALSE OBVIOUS
  <2> QED BY <2>1 DEF Has, Ahead
<1> QED BY <1>6, <1>7 DEF Z, R

\* First finds what is there.
LEMMA HasFirst ==
  ASSUME NEW d \in Docs, NEW x PROVE Has(d, x) <=> First(d, x) # 0
BY FirstIs DEF Has

\* A second reconciliation changes nothing, of any file, torn or not.
LEMMA ReconcileTwice ==
  ASSUME NEW d \in Docs, NEW A, NEW X, NEW T, NEW v \in Version,
         A \cap T = {}, A \subseteq Sections
  PROVE  LET new == ReconcileSections(d, A, X, T, v) IN
         ReconcileSections(new, A, X, T, v) = new
<1> DEFINE S == Missing(d, A, X)
           a == RecRest(d, A, T, v)[1]
           b == Blocks(S, v)
           new == ReconcileSections(d, A, X, T, v)
<1>0. 1 \in 1..Len(d)+1 BY DocsIs
<1>1. new \in Docs /\ new = a \o b BY ReconcileType, ReconcileIs
<1>2. a \in Docs BY <1>0, RecSteps DEF Reconciles
<1>3. b \in Docs BY BlocksIsFlat
<1>4. S \subseteq A /\ \A s \in S : ~ Has(d, Begin(s)) BY HasFirst DEF Missing
<1>5. \A s \in A \ X : s \in S \/ Has(d, Begin(s)) BY HasFirst DEF Missing
<1>6. Fixed(A, T, v, <<>>, a \o b) BY <1>4, FixedRec
<1>7. \A s \in A : Has(d, Begin(s)) => Has(a, Begin(s)) BY RecHasBegin
<1>8. \A s \in S : Has(b, Begin(s)) BY <1>4, BlocksHas
<1> HIDE DEF S, a, b, new
<1>9. \A s \in A \ X : Has(new, Begin(s)) BY <1>1, <1>2, <1>3, <1>5, <1>7, <1>8, HasConcat
<1>10. Missing(new, A, X) = {} BY <1>1, <1>9, HasFirst DEF Missing
<1>11. RecRest(new, A, T, v)[1] = new
  <2>1. <<>> \o new = new /\ Len(<<>>) + 1 = 1 BY <1>1, Empty
  <2> QED BY <1>1, <1>6, <2>1 DEF Fixed
<1>12. Blocks({}, v) = <<>>
  <2>1. /\ Blocks({}, v) = Flat(BlockPieces({}, v)) /\ BlockPieces({}, v) \in Seq(Docs)
        /\ Len(BlockPieces({}, v)) = Len(Order)
    BY BlocksIsFlat
  <2>2. \A n \in 1..Len(Order) : BlockPieces({}, v)[n] = <<>> BY DEF BlockPieces
  <2> QED BY <2>1, <2>2, FlatEmpty
<1>13. ReconcileSections(new, A, X, T, v) = new \o <<>>
  BY <1>10, <1>11, <1>12, ReconcileIs
<1>14. ReconcileSections(new, A, X, T, v) = new BY <1>1, <1>13, Empty
<1> QED BY <1>14 DEF new

\* TornFileKept for every number of sections, lines and versions, of every file
\* that a person may have torn: a reconciliation loses no line of the person
\* that is in no section, and a second one changes nothing.
THEOREM TornKept == Spec => []TornFileKept
<1>1. DocsInv => TornFileKept
  <2> SUFFICES ASSUME DocsInv, NEW active \in SUBSET Sections,
                      NEW retired \in SUBSET Sections, NEW existing \in SUBSET Sections,
                      NEW v \in Version, active \cap retired = {}
               PROVE  LET new == ReconcileSections(doc, active, existing, retired, v) IN
                      /\ ToSet(Loose(doc)) \subseteq ToSet(new)
                      /\ ReconcileSections(new, active, existing, retired, v) = new
    BY DEF TornFileKept
  <2>1. doc \in Docs BY DEF DocsInv
  <2> QED BY <2>1, OwnKept, ReconcileTwice
<1>2. Spec => []DocsInv BY DocsInvariant
<1> QED BY <1>1, <1>2, PTL

-----------------------------------------------------------------------------
(* A section and what is around it *)

\* The section m between a and b is the one that is found for s.
At(d, s, a, m, b) ==
  /\ a \in Docs /\ b \in Docs /\ Paired(a) /\ Paired(b) /\ IsSect(m)
  /\ d = (a \o m) \o b
  /\ m[1] \in OpensOf(s) /\ ~ Has(a, m[1])
  /\ m[1] # Begin(s) => ~ Has(a, Begin(s)) /\ ~ Has(b, Begin(s))

\* There is no section of s.
Lacks(d, s) == \A o \in OpensOf(s) : ~ Has(d, o)

\* Absent, in these words.
LEMMA LacksAbsent == ASSUME NEW d, NEW s PROVE Lacks(d, s) <=> Absent(d, s)
BY DEF Lacks, Absent, Has

\* There is none in a concatenation when there is none in its parts.
LEMMA LacksConcat ==
  ASSUME NEW a \in Docs, NEW b \in Docs, NEW s
  PROVE  Lacks(a \o b, s) <=> Lacks(a, s) /\ Lacks(b, s)
<1>1. \A o : Has(a \o b, o) <=> Has(a, o) \/ Has(b, o) BY HasConcat
<1> DEFINE c == a \o b
<1> HIDE DEF c
<1>2. Lacks(c, s) <=> Lacks(a, s) /\ Lacks(b, s) BY <1>1 DEF Lacks, c
<1> QED BY <1>2 DEF c

\* The one begin marker of a section is its first line.
LEMMA SectIs ==
  ASSUME NEW m, IsSect(m)
  PROVE  /\ m \in Docs /\ Paired(m) /\ Len(m) > 1 /\ Sect(m, 1, Len(m))
         /\ \A o \in Line : Opener(o) => (Has(m, o) <=> m[1] = o)
<1>1. m \in Docs /\ Paired(m) /\ Sect(m, 1, Len(m)) BY SectPaired DEF IsSect
<1>2. /\ 1 < Len(m) /\ 1 \in 1..Len(m) /\ Closer(m[Len(m)]) /\ m[Len(m)] \in Line
      /\ \A k \in 1+1..Len(m)-1 : ~ Marker(m[k])
  BY <1>1, SectBounds
<1>0. Len(m) \in Nat BY <1>1, DocsIs
<1>3. ASSUME NEW o \in Line, Opener(o), Has(m, o) PROVE m[1] = o
  <2>1. PICK k \in 1..Len(m) : m[k] = o BY <1>3 DEF Has
  <2>2. k # Len(m) BY <1>2, <1>3, <2>1, NotBoth
  <2>3. k \notin 1+1..Len(m)-1 BY <1>2, <1>3, <2>1 DEF Marker
  <2>4. k = 1 BY <1>0, <2>2, <2>3
  <2> QED BY <2>1, <2>4
<1>4. \A o : m[1] = o => Has(m, o) BY <1>2 DEF Has
<1> QED BY <1>0, <1>1, <1>2, <1>3, <1>4

\* A section of t is not one of s.
LEMMA SectLacks ==
  ASSUME NEW s \in Sections, NEW t \in Sections, s # t, NEW m, IsSect(m),
         m[1] \in OpensOf(t)
  PROVE  Lacks(m, s)
<1>1. \A o \in OpensOf(s) : o \in Line /\ Opener(o) BY OpensAre
<1>2. \A o \in OpensOf(s) : o \notin OpensOf(t) BY DEF OpensOf, Begin
<1> QED BY <1>1, <1>2, SectIs DEF Lacks

\* The block of s is a section of s.
LEMMA BlockSect ==
  ASSUME NEW s \in Sections, NEW v \in Version
  PROVE  /\ IsSect(Block(s, v)) /\ Block(s, v)[1] = Begin(s) /\ Block(s, v) \in Docs
         /\ Paired(Block(s, v)) /\ Begin(s) \in OpensOf(s)
BY BlockIs, SectPaired, OpensAre

-----------------------------------------------------------------------------
\* A part is what stands at its place.
LEMMA InSame ==
  ASSUME NEW d \in Docs, NEW c \in Docs, NEW p, In(c, d, p)
  PROVE  SubSeq(d, p+1, p+Len(c)) = c
<1>0. Len(d) \in Nat /\ Len(c) \in Nat /\ p \in Nat /\ p + Len(c) <= Len(d)
  BY DocsIs DEF In
<1> DEFINE i == p+1
           j == p+Len(c)
           b == SubSeq(d, i, j)
<1>1. i \in 1..Len(d)+1 /\ j \in i-1..Len(d) /\ j-i+1 = Len(c) /\ i-1 = p BY <1>0
<1> HIDE DEF i, j
<1>2. b \in Docs /\ Len(b) = Len(c) /\ In(b, d, p)
  <2>1. b \in Docs /\ Len(b) = j-i+1 /\ In(b, d, i-1) BY <1>1, InSubSeq
  <2> QED BY <1>1, <2>1
<1> HIDE DEF b
<1>3. \A k \in 1..Len(c) : b[k] = c[k] BY <1>2 DEF In
<1>4. b = c BY <1>2, <1>3, SeqEqual DEF Docs
<1> QED BY <1>4 DEF b, i, j

\* What is written in the place of the lines r.
Replaces(d, r, a, b) == \A x : Replace(d, r, x) = (a \o x) \o b

\* The section that is found, its lines m.
Found(d, s, i, j, m) ==
  LocateSection(d, s) = <<i, j>> /\ SubSeq(d, i, j) = m

\* The section m is the one that is found, and a and b stay when it is
\* replaced.
LEMMA AtReplace ==
  ASSUME NEW d, NEW s \in Sections, NEW a, NEW m, NEW b, At(d, s, a, m, b)
  PROVE  /\ d \in Docs /\ Paired(d) /\ ~ Lacks(d, s)
         /\ Found(d, s, Len(a)+1, Len(a)+Len(m), m)
         /\ Replaces(d, <<Len(a)+1, Len(a)+Len(m)>>, a, b)
<1> DEFINE p == Len(a)
           n == Len(m)
           c == a \o m
<1>1. /\ a \in Docs /\ b \in Docs /\ Paired(a) /\ Paired(b) /\ IsSect(m)
      /\ d = c \o b
      /\ m[1] \in OpensOf(s) /\ ~ Has(a, m[1])
      /\ m[1] # Begin(s) => ~ Has(a, Begin(s)) /\ ~ Has(b, Begin(s))
  BY DEF At
<1>2. /\ m \in Docs /\ Paired(m) /\ n > 1 /\ Sect(m, 1, n)
      /\ \A o \in Line : Opener(o) => (Has(m, o) <=> m[1] = o)
  BY <1>1, SectIs
<1>0. p \in Nat /\ n \in Nat /\ Len(b) \in Nat BY <1>1, <1>2, DocsIs
<1>3. c \in Docs /\ Paired(c) /\ Len(c) = p+n /\ In(a, c, 0) /\ In(m, c, p)
  BY <1>1, <1>2, InConcat, PairedConcat
<1> HIDE DEF c
<1>4. /\ c \o b \in Docs /\ Paired(c \o b) /\ Len(c \o b) = Len(c) + Len(b)
      /\ In(c, c \o b, 0) /\ In(b, c \o b, Len(c))
  BY <1>1, <1>3, InConcat, PairedConcat
<1>5. /\ d \in Docs /\ Paired(d) /\ Len(d) = Len(c) + Len(b)
      /\ In(c, d, 0) /\ In(b, d, Len(c))
  BY <1>1, <1>4
<1> HIDE DEF p, n
<1>6. In(a, d, 0) /\ In(m, d, p) /\ In(b, d, p+n) /\ Len(d) = p+n+Len(b)
  <2>1. In(a, d, 0+0) /\ In(m, d, 0+p) BY <1>1, <1>2, <1>3, <1>5, InIn
  <2>2. 0+0 = 0 /\ 0+p = p BY <1>0
  <2> QED BY <2>1, <2>2, <1>3, <1>5
<1>7. Sect(d, p+1, p+n)
  <2>1. 1 \in 1..Len(m) /\ n \in 1..Len(m) BY <1>0, <1>2 DEF n
  <2>2. Sect(m, 1, n) <=> Sect(d, p+1, p+n) BY <1>2, <1>5, <1>6, <2>1, SectIn
  <2> QED BY <1>2, <2>2
<1>8. d[p+1] = m[1]
  <2>1. 1 \in 1..Len(m) BY <1>0, <1>2 DEF n
  <2> QED BY <1>6, <2>1 DEF In
<1>o. OpensOf(s) = {Begin(s), LBegin(s)} /\ Begin(s) \in Line /\ Opener(Begin(s)) BY OpensAre
<1>9. Picked(d, s, p+1)
  <2>1. ASSUME NEW k \in 1..(p+1)-1 PROVE d[k] # d[p+1]
    <3>1. k \in 1..Len(a) /\ 0+k = k BY <1>0 DEF p
    <3>2. d[0+k] = a[k] BY <1>6, <3>1 DEF In
    <3> QED BY <1>1, <1>8, <3>1, <3>2 DEF Has
  <2>2. ASSUME m[1] # Begin(s), NEW k \in 1..Len(d) PROVE d[k] # Begin(s)
    <3>1. ~ Has(c, Begin(s))
      <4>1. ~ Has(a, Begin(s)) /\ ~ Has(m, Begin(s)) BY <1>1, <1>2, <1>o, <2>2
      <4> QED BY <4>1, <1>1, <1>2, HasConcat DEF c
    <3>2. ~ Has(c \o b, Begin(s)) BY <1>1, <1>3, <2>2, <3>1, HasConcat
    <3>3. ~ Has(d, Begin(s)) BY <1>1, <3>2
    <3> QED BY <3>3 DEF Has
  <2> QED BY <1>1, <1>8, <2>1, <2>2 DEF Picked
<1>10. LocateSection(d, s) = <<p+1, p+n>> BY <1>5, <1>7, <1>9, LocateAt
<1>11. SubSeq(d, p+1, p+n) = m BY <1>2, <1>5, <1>6, InSame DEF n
<1>12. SubSeq(d, 1, p) = a
  <2>1. SubSeq(d, 0+1, 0+Len(a)) = a BY <1>1, <1>5, <1>6, InSame
  <2>2. 0+1 = 1 /\ 0+Len(a) = p BY <1>0 DEF p
  <2> QED BY <2>1, <2>2
<1>13. SubSeq(d, p+n+1, Len(d)) = b
  <2>1. SubSeq(d, (p+n)+1, (p+n)+Len(b)) = b BY <1>1, <1>5, <1>6, InSame
  <2> QED BY <2>1, <1>6
<1>14. ASSUME NEW x PROVE Replace(d, <<p+1, p+n>>, x) = (a \o x) \o b
  <2>1. Replace(d, <<p+1, p+n>>, x)
          = (SubSeq(d, 1, (p+1)-1) \o x) \o SubSeq(d, p+n+1, Len(d))
    BY DEF Replace
  <2>2. (p+1)-1 = p BY <1>0
  <2> QED BY <2>1, <2>2, <1>12, <1>13
<1>15. ~ Lacks(d, s)
  <2>1. p+1 \in 1..Len(d) BY <1>0, <1>2, <1>6
  <2>2. Has(d, m[1]) BY <2>1, <1>8 DEF Has
  <2> QED BY <2>2, <1>1 DEF Lacks
<1>16. Replaces(d, <<p+1, p+n>>, a, b) BY <1>14 DEF Replaces
<1>17. Found(d, s, p+1, p+n, m) BY <1>10, <1>11 DEF Found
<1> QED BY <1>5, <1>15, <1>16, <1>17 DEF p, n

\* A section that is there is found between some a and b.
LEMMA AtExists ==
  ASSUME NEW d \in Docs, Paired(d), NEW s \in Sections, ~ Lacks(d, s)
  PROVE  \E a, m, b : At(d, s, a, m, b)
<1>1. PICK i, j \in 1..Len(d) : Sect(d, i, j) /\ Picked(d, s, i)
  BY Located, LacksAbsent
<1> DEFINE a == SubSeq(d, 1, i-1)
           m == SubSeq(d, i, j)
           b == SubSeq(d, j+1, Len(d))
<1>2. Around(d, i, j, a, m, b) BY <1>1, SplitSect
<1> HIDE DEF a, m, b
<1>3. /\ a \in Docs /\ m \in Docs /\ b \in Docs
      /\ Paired(a) /\ Paired(b) /\ IsSect(m)
      /\ Len(a) = i-1 /\ d = (a \o m) \o b
      /\ In(a, d, 0) /\ In(m, d, i-1) /\ In(b, d, j)
  BY <1>2 DEF Around
<1>0. Len(d) \in Nat /\ Len(m) > 1 /\ Len(m) \in Nat BY <1>3, DocsIs, SectIs
<1>4. m[1] = d[i]
  <2>1. 1 \in 1..Len(m) /\ i-1+1 = i BY <1>0
  <2> QED BY <2>1, <1>3 DEF In
<1>5. \A k \in 1..Len(a) : a[k] = d[k] /\ k \in 1..i-1
  <2> TAKE k \in 1..Len(a)
  <2>1. 0+k = k /\ k \in 1..i-1 BY <1>3
  <2> QED BY <2>1, <1>3 DEF In
<1>6. \A k \in 1..Len(b) : b[k] = d[j+k] /\ j+k \in 1..Len(d)
  <2> TAKE k \in 1..Len(b)
  <2>1. Len(b) \in Nat /\ j + Len(b) <= Len(d) BY <1>3, DocsIs DEF In
  <2> QED BY <2>1, <1>3, <1>0 DEF In
<1>7. ~ Has(a, m[1]) BY <1>1, <1>4, <1>5 DEF Has, Picked
<1>8. ASSUME m[1] # Begin(s) PROVE ~ Has(a, Begin(s)) /\ ~ Has(b, Begin(s))
  <2>1. \A k \in 1..Len(d) : d[k] # Begin(s) BY <1>1, <1>4, <1>8 DEF Picked
  <2>2. \A k \in 1..i-1 : k \in 1..Len(d) BY <1>0
  <2> QED BY <2>1, <2>2, <1>5, <1>6 DEF Has
<1>9. m[1] \in OpensOf(s) BY <1>1, <1>4 DEF Picked
<1>10. At(d, s, a, m, b) BY <1>3, <1>7, <1>8, <1>9 DEF At
<1> QED BY <1>10

\* A write puts the block of s between a and b.
Puts(d, s, v, a, b) == ApplySection(d, s, v) = (a \o Block(s, v)) \o b

\* An apply writes the block in the place of the section, or behind the file.
LEMMA ApplyAt ==
  ASSUME NEW d, NEW s \in Sections, NEW v \in Version, NEW a, NEW m, NEW b,
         At(d, s, a, m, b)
  PROVE  /\ Puts(d, s, v, a, b)
         /\ At(ApplySection(d, s, v), s, a, Block(s, v), b)
<1> DEFINE B == Block(s, v)
           l == <<Len(a)+1, Len(a)+Len(m)>>
<1>0. LocateSection(d, s) = l /\ Replaces(d, l, a, b)
  <2>1. Found(d, s, Len(a)+1, Len(a)+Len(m), m) /\ Replaces(d, l, a, b) BY AtReplace
  <2> QED BY <2>1 DEF Found
<1>2. l # <<>> OBVIOUS
<1> HIDE DEF B, l
<1>1. LocateSection(d, s) = l /\ Replace(d, l, B) = (a \o B) \o b BY <1>0 DEF Replaces
<1>3. ApplySection(d, s, v) = (a \o B) \o b BY <1>1, <1>2 DEF ApplySection, B
<1>4. IsSect(B) /\ B[1] = Begin(s) /\ Begin(s) \in OpensOf(s) BY BlockSect DEF B
<1>5. At((a \o B) \o b, s, a, B, b) BY <1>4 DEF At
<1> QED BY <1>3, <1>5 DEF B, Puts

\* The block of a section that is not there comes behind the file.
LEMMA ApplyAbsent ==
  ASSUME NEW d \in Docs, Paired(d), NEW s \in Sections, NEW v \in Version, Lacks(d, s)
  PROVE  /\ LocateSection(d, s) = <<>>
         /\ ApplySection(d, s, v) = d \o Block(s, v)
         /\ At(ApplySection(d, s, v), s, d, Block(s, v), <<>>)
<1> DEFINE B == Block(s, v)
<1>1. LocateSection(d, s) = <<>>
  <2>1. CASE \E i, j \in 1..Len(d) : Picked(d, s, i)
    BY <2>1, LacksAbsent DEF Picked, Absent
  <2> QED BY <2>1, Located
<1>2. ApplySection(d, s, v) = d \o B BY <1>1 DEF ApplySection
<1>3. IsSect(B) /\ B[1] = Begin(s) /\ Begin(s) \in OpensOf(s) /\ B \in Docs BY BlockSect
<1> HIDE DEF B
<1>4. d \o B = (d \o B) \o <<>>
  <2> DEFINE c == d \o B
  <2>1. c \in Docs BY <1>3, InConcat
  <2> HIDE DEF c
  <2>2. c \o <<>> = c BY <2>1, Empty
  <2> QED BY <2>2 DEF c
<1>5. ~ Has(d, Begin(s)) BY <1>3 DEF Lacks
<1>6. At(d \o B, s, d, B, <<>>) BY <1>3, <1>4, <1>5, EmptyPaired DEF At
<1> QED BY <1>1, <1>2, <1>6 DEF B

-----------------------------------------------------------------------------
(* Two sections *)

\* Four files, grouped in two ways.
Regroups(p, x, n, b) == ((p \o x) \o n) \o b = p \o ((x \o n) \o b)

\* Both are the same file.
LEMMA Assoc4 ==
  ASSUME NEW p \in Docs, NEW x \in Docs, NEW n \in Docs, NEW b \in Docs
  PROVE  Regroups(p, x, n, b)
<1> DEFINE y == x \o n
           z == y \o b
           q == p \o x
<1>1. y \in Docs /\ q \in Docs BY InConcat
<1>2. q \o n = p \o y BY Assoc
<1> HIDE DEF y, q
<1>3. (p \o y) \o b = p \o (y \o b) BY <1>1, Assoc
<1>4. (q \o n) \o b = p \o (y \o b) BY <1>2, <1>3
<1> QED BY <1>4 DEF q, y, Regroups

\* The lines of three files.
LEMMA HasThree ==
  ASSUME NEW a \in Docs, NEW m \in Docs, NEW b \in Docs, NEW o
  PROVE  /\ Has((a \o m) \o b, o) <=> Has(a, o) \/ Has(m, o) \/ Has(b, o)
         /\ (a \o m) \o b \in Docs
<1> DEFINE c == a \o m
<1>1. c \in Docs /\ (Has(c, o) <=> Has(a, o) \/ Has(m, o)) BY InConcat, HasConcat
<1> HIDE DEF c
<1>2. c \o b \in Docs /\ (Has(c \o b, o) <=> Has(c, o) \/ Has(b, o))
  BY <1>1, InConcat, HasConcat
<1> QED BY <1>1, <1>2 DEF c

\* Three paired files are a paired one.
LEMMA PairedThree ==
  ASSUME NEW a \in Docs, NEW m \in Docs, NEW b \in Docs, Paired(a), Paired(m), Paired(b)
  PROVE  (a \o m) \o b \in Docs /\ Paired((a \o m) \o b)
<1> DEFINE c == a \o m
<1>1. c \in Docs /\ Paired(c) BY InConcat, PairedConcat
<1> HIDE DEF c
<1>2. c \o b \in Docs /\ Paired(c \o b) BY <1>1, InConcat, PairedConcat
<1> QED BY <1>2 DEF c

\* Sections of s and t that are the ones found, s before t.
Parts(s, a, m, x, t, n, b) ==
  /\ a \in Docs /\ x \in Docs /\ b \in Docs /\ Paired(a) /\ Paired(x) /\ Paired(b)
  /\ IsSect(m) /\ IsSect(n) /\ m[1] \in OpensOf(s) /\ n[1] \in OpensOf(t)
  /\ ~ Has(a, m[1])
  /\ m[1] # Begin(s) => ~ Has(a, Begin(s)) /\ ~ Has(x, Begin(s)) /\ ~ Has(b, Begin(s))
  /\ ~ Has(a, n[1]) /\ ~ Has(x, n[1])
  /\ n[1] # Begin(t) => ~ Has(a, Begin(t)) /\ ~ Has(x, Begin(t)) /\ ~ Has(b, Begin(t))
\* A file with both.
Two(d, s, a, m, x, t, n, b) ==
  Parts(s, a, m, x, t, n, b) /\ d = (a \o m) \o ((x \o n) \o b)

\* Each of them is the one that is found.
LEMMA TwoAt ==
  ASSUME NEW s \in Sections, NEW t \in Sections, s # t, NEW d,
         NEW a, NEW m, NEW x, NEW n, NEW b, Two(d, s, a, m, x, t, n, b)
  PROVE  At(d, s, a, m, (x \o n) \o b) /\ At(d, t, (a \o m) \o x, n, b)
<1>1. /\ a \in Docs /\ x \in Docs /\ b \in Docs /\ Paired(a) /\ Paired(x) /\ Paired(b)
      /\ IsSect(m) /\ IsSect(n) /\ m[1] \in OpensOf(s) /\ n[1] \in OpensOf(t)
      /\ ~ Has(a, m[1])
      /\ m[1] # Begin(s) => ~ Has(a, Begin(s)) /\ ~ Has(x, Begin(s)) /\ ~ Has(b, Begin(s))
      /\ ~ Has(a, n[1]) /\ ~ Has(x, n[1])
      /\ n[1] # Begin(t) => ~ Has(a, Begin(t)) /\ ~ Has(x, Begin(t)) /\ ~ Has(b, Begin(t))
  BY DEF Two, Parts
<1>2. m \in Docs /\ n \in Docs /\ Paired(m) /\ Paired(n) BY <1>1, SectIs
<1>3. Lacks(m, t) /\ Lacks(n, s) BY <1>1, SectLacks
<1>o. Begin(s) \in OpensOf(s) /\ Begin(t) \in OpensOf(t) BY OpensAre
<1> DEFINE y == (x \o n) \o b
           c == (a \o m) \o x
<1>4. y \in Docs /\ Paired(y) /\ \A o : Has(y, o) <=> Has(x, o) \/ Has(n, o) \/ Has(b, o)
  BY <1>1, <1>2, PairedThree, HasThree
<1>5. c \in Docs /\ Paired(c) /\ \A o : Has(c, o) <=> Has(a, o) \/ Has(m, o) \/ Has(x, o)
  BY <1>1, <1>2, PairedThree, HasThree
<1>6. d = (a \o m) \o y BY DEF Two
<1>7. d = (c \o n) \o b
  <2> DEFINE p == a \o m
  <2>1. p \in Docs BY <1>1, <1>2, InConcat
  <2> HIDE DEF p
  <2>2. Regroups(p, x, n, b) BY <1>1, <1>2, <2>1, Assoc4
  <2> QED BY <1>6, <2>2 DEF p, y, c, Regroups
<1> HIDE DEF y, c
<1>8. m[1] # Begin(s) => ~ Has(y, Begin(s)) BY <1>1, <1>3, <1>4, <1>o DEF Lacks
<1>9. ~ Has(c, n[1]) BY <1>1, <1>3, <1>5 DEF Lacks
<1>10. n[1] # Begin(t) => ~ Has(c, Begin(t)) BY <1>1, <1>3, <1>5, <1>o DEF Lacks
<1>11. At(d, s, a, m, y) BY <1>1, <1>4, <1>6, <1>8 DEF At
<1>12. At(d, t, c, n, b) BY <1>1, <1>5, <1>7, <1>9, <1>10 DEF At
<1> QED BY <1>11, <1>12 DEF y, c

\* Each write replaces its own section and leaves the other one.
LEMMA TwoApply ==
  ASSUME NEW s \in Sections, NEW t \in Sections, s # t, NEW d,
         NEW a, NEW m, NEW x, NEW n, NEW b, Two(d, s, a, m, x, t, n, b),
         NEW v \in Version
  PROVE  /\ Two(ApplySection(d, s, v), s, a, Block(s, v), x, t, n, b)
         /\ Two(ApplySection(d, t, v), s, a, m, x, t, Block(t, v), b)
<1> DEFINE B == Block(s, v)
           C == Block(t, v)
<1>1. IsSect(B) /\ B[1] = Begin(s) /\ Begin(s) \in OpensOf(s) BY BlockSect
<1>2. IsSect(C) /\ C[1] = Begin(t) /\ Begin(t) \in OpensOf(t) /\ C \in Docs BY BlockSect
<1>3. Parts(s, a, m, x, t, n, b) BY DEF Two
<1>4. At(d, s, a, m, (x \o n) \o b) /\ At(d, t, (a \o m) \o x, n, b) BY TwoAt
<1>5. ApplySection(d, s, v) = (a \o B) \o ((x \o n) \o b)
  <2> DEFINE y == (x \o n) \o b
  <2>1. At(d, s, a, m, y) BY <1>4
  <2> HIDE DEF y
  <2>2. Puts(d, s, v, a, y) BY <2>1, ApplyAt
  <2> QED BY <2>2 DEF y, Puts, B
<1>6. ApplySection(d, t, v) = (((a \o m) \o x) \o C) \o b
  <2> DEFINE c == (a \o m) \o x
  <2>1. At(d, t, c, n, b) BY <1>4
  <2> HIDE DEF c
  <2>2. Puts(d, t, v, c, b) BY <2>1, ApplyAt
  <2> QED BY <2>2 DEF c, Puts, C
<1> HIDE DEF B, C
<1>7. Parts(s, a, B, x, t, n, b) BY <1>1, <1>3 DEF Parts
<1>8. Parts(s, a, m, x, t, C, b) BY <1>2, <1>3 DEF Parts
<1>9. (((a \o m) \o x) \o C) \o b = (a \o m) \o ((x \o C) \o b)
  <2> DEFINE p == a \o m
  <2>1. a \in Docs /\ x \in Docs /\ b \in Docs /\ m \in Docs BY <1>3, SectIs DEF Parts
  <2>2. p \in Docs BY <2>1, InConcat
  <2> HIDE DEF p
  <2>3. Regroups(p, x, C, b) BY <1>2, <2>1, <2>2, Assoc4
  <2> QED BY <2>3 DEF p, Regroups
<1>10. Two(ApplySection(d, s, v), s, a, B, x, t, n, b) BY <1>5, <1>7 DEF Two
<1>11. Two(ApplySection(d, t, v), s, a, m, x, t, C, b) BY <1>6, <1>8, <1>9 DEF Two
<1> QED BY <1>10, <1>11 DEF B, C

\* The two writes can be done in either order.
LEMMA TwoCommute ==
  ASSUME NEW s \in Sections, NEW t \in Sections, s # t, NEW d,
         NEW a, NEW m, NEW x, NEW n, NEW b, Two(d, s, a, m, x, t, n, b),
         NEW v \in Version, NEW w \in Version
  PROVE  ApplySection(ApplySection(d, s, v), t, w) = ApplySection(ApplySection(d, t, w), s, v)
<1>1. Two(ApplySection(d, s, v), s, a, Block(s, v), x, t, n, b) BY TwoApply
<1>2. Two(ApplySection(d, t, w), s, a, m, x, t, Block(t, w), b) BY TwoApply
<1>3. Two(ApplySection(ApplySection(d, s, v), t, w), s, a, Block(s, v), x, t, Block(t, w), b)
  BY <1>1, TwoApply
<1>4. Two(ApplySection(ApplySection(d, t, w), s, v), s, a, Block(s, v), x, t, Block(t, w), b)
  BY <1>2, TwoApply
<1> QED BY <1>3, <1>4 DEF Two

\* Of two sections that are found, one comes first.
LEMMA Both ==
  ASSUME NEW d \in Docs, Paired(d), NEW s \in Sections, NEW t \in Sections, s # t,
         ~ Lacks(d, s), ~ Lacks(d, t)
  PROVE  \/ \E a, m, x, n, b : Two(d, s, a, m, x, t, n, b)
         \/ \E a, m, x, n, b : Two(d, t, a, m, x, s, n, b)
<1>1. PICK a, m, b : At(d, s, a, m, b) BY AtExists
<1>2. /\ a \in Docs /\ b \in Docs /\ Paired(a) /\ Paired(b) /\ IsSect(m)
      /\ d = (a \o m) \o b
      /\ m[1] \in OpensOf(s) /\ ~ Has(a, m[1])
      /\ m[1] # Begin(s) => ~ Has(a, Begin(s)) /\ ~ Has(b, Begin(s))
  BY <1>1 DEF At
<1>3. m \in Docs /\ Lacks(m, t) BY <1>2, SectIs, SectLacks
<1>o. OpensOf(t) = {Begin(t), LBegin(t)} BY OpensAre
<1>4. \A o \in OpensOf(t) : Has(d, o) <=> Has(a, o) \/ Has(b, o)
  <2>1. \A o : Has((a \o m) \o b, o) <=> Has(a, o) \/ Has(m, o) \/ Has(b, o)
    BY <1>2, <1>3, HasThree
  <2> QED BY <1>2, <1>3, <2>1 DEF Lacks
<1>5. CASE ~ Lacks(a, t) /\ (Has(a, Begin(t)) \/ ~ Has(b, Begin(t)))
  <2>1. PICK c, n, x : At(a, t, c, n, x) BY <1>2, <1>5, AtExists
  <2>2. /\ c \in Docs /\ x \in Docs /\ Paired(c) /\ Paired(x) /\ IsSect(n)
        /\ a = (c \o n) \o x
        /\ n[1] \in OpensOf(t) /\ ~ Has(c, n[1])
        /\ n[1] # Begin(t) => ~ Has(c, Begin(t)) /\ ~ Has(x, Begin(t))
    BY <2>1 DEF At
  <2>3. n \in Docs BY <2>2, SectIs
  <2>4. \A o : Has(a, o) <=> Has(c, o) \/ Has(n, o) \/ Has(x, o)
    BY <2>2, <2>3, HasThree
  <2>5. Begin(t) \in Line /\ Opener(Begin(t)) BY OpensAre
  <2>6. n[1] # Begin(t) => ~ Has(b, Begin(t))
    <3> SUFFICES ASSUME n[1] # Begin(t) PROVE ~ Has(b, Begin(t)) OBVIOUS
    <3>1. ~ Has(n, Begin(t)) BY <2>2, <2>5, SectIs
    <3>2. ~ Has(a, Begin(t)) BY <2>2, <2>4, <3>1
    <3> QED BY <1>5, <3>2
  <2>7. d = (c \o n) \o ((x \o m) \o b)
    <3> DEFINE p == c \o n
    <3>1. p \in Docs /\ a = p \o x BY <2>2, <2>3, InConcat
    <3> HIDE DEF p
    <3>2. Regroups(p, x, m, b) BY <1>2, <1>3, <2>2, <3>1, Assoc4
    <3>3. d = ((p \o x) \o m) \o b BY <1>2, <3>1
    <3> QED BY <3>2, <3>3 DEF p, Regroups
  <2>8. Parts(t, c, n, x, s, m, b)
    <3>1. ~ Has(c, m[1]) /\ ~ Has(x, m[1]) BY <1>2, <2>4
    <3>2. m[1] # Begin(s) => ~ Has(c, Begin(s)) /\ ~ Has(x, Begin(s)) BY <1>2, <2>4
    <3> QED BY <1>2, <2>2, <2>6, <3>1, <3>2 DEF Parts
  <2>9. Two(d, t, c, n, x, s, m, b) BY <2>7, <2>8 DEF Two
  <2> QED BY <2>9
<1>6. CASE ~ Lacks(b, t) /\ ~ Has(a, Begin(t)) /\ (Lacks(a, t) \/ Has(b, Begin(t)))
  <2>1. PICK x, n, c : At(b, t, x, n, c) BY <1>2, <1>6, AtExists
  <2>2. /\ x \in Docs /\ c \in Docs /\ Paired(x) /\ Paired(c) /\ IsSect(n)
        /\ b = (x \o n) \o c
        /\ n[1] \in OpensOf(t) /\ ~ Has(x, n[1])
        /\ n[1] # Begin(t) => ~ Has(x, Begin(t)) /\ ~ Has(c, Begin(t))
    BY <2>1 DEF At
  <2>3. n \in Docs BY <2>2, SectIs
  <2>4. \A o : Has(b, o) <=> Has(x, o) \/ Has(n, o) \/ Has(c, o)
    BY <2>2, <2>3, HasThree
  <2>5. Begin(t) \in Line /\ Opener(Begin(t)) BY OpensAre
  <2>6. ~ Has(a, n[1])
    <3>1. CASE Lacks(a, t) BY <3>1, <2>2 DEF Lacks
    <3>2. CASE Has(b, Begin(t))
      <4>1. n[1] = Begin(t)
        <5> SUFFICES ASSUME n[1] # Begin(t) PROVE FALSE OBVIOUS
        <5>1. ~ Has(n, Begin(t)) BY <2>2, <2>5, SectIs
        <5> QED BY <2>2, <2>4, <3>2, <5>1
      <4> QED BY <4>1, <1>6
    <3> QED BY <3>1, <3>2, <1>6
  <2>7. d = (a \o m) \o ((x \o n) \o c) BY <1>2, <2>2
  <2>8. Parts(s, a, m, x, t, n, c)
    <3>1. m[1] # Begin(s) => ~ Has(x, Begin(s)) /\ ~ Has(c, Begin(s)) BY <1>2, <2>4
    <3> QED BY <1>2, <1>6, <2>2, <2>6, <3>1 DEF Parts
  <2>9. Two(d, s, a, m, x, t, n, c) BY <2>7, <2>8 DEF Two
  <2> QED BY <2>9
<1>7. \/ ~ Lacks(a, t) /\ (Has(a, Begin(t)) \/ ~ Has(b, Begin(t)))
      \/ ~ Lacks(b, t) /\ ~ Has(a, Begin(t)) /\ (Lacks(a, t) \/ Has(b, Begin(t)))
  <2>1. ~ Lacks(a, t) \/ ~ Lacks(b, t) BY <1>4 DEF Lacks
  <2>2. Has(b, Begin(t)) => ~ Lacks(b, t) BY <1>o DEF Lacks
  <2>3. Has(a, Begin(t)) => ~ Lacks(a, t) BY <1>o DEF Lacks
  <2> QED BY <2>1, <2>2, <2>3
<1> QED BY <1>5, <1>6, <1>7

-----------------------------------------------------------------------------
(* Writes of sections *)

\* The empty file behind two.
LEMMA Empties == ASSUME NEW a \in Docs, NEW m \in Docs PROVE (a \o m) \o <<>> = a \o m
<1> DEFINE c == a \o m
<1>1. c \in Docs BY InConcat
<1> HIDE DEF c
<1>2. c \o <<>> = c BY <1>1, Empty
<1> QED BY <1>2 DEF c

\* An apply always leaves its section in one place.
LEMMA ApplyPlace ==
  ASSUME NEW d \in Docs, Paired(d), NEW s \in Sections
  PROVE  \E a, b : \A v \in Version : Puts(d, s, v, a, b)
                                      /\ At(ApplySection(d, s, v), s, a, Block(s, v), b)
<1>1. CASE ~ Lacks(d, s)
  <2>1. PICK a, m, b : At(d, s, a, m, b) BY <1>1, AtExists
  <2>2. \A v \in Version : Puts(d, s, v, a, b)
                           /\ At(ApplySection(d, s, v), s, a, Block(s, v), b)
    BY <2>1, ApplyAt
  <2> QED BY <2>2
<1>2. CASE Lacks(d, s)
  <2>1. ASSUME NEW v \in Version
        PROVE  Puts(d, s, v, d, <<>>) /\ At(ApplySection(d, s, v), s, d, Block(s, v), <<>>)
    <3>1. /\ ApplySection(d, s, v) = d \o Block(s, v)
          /\ At(ApplySection(d, s, v), s, d, Block(s, v), <<>>)
      BY <1>2, ApplyAbsent
    <3>2. (d \o Block(s, v)) \o <<>> = d \o Block(s, v) BY BlockSect, Empties
    <3> QED BY <3>1, <3>2 DEF Puts
  <2> DEFINE e == <<>>
  <2> HIDE DEF e
  <2>2. \A v \in Version : Puts(d, s, v, d, e)
                           /\ At(ApplySection(d, s, v), s, d, Block(s, v), e)
    BY <2>1 DEF e
  <2> QED BY <2>2
<1> QED BY <1>1, <1>2

\* Of two writes of a section the last one counts.
LEMMA ApplySame ==
  ASSUME NEW d \in Docs, Paired(d), NEW s \in Sections, NEW v \in Version, NEW w \in Version
  PROVE  ApplySection(ApplySection(d, s, w), s, v) = ApplySection(d, s, v)
<1>1. PICK a, b : \A u \in Version : Puts(d, s, u, a, b)
                                     /\ At(ApplySection(d, s, u), s, a, Block(s, u), b)
  BY ApplyPlace
<1>2. Puts(ApplySection(d, s, w), s, v, a, b) BY <1>1, ApplyAt
<1>3. Puts(d, s, v, a, b) BY <1>1
<1> QED BY <1>2, <1>3 DEF Puts

\* A write leaves its section and every other one there, and brings no other
\* one.
LEMMA ApplyHas ==
  ASSUME NEW d \in Docs, Paired(d), NEW s \in Sections, NEW t \in Sections, NEW v \in Version
  PROVE  /\ ~ Lacks(ApplySection(d, s, v), s)
         /\ ~ Lacks(d, t) => ~ Lacks(ApplySection(d, s, v), t)
         /\ Has(ApplySection(d, s, v), Begin(t)) => Has(d, Begin(t)) \/ t = s
         /\ Has(ApplySection(d, s, v), LBegin(t)) => Has(d, LBegin(t))
<1> DEFINE f == ApplySection(d, s, v)
           B == Block(s, v)
<1>1. PICK a, b : \A u \in Version : Puts(d, s, u, a, b)
                                     /\ At(ApplySection(d, s, u), s, a, Block(s, u), b)
  BY ApplyPlace
<1>2. f = (a \o B) \o b /\ At(f, s, a, B, b) BY <1>1 DEF Puts
<1>3. ~ Lacks(f, s) BY <1>2, AtReplace
<1>4. a \in Docs /\ b \in Docs BY <1>2 DEF At
<1>5. B \in Docs /\ IsSect(B) /\ B[1] = Begin(s) /\ Begin(s) \in OpensOf(s) BY BlockSect
<1>o. OpensOf(t) = {Begin(t), LBegin(t)} /\ Begin(t) \in Line /\ Opener(Begin(t)) BY OpensAre
<1>6. t # s => Lacks(B, t)
  <2> HIDE DEF B
  <2> QED BY <1>5, SectLacks
<1>l. ~ Has(B, LBegin(t))
  <2>1. LBegin(t) \in Line /\ Opener(LBegin(t)) /\ LBegin(t) # Begin(s)
    BY OpensAre DEF LBegin, Begin
  <2> HIDE DEF B
  <2> QED BY <1>5, <2>1, SectIs
<1> HIDE DEF B, f
<1>7. \A o : Has(f, o) <=> Has(a, o) \/ Has(B, o) \/ Has(b, o) BY <1>2, <1>4, <1>5, HasThree
<1>8. ASSUME t # s PROVE \A o \in OpensOf(t) : Has(d, o) <=> Has(f, o)
  <2>1. CASE Lacks(d, s)
    <3>1. /\ ApplySection(d, s, v) = d \o Block(s, v) BY <2>1, ApplyAbsent
    <3>2. f = d \o B BY <3>1 DEF f, B
    <3>3. \A o : Has(f, o) <=> Has(d, o) \/ Has(B, o) BY <3>2, <1>5, HasConcat
    <3> QED BY <3>3, <1>6, <1>8 DEF Lacks
  <2>2. CASE ~ Lacks(d, s)
    <3>1. PICK p, m, q : At(d, s, p, m, q) BY <2>2, AtExists
    <3>2. p \in Docs /\ q \in Docs /\ IsSect(m) /\ d = (p \o m) \o q /\ m[1] \in OpensOf(s)
      BY <3>1 DEF At
    <3>3. m \in Docs /\ Lacks(m, t) BY <3>2, <1>8, SectIs, SectLacks
    <3>4. \A o : Has(d, o) <=> Has(p, o) \/ Has(m, o) \/ Has(q, o) BY <3>2, <3>3, HasThree
    <3>5. Puts(d, s, v, p, q) BY <3>1, ApplyAt
    <3>6. f = (p \o B) \o q BY <3>5 DEF Puts, f, B
    <3>7. \A o : Has(f, o) <=> Has(p, o) \/ Has(B, o) \/ Has(q, o)
      BY <3>2, <3>6, <1>5, HasThree
    <3> QED BY <3>3, <3>4, <3>7, <1>6, <1>8 DEF Lacks
  <2> QED BY <2>1, <2>2
<1>9. ~ Lacks(d, t) => ~ Lacks(f, t)
  <2>1. CASE t = s BY <2>1, <1>3
  <2>2. CASE t # s BY <2>2, <1>8 DEF Lacks
  <2> QED BY <2>1, <2>2
<1>10. Has(f, Begin(t)) => Has(d, Begin(t)) \/ t = s BY <1>8, <1>o
<1>11. Has(f, LBegin(t)) => Has(d, LBegin(t))
  <2>1. CASE Lacks(d, s)
    <3>1. ApplySection(d, s, v) = d \o Block(s, v) BY <2>1, ApplyAbsent
    <3>2. f = d \o B BY <3>1 DEF f, B
    <3>3. Has(f, LBegin(t)) <=> Has(d, LBegin(t)) \/ Has(B, LBegin(t)) BY <3>2, <1>5, HasConcat
    <3> QED BY <3>3, <1>l
  <2>2. CASE ~ Lacks(d, s)
    <3>1. PICK p, m, q : At(d, s, p, m, q) BY <2>2, AtExists
    <3>2. p \in Docs /\ q \in Docs /\ m \in Docs /\ d = (p \o m) \o q
      BY <3>1, SectIs DEF At
    <3>3. Puts(d, s, v, p, q) BY <3>1, ApplyAt
    <3>4. f = (p \o B) \o q BY <3>3 DEF Puts, f, B
    <3>5. Has(d, LBegin(t)) <=> Has(p, LBegin(t)) \/ Has(m, LBegin(t)) \/ Has(q, LBegin(t))
      BY <3>2, HasThree
    <3>6. Has(f, LBegin(t)) <=> Has(p, LBegin(t)) \/ Has(B, LBegin(t)) \/ Has(q, LBegin(t))
      BY <3>2, <3>4, <1>5, HasThree
    <3> QED BY <3>5, <3>6, <1>l
  <2> QED BY <2>1, <2>2
<1> QED BY <1>3, <1>9, <1>10, <1>11 DEF f

\* A write of one section and a write of another, that is there, commute.
LEMMA Commute ==
  ASSUME NEW d \in Docs, Paired(d), NEW s \in Sections, NEW t \in Sections, s # t,
         NEW v \in Version, NEW w \in Version, ~ Lacks(d, s)
  PROVE  ApplySection(ApplySection(d, t, w), s, v) = ApplySection(ApplySection(d, s, v), t, w)
<1>1. CASE ~ Lacks(d, t)
  <2>1. CASE \E a, m, x, n, b : Two(d, s, a, m, x, t, n, b) BY <2>1, TwoCommute
  <2>2. CASE \E a, m, x, n, b : Two(d, t, a, m, x, s, n, b) BY <2>2, TwoCommute
  <2> QED BY <1>1, <2>1, <2>2, Both
<1>2. CASE Lacks(d, t)
  <2> DEFINE B == Block(s, v)
             C == Block(t, w)
  <2>1. PICK a, m, b : At(d, s, a, m, b) BY AtExists
  <2>2. /\ a \in Docs /\ b \in Docs /\ Paired(a) /\ Paired(b) /\ IsSect(m)
        /\ d = (a \o m) \o b
        /\ m[1] \in OpensOf(s) /\ ~ Has(a, m[1])
        /\ m[1] # Begin(s) => ~ Has(a, Begin(s)) /\ ~ Has(b, Begin(s))
    BY <2>1 DEF At
  <2>3. IsSect(B) /\ B[1] = Begin(s) /\ Begin(s) \in OpensOf(s) /\ B \in Docs BY BlockSect
  <2>4. /\ IsSect(C) /\ C[1] = Begin(t) /\ Begin(t) \in OpensOf(t) /\ C \in Docs /\ Paired(C)
    BY BlockSect
  <2>5. m \in Docs BY <2>2, SectIs
  <2>6. Lacks(C, s) /\ Lacks(B, t)
    <3> HIDE DEF B, C
    <3> QED BY <2>3, <2>4, SectLacks
  <2>7. ApplySection(d, t, w) = d \o C BY <1>2, ApplyAbsent
  <2>8. Puts(d, s, v, a, b) BY <2>1, ApplyAt
  <2>9. ApplySection(d, s, v) = (a \o B) \o b BY <2>8 DEF Puts
  <2>10. Lacks(ApplySection(d, s, v), t)
    <3>1. Lacks(a, t) /\ Lacks(b, t)
      <4>1. \A o : Has(d, o) <=> Has(a, o) \/ Has(m, o) \/ Has(b, o) BY <2>2, <2>5, HasThree
      <4> QED BY <4>1, <1>2 DEF Lacks
    <3> DEFINE f == ApplySection(d, s, v)
    <3> HIDE DEF B, f
    <3>2. \A o : Has(f, o) <=> Has(a, o) \/ Has(B, o) \/ Has(b, o)
      BY <2>2, <2>3, <2>9, HasThree DEF f
    <3>3. Lacks(f, t) BY <3>1, <3>2, <2>6 DEF Lacks
    <3> QED BY <3>3 DEF f
  <2>11. ApplySection(d, s, v) \in Docs /\ Paired(ApplySection(d, s, v)) BY ApplyKeeps
  <2>12. ApplySection(ApplySection(d, s, v), t, w) = ApplySection(d, s, v) \o C
    <3> DEFINE f == ApplySection(d, s, v)
    <3> HIDE DEF f
    <3>1. ApplySection(f, t, w) = f \o Block(t, w) BY <2>10, <2>11, ApplyAbsent DEF f
    <3> QED BY <3>1 DEF f
  <2> HIDE DEF B, C
  <2> DEFINE y == b \o C
  <2>13. y \in Docs /\ Paired(y) BY <2>2, <2>4, InConcat, PairedConcat
  <2>14. d \o C = (a \o m) \o y
    <3> DEFINE p == a \o m
    <3>1. p \in Docs BY <2>2, <2>5, InConcat
    <3> HIDE DEF p
    <3>2. (p \o b) \o C = p \o (b \o C) BY <3>1, <2>2, <2>4, Assoc
    <3> QED BY <3>2, <2>2 DEF p
  <2>15. m[1] # Begin(s) => ~ Has(y, Begin(s)) BY <2>2, <2>3, <2>4, <2>6, HasConcat DEF Lacks
  <2>16. ((a \o B) \o b) \o C = (a \o B) \o y
    <3> DEFINE p == a \o B
    <3>1. p \in Docs BY <2>2, <2>3, InConcat
    <3> HIDE DEF p
    <3>2. (p \o b) \o C = p \o (b \o C) BY <3>1, <2>2, <2>4, Assoc
    <3> QED BY <3>2 DEF p
  <2> HIDE DEF y
  <2>17. At(d \o C, s, a, m, y) BY <2>2, <2>13, <2>14, <2>15 DEF At
  <2>18. ApplySection(d \o C, s, v) = (a \o B) \o y
    <3> DEFINE f == d \o C
    <3> HIDE DEF f
    <3>1. Puts(f, s, v, a, y) BY <2>17, ApplyAt DEF f
    <3> QED BY <3>1 DEF Puts, f, B
  <2> QED BY <2>7, <2>9, <2>12, <2>16, <2>18
<1> QED BY <1>1, <1>2

-----------------------------------------------------------------------------
(* The writes of an init *)

\* The n-th write of an init, and the files after each write from y on.
One(x, conf, n, v) == IF Order[n] \in conf THEN ApplySection(x, Order[n], v) ELSE x
\* All of its writes.
Inits(y, conf, v) ==
  LET file[n \in 0..Len(Order)] ==
        IF n = 0 THEN y
        ELSE IF Order[n] \in conf THEN ApplySection(file[n-1], Order[n], v)
        ELSE file[n-1]
  IN file
\* G are the files after each of them.
Runs(y, conf, v, G) ==
  G[0] = y /\ \A n \in 1..Len(Order) : G[n] = One(G[n-1], conf, n, v)

\* An init prunes what was migrated, then makes these writes, unless a block is
\* malformed.
LEMMA InitWritesIs ==
  ASSUME NEW d, NEW conf, NEW v
  PROVE  /\ BlocksSafe(Migrated(d)) =>
              InitWrites(d, conf, v) = Inits(PruneSections(Migrated(d), conf \cup Sticky), conf, v)
         /\ ~ BlocksSafe(Migrated(d)) =>
              InitWrites(d, conf, v) = [n \in 0..Len(Order) |-> Migrated(d)]
BY DEF InitWrites, Inits

\* The recursive function of the files exists.
LEMMA InitsRun ==
  ASSUME NEW y, NEW conf, NEW v
  PROVE  Runs(y, conf, v, Inits(y, conf, v))
<1> DEFINE L == Len(Order)
           Val(f, n) == IF n = 0 THEN y ELSE One(f[n-1], conf, n, v)
           Good == {n \in Nat : \E f : \A i \in 0..n : f[i] = Val(f, i)}
<1>0. L \in Nat BY OrderIs
<1>1. 0 \in Good
  <2> DEFINE f == [i \in 0..0 |-> y]
  <2>1. ASSUME NEW i \in 0..0 PROVE f[i] = Val(f, i)
    <3>1. i = 0 OBVIOUS
    <3> QED BY <3>1
  <2> HIDE DEF f, Val
  <2> QED BY <2>1
<1>2. ASSUME NEW n \in 0..L, n \in Good, n < L PROVE n+1 \in Good
  <2>1. PICK f : \A i \in 0..n : f[i] = Val(f, i) BY <1>2
  <2> DEFINE g == [i \in 0..n+1 |-> IF i \in 0..n THEN f[i] ELSE Val(f, i)]
  <2>2. ASSUME NEW i \in 0..n+1 PROVE g[i] = Val(g, i)
    <3>1. g[i] = Val(f, i) BY <2>1
    <3>2. CASE i = 0 BY <3>1, <3>2
    <3>3. CASE i # 0
      <4>1. i-1 \in 0..n /\ i-1 \in 0..n+1 BY <3>3
      <4>2. g[i-1] = f[i-1] BY <4>1
      <4> QED BY <3>1, <3>3, <4>2
    <3> QED BY <3>2, <3>3
  <2> HIDE DEF g, Val
  <2>3. n+1 \in Nat OBVIOUS
  <2> QED BY <2>2, <2>3
<1>3. L \in Good
  <2> HIDE DEF Good, L
  <2>1. \A i \in 0..L : i \in Good BY <1>0, <1>1, <1>2, Upward
  <2> QED BY <1>0, <2>1
<1>4. PICK f : \A i \in 0..L : f[i] = Val(f, i) BY <1>3
<1> DEFINE h == [i \in 0..L |-> f[i]]
<1>5. h = [i \in 0..L |-> Val(h, i)]
  <2>1. ASSUME NEW i \in 0..L PROVE f[i] = Val(h, i)
    <3>1. f[i] = Val(f, i) BY <1>4
    <3>2. i # 0 => h[i-1] = f[i-1] BY <1>0
    <3> QED BY <3>1, <3>2
  <2> HIDE DEF Val
  <2> QED BY <2>1
<1>6. Inits(y, conf, v) = CHOOSE r : r = [i \in 0..L |-> Val(r, i)]
  BY DEF Inits, One
<1> HIDE DEF h, Val
<1>7. Inits(y, conf, v) = [i \in 0..L |-> Val(Inits(y, conf, v), i)]
  BY <1>5, <1>6
<1> DEFINE G == Inits(y, conf, v)
<1> HIDE DEF G
<1>8. \A i \in 0..L : G[i] = Val(G, i) BY <1>7 DEF G
<1>9. G[0] = y BY <1>0, <1>8 DEF Val
<1>10. \A n \in 1..L : G[n] = One(G[n-1], conf, n, v) BY <1>8 DEF Val
<1> QED BY <1>9, <1>10 DEF Runs, G

\* The files stay paired, the sections that were written stay.
Sound(x) == x \in Docs /\ Paired(x)
\* No section has the markers of an earlier release.
Modern(x) == \A s \in Sections : ~ Has(x, LBegin(s))
\* The configured ones of the first n sections are there.
Done(x, conf, n) == \A k \in 1..n : Order[k] \in conf => ~ Lacks(x, Order[k])

\* A write keeps the file paired and each section, and brings configured ones
\* only.
LEMMA OneKeeps ==
  ASSUME NEW x, Sound(x), NEW conf, NEW n \in 1..Len(Order), NEW v \in Version
  PROVE  /\ Sound(One(x, conf, n, v))
         /\ \A s \in Sections : ~ Lacks(x, s) => ~ Lacks(One(x, conf, n, v), s)
         /\ Order[n] \in conf => ~ Lacks(One(x, conf, n, v), Order[n])
         /\ \A s \in Sections : Has(One(x, conf, n, v), Begin(s)) => Has(x, Begin(s)) \/ s \in conf
         /\ Modern(x) => Modern(One(x, conf, n, v))
<1>0. Order[n] \in Sections BY OrderIs
<1>1. CASE Order[n] \in conf
  <2>1. One(x, conf, n, v) = ApplySection(x, Order[n], v) BY <1>1 DEF One
  <2>2. x \in Docs /\ Paired(x) BY DEF Sound
  <2>3. Sound(ApplySection(x, Order[n], v)) BY <1>0, <2>2, ApplyKeeps DEF Sound
  <2>4. /\ \A s \in Sections : ~ Lacks(x, s) => ~ Lacks(ApplySection(x, Order[n], v), s)
        /\ ~ Lacks(ApplySection(x, Order[n], v), Order[n])
        /\ \A s \in Sections : Has(ApplySection(x, Order[n], v), Begin(s))
                                 => Has(x, Begin(s)) \/ s = Order[n]
        /\ \A s \in Sections : Has(ApplySection(x, Order[n], v), LBegin(s)) => Has(x, LBegin(s))
    BY <1>0, <2>2, ApplyHas
  <2>5. Modern(x) => Modern(ApplySection(x, Order[n], v)) BY <2>4 DEF Modern
  <2> QED BY <1>1, <2>1, <2>3, <2>4, <2>5
<1>2. CASE Order[n] \notin conf
  <2>1. One(x, conf, n, v) = x BY <1>2 DEF One
  <2> QED BY <1>2, <2>1
<1> QED BY <1>1, <1>2

\* So do all of them.
LEMMA RunKeeps ==
  ASSUME NEW y, Sound(y), NEW conf, NEW v \in Version, NEW G, Runs(y, conf, v, G),
         NEW n \in 0..Len(Order)
  PROVE  /\ Sound(G[n]) /\ Done(G[n], conf, n)
         /\ \A s \in Sections : ~ Lacks(y, s) => ~ Lacks(G[n], s)
         /\ \A s \in Sections : Has(G[n], Begin(s)) => Has(y, Begin(s)) \/ s \in conf
         /\ Modern(y) => Modern(G[n])
<1> DEFINE L == Len(Order)
           Ok(k) == /\ Sound(G[k]) /\ Done(G[k], conf, k)
                    /\ \A s \in Sections : ~ Lacks(y, s) => ~ Lacks(G[k], s)
                    /\ \A s \in Sections : Has(G[k], Begin(s)) => Has(y, Begin(s)) \/ s \in conf
                    /\ Modern(y) => Modern(G[k])
           S == {k \in 0..L : Ok(k)}
<1>0. L \in Nat BY OrderIs
<1>1. G[0] = y /\ \A k \in 1..L : G[k] = One(G[k-1], conf, k, v) BY DEF Runs
<1>2. 0 \in S
  <2>1. Done(G[0], conf, 0) BY DEF Done
  <2> QED BY <1>0, <1>1, <2>1
<1>3. ASSUME NEW i \in 0..L, i \in S, i < L PROVE i+1 \in S
  <2>1. i+1 \in 1..L /\ (i+1)-1 = i /\ i+1 \in 0..L BY <1>0, <1>3
  <2>2. Ok(i) BY <1>3
  <2> DEFINE m == i+1
  <2>3. m \in 1..L /\ m \in 0..L /\ m-1 = i BY <2>1
  <2>k. \A k \in 1..m : k = m \/ k \in 1..i BY <1>0
  <2>o. \A k \in 1..m : k \in 1..Len(Order) BY <2>1
  <2> HIDE DEF m, Ok, L
  <2>4. G[m] = One(G[i], conf, m, v) BY <1>1, <2>3
  <2>5. /\ Sound(G[i]) /\ Done(G[i], conf, i)
        /\ \A s \in Sections : ~ Lacks(y, s) => ~ Lacks(G[i], s)
        /\ \A s \in Sections : Has(G[i], Begin(s)) => Has(y, Begin(s)) \/ s \in conf
        /\ Modern(y) => Modern(G[i])
    BY <2>2 DEF Ok
  <2>6. /\ Sound(G[m])
        /\ \A s \in Sections : ~ Lacks(G[i], s) => ~ Lacks(G[m], s)
        /\ Order[m] \in conf => ~ Lacks(G[m], Order[m])
        /\ \A s \in Sections : Has(G[m], Begin(s)) => Has(G[i], Begin(s)) \/ s \in conf
        /\ Modern(G[i]) => Modern(G[m])
    <3> DEFINE x == G[i]
    <3> HIDE DEF x
    <3>1. /\ Sound(One(x, conf, m, v))
          /\ \A s \in Sections : ~ Lacks(x, s) => ~ Lacks(One(x, conf, m, v), s)
          /\ Order[m] \in conf => ~ Lacks(One(x, conf, m, v), Order[m])
          /\ \A s \in Sections :
               Has(One(x, conf, m, v), Begin(s)) => Has(x, Begin(s)) \/ s \in conf
          /\ Modern(x) => Modern(One(x, conf, m, v))
      <4>1. m \in 1..Len(Order) /\ Sound(x) BY <2>3, <2>5 DEF L, x
      <4> QED BY <4>1, OneKeeps
    <3>2. G[m] = One(x, conf, m, v) BY <2>4 DEF x
    <3> QED BY <3>1, <3>2 DEF x
  <2>7. Done(G[m], conf, m)
    <3> SUFFICES ASSUME NEW k \in 1..m, Order[k] \in conf PROVE ~ Lacks(G[m], Order[k])
      BY DEF Done
    <3>1. Order[k] \in Sections BY <2>o, OrderIs
    <3>2. CASE k = m BY <3>2, <2>6
    <3>3. CASE k \in 1..i BY <3>1, <3>3, <2>5, <2>6 DEF Done
    <3> QED BY <2>k, <3>2, <3>3
  <2>8. Ok(m) BY <2>5, <2>6, <2>7 DEF Ok
  <2> QED BY <2>3, <2>8 DEF m
<1> HIDE DEF S
<1>4. \A i \in 0..L : i \in S BY <1>0, <1>2, <1>3, Upward
<1> QED BY <1>4 DEF S

-----------------------------------------------------------------------------
(* An init that starts again *)

\* A run from x that misses a write of its own by w gets it again.
LEMMA RunAgain ==
  ASSUME NEW x, Sound(x), NEW conf, NEW v \in Version, NEW w \in Version,
         NEW n \in 1..Len(Order), Order[n] \in conf, Done(x, conf, n-1),
         NEW G, Runs(x, conf, v, G),
         NEW H, Runs(ApplySection(x, Order[n], w), conf, v, H)
  PROVE  G[Len(Order)] = H[Len(Order)]
<1> DEFINE L == Len(Order)
           t == Order[n]
           S == {k \in 0..L : IF k < n THEN H[k] = ApplySection(G[k], t, w) ELSE H[k] = G[k]}
<1>0. L \in Nat /\ n \in 1..L /\ t \in Sections BY OrderIs
<1>1. G[0] = x /\ \A k \in 1..L : G[k] = One(G[k-1], conf, k, v) BY DEF Runs
<1>2. H[0] = ApplySection(x, t, w) /\ \A k \in 1..L : H[k] = One(H[k-1], conf, k, v)
  BY DEF Runs
<1>3. \A k \in 0..L : Sound(G[k]) /\ \A s \in Sections : ~ Lacks(x, s) => ~ Lacks(G[k], s)
  BY RunKeeps
<1>4. 0 \in S BY <1>0, <1>1, <1>2
<1>5. ASSUME NEW i \in 0..L, i \in S, i < L PROVE i+1 \in S
  <2> DEFINE m == i+1
             a == G[i]
  <2>1. m \in 1..L /\ m \in 0..L /\ m-1 = i BY <1>0, <1>5
  <2>2. Sound(a) /\ \A s \in Sections : ~ Lacks(x, s) => ~ Lacks(a, s) BY <1>3
  <2>3. G[m] = One(a, conf, m, v) /\ H[m] = One(H[i], conf, m, v) BY <1>1, <1>2, <2>1
  <2>4. a \in Docs /\ Paired(a) BY <2>2 DEF Sound
  <2>5. CASE i >= n
    <3>1. H[i] = a /\ ~ (m < n) BY <1>0, <1>5, <2>5
    <3> QED BY <2>1, <2>3, <3>1
  <2>6. CASE m = n
    <3>1. H[i] = ApplySection(a, t, w) /\ ~ (m < n) BY <1>0, <1>5, <2>6
    <3>2. G[m] = ApplySection(a, t, v) /\ H[m] = ApplySection(H[i], t, v)
      BY <2>3, <2>6 DEF One
    <3>3. ApplySection(ApplySection(a, t, w), t, v) = ApplySection(a, t, v)
      BY <1>0, <2>4, ApplySame
    <3>4. H[m] = G[m] BY <3>1, <3>2, <3>3
    <3> QED BY <2>1, <3>1, <3>4
  <2>7. CASE m < n
    <3>1. H[i] = ApplySection(a, t, w) BY <1>0, <1>5, <2>7
    <3> DEFINE s == Order[m]
    <3>2. s \in Sections /\ s # t BY <1>0, <2>1, <2>7, OrderIs
    <3>3. H[m] = ApplySection(G[m], t, w)
      <4>1. CASE s \notin conf
        <5>1. G[m] = a /\ H[m] = H[i] BY <2>3, <4>1 DEF One
        <5> QED BY <3>1, <5>1
      <4>2. CASE s \in conf
        <5>1. G[m] = ApplySection(a, s, v) /\ H[m] = ApplySection(H[i], s, v)
          BY <2>3, <4>2 DEF One
        <5>2. ~ Lacks(a, s)
          <6>1. m \in 1..n-1 BY <1>0, <2>1, <2>7
          <6>2. ~ Lacks(x, s) BY <4>2, <6>1 DEF Done
          <6> QED BY <2>2, <3>2, <6>2
        <5> HIDE DEF a, s, t
        <5>3. ApplySection(ApplySection(a, t, w), s, v) = ApplySection(ApplySection(a, s, v), t, w)
          BY <1>0, <2>4, <3>2, <5>2, Commute
        <5> QED BY <3>1, <5>1, <5>3
      <4> QED BY <4>1, <4>2
    <3> QED BY <2>1, <2>7, <3>3
  <2>8. i >= n \/ m = n \/ m < n BY <1>0
  <2> QED BY <2>5, <2>6, <2>7, <2>8
<1> HIDE DEF S
<1>6. \A i \in 0..L : i \in S BY <1>0, <1>4, <1>5, Upward
<1>7. L \in S /\ ~ (L < n) BY <1>0, <1>6
<1> QED BY <1>7 DEF S

\* A run that starts from what another one has reached ends where it would
\* have ended from that one's start.
LEMMA RunFrom ==
  ASSUME NEW y, Sound(y), NEW conf, NEW v \in Version, NEW w \in Version,
         NEW n \in 0..Len(Order)
  PROVE  Inits(Inits(y, conf, w)[n], conf, v)[Len(Order)] = Inits(y, conf, v)[Len(Order)]
<1> DEFINE L == Len(Order)
           K == Inits(y, conf, w)
           End(x) == Inits(x, conf, v)[L]
           S == {k \in 0..L : End(K[k]) = End(y)}
<1>0. L \in Nat BY OrderIs
<1>1. Runs(y, conf, w, K) BY InitsRun
<1> HIDE DEF K
<1>2. K[0] = y /\ \A k \in 1..L : K[k] = One(K[k-1], conf, k, w) BY <1>1 DEF Runs
<1>3. \A k \in 0..L : Sound(K[k]) /\ Done(K[k], conf, k) BY <1>1, RunKeeps
<1>4. 0 \in S BY <1>0, <1>2
<1>5. ASSUME NEW i \in 0..L, i \in S, i < L PROVE i+1 \in S
  <2> DEFINE m == i+1
             x == K[i]
             z == K[m]
  <2>1. m \in 1..L /\ m \in 0..L /\ m-1 = i BY <1>0, <1>5
  <2>2. End(x) = End(y) BY <1>5
  <2>3. z = One(x, conf, m, w) BY <1>2, <2>1
  <2>4. Sound(x) /\ Done(x, conf, m-1) BY <1>3, <2>1
  <2>5. End(z) = End(x)
    <3>1. CASE Order[m] \notin conf BY <2>3, <3>1 DEF One
    <3>2. CASE Order[m] \in conf
      <4>1. z = ApplySection(x, Order[m], w) BY <2>3, <3>2 DEF One
      <4> HIDE DEF m, x, z
      <4>2. Runs(x, conf, v, Inits(x, conf, v)) BY InitsRun
      <4>3. Runs(ApplySection(x, Order[m], w), conf, v, Inits(z, conf, v)) BY <4>1, InitsRun
      <4> QED BY <2>1, <2>4, <3>2, <4>2, <4>3, RunAgain
    <3> QED BY <3>1, <3>2
  <2> QED BY <2>1, <2>2, <2>5
<1> HIDE DEF S
<1>6. \A i \in 0..L : i \in S BY <1>0, <1>4, <1>5, Upward
<1>7. n \in S BY <1>6
<1> QED BY <1>7 DEF S, K

\* No section is left that is not kept; then a prune changes nothing.
Only(x, conf) == \A s \in Sections : Has(x, Begin(s)) => s \in conf

\* After a prune there is no begin marker of another section.
LEMMA PruneOnly ==
  ASSUME NEW d, Sound(d), NEW conf
  PROVE  Sound(PruneSections(d, conf)) /\ Only(PruneSections(d, conf), conf)
<1> DEFINE L == Len(d)
           R == PruneRest(d, conf)
           S == {i \in 1..L+1 : Only(R[i], conf)}
<1>d. d \in Docs /\ Paired(d) BY DEF Sound
<1>0. L \in Nat /\ \A i \in 1..L : d[i] \in Line BY <1>d, DocsIs
<1>1. /\ R[L+1] = <<>>
      /\ \A i \in 1..L+1 : R[i] \in Docs
      /\ \A i \in 1..L : ~ Gone(d, conf, i) => R[i] = <<d[i]>> \o R[i+1]
      /\ \A i \in 1..L : Gone(d, conf, i) => R[i] = R[EndAt(d, i)+1]
  BY <1>d, PruneSteps
<1>2. Sound(PruneSections(d, conf)) BY <1>d, PruneKeeps DEF Sound
<1> HIDE DEF R, S
<1>3. ASSUME NEW i \in 1..L+1, \A k \in i+1..L+1 : k \in S PROVE i \in S
  <2>1. CASE i = L+1
    <3>1. ~ \E n \in 1..Len(<<>>) : TRUE OBVIOUS
    <3>2. Only(R[i], conf) BY <1>1, <2>1, <3>1 DEF Only, Has
    <3> QED BY <3>2 DEF S
  <2>2. CASE i \in 1..L /\ Gone(d, conf, i)
    <3>1. EndAt(d, i) \in i+1..L
      <4>1. EndAt(d, i) # 0 => EndAt(d, i) \in i+1..L BY <1>d, <2>2, EndAtIs
      <4> QED BY <4>1, <2>2 DEF Gone
    <3>2. EndAt(d, i)+1 \in i+1..L+1 BY <1>0, <3>1
    <3>3. Only(R[i], conf) BY <1>1, <1>3, <2>2, <3>2 DEF S
    <3> QED BY <3>3 DEF S
  <2>3. CASE i \in 1..L /\ ~ Gone(d, conf, i)
    <3> DEFINE x == <<d[i]>>
               z == R[i+1]
    <3>1. i+1 \in i+1..L+1 /\ i+1 \in 1..L+1 BY <1>0, <2>3
    <3>2. x \in Docs /\ z \in Docs /\ R[i] = x \o z /\ Only(z, conf)
      <4>1. x \in Docs BY <1>0, <2>3 DEF Docs
      <4>2. z \in Docs /\ R[i] = x \o z BY <1>1, <2>3, <3>1
      <4>3. Only(z, conf) BY <1>3, <3>1 DEF S
      <4> QED BY <4>1, <4>2, <4>3
    <3>3. \A o : Has(x, o) <=> d[i] = o BY HasOne
    <3> HIDE DEF x, z
    <3>4. \A o : Has(R[i], o) <=> d[i] = o \/ Has(z, o) BY <3>2, <3>3, HasConcat
    <3>5. ASSUME NEW s \in Sections, d[i] = Begin(s) PROVE s \in conf
      <4>1. d[i][1] = "begin" /\ d[i][2] = s BY <3>5 DEF Begin
      <4>2. EndAt(d, i) > 0
        <5>1. Opener(d[i]) BY <4>1 DEF Opener
        <5>2. PICK j \in 1..L : Sect(d, i, j) BY <1>d, <2>3, <5>1 DEF Paired
        <5>3. EndAt(d, i) = j BY <1>d, <4>1, <5>2, EndAtSect DEF IsBegin
        <5> QED BY <5>3
      <4> QED BY <4>1, <4>2, <2>3 DEF Gone, IsBegin
    <3>6. Only(R[i], conf) BY <3>2, <3>4, <3>5 DEF Only
    <3> QED BY <3>6 DEF S
  <2> QED BY <2>1, <2>2, <2>3, <1>0
<1>4. \A i \in 1..L+1 : i \in S
  <2>1. L+1 \in Nat BY <1>0
  <2> QED BY <2>1, <1>3, Downward
<1>5. 1 \in S BY <1>0, <1>4
<1>6. Only(R[1], conf) BY <1>5 DEF S
<1>7. PruneSections(d, conf) = R[1] BY PruneIs DEF R
<1> QED BY <1>2, <1>6, <1>7

\* Then a prune changes nothing.
LEMMA PruneSame ==
  ASSUME NEW d, Sound(d), NEW conf, Only(d, conf)
  PROVE  PruneSections(d, conf) = d
<1> DEFINE L == Len(d)
           p == PrunePiece(d, conf)
           n == PruneNext(d, conf)
           q == L+1
<1>d. d \in Docs BY DEF Sound
<1>0. L \in Nat /\ d \in Seq(Line) /\ \A i \in 1..L : d[i] \in Line BY <1>d, DocsIs
<1>1. ASSUME NEW i \in 1..L PROVE ~ Gone(d, conf, i)
  <2> SUFFICES ASSUME d[i][1] = "begin" PROVE d[i][2] \in conf BY DEF Gone, IsBegin
  <2>1. d[i][2] \in Sections /\ d[i] = Begin(d[i][2]) BY <1>0, LineCases
  <2>2. Has(d, Begin(d[i][2])) BY <2>1 DEF Has
  <2> QED BY <2>1, <2>2 DEF Only
<1>2. Plain(d, p, n, 1, q)
  <2>1. \A i \in 1..L : p[i] = <<d[i]>> /\ n[i] = i+1 BY <1>1 DEF PrunePiece, PruneNext
  <2>2. 1..q-1 = 1..L BY <1>0
  <2> HIDE DEF p, n, q
  <2> QED BY <2>1, <2>2 DEF Plain
<1>3. Piece(Line, p, n) /\ Len(p) = L BY <1>d, PruneWalk
<1>4. q \in 1..L+1 /\ 1 \in 1..q /\ q-1 = L BY <1>0
<1> HIDE DEF p, n, q
<1>5. Copies(d, Rest(p, n), 1, q) BY <1>0, <1>2, <1>3, <1>4, PlainSteps
<1>6. Rest(p, n)[q] = <<>> BY <1>3, RestEnd DEF q
<1>7. SubSeq(d, 1, L) = d BY <1>d, SubSeqFull DEF Docs
<1>8. Rest(p, n)[1] = d \o <<>> BY <1>4, <1>5, <1>6, <1>7 DEF Copies
<1>9. Rest(p, n)[1] = d BY <1>8, <1>d, Empty
<1> QED BY <1>9, PruneIs DEF PruneRest, p, n

\* A prune writes lines of the file only.
LEMMA PruneHas ==
  ASSUME NEW d \in Docs, NEW keep, NEW o
  PROVE  \A i \in 1..Len(d)+1 : Has(PruneRest(d, keep)[i], o) => Has(d, o)
<1> DEFINE L == Len(d)
           R == PruneRest(d, keep)
           S == {i \in 1..L+1 : Has(R[i], o) => Has(d, o)}
<1>0. L \in Nat /\ \A i \in 1..L : d[i] \in Line BY DocsIs
<1>1. /\ R[L+1] = <<>>
      /\ \A i \in 1..L+1 : R[i] \in Docs
      /\ \A i \in 1..L : ~ Gone(d, keep, i) => R[i] = <<d[i]>> \o R[i+1]
      /\ \A i \in 1..L : Gone(d, keep, i) => R[i] = R[EndAt(d, i)+1]
  BY PruneSteps
<1> HIDE DEF R, S
<1>2. ASSUME NEW i \in 1..L+1, \A k \in i+1..L+1 : k \in S PROVE i \in S
  <2>1. CASE i = L+1
    <3>1. ~ \E n \in 1..Len(<<>>) : TRUE OBVIOUS
    <3>2. ~ Has(R[i], o) BY <1>1, <2>1, <3>1 DEF Has
    <3> QED BY <3>2 DEF S
  <2>2. CASE i \in 1..L /\ Gone(d, keep, i)
    <3>1. EndAt(d, i) \in i+1..L
      <4>1. EndAt(d, i) # 0 => EndAt(d, i) \in i+1..L BY <2>2, EndAtIs
      <4> QED BY <4>1, <2>2 DEF Gone
    <3>2. EndAt(d, i)+1 \in i+1..L+1 BY <1>0, <3>1
    <3>3. Has(R[i], o) => Has(d, o) BY <1>1, <1>2, <2>2, <3>2 DEF S
    <3> QED BY <3>3 DEF S
  <2>3. CASE i \in 1..L /\ ~ Gone(d, keep, i)
    <3> DEFINE x == <<d[i]>>
               z == R[i+1]
    <3>1. i+1 \in i+1..L+1 /\ i+1 \in 1..L+1 BY <1>0, <2>3
    <3>2. x \in Docs /\ z \in Docs /\ R[i] = x \o z
      <4>1. x \in Docs BY <1>0, <2>3 DEF Docs
      <4> QED BY <1>1, <2>3, <3>1, <4>1
    <3>3. Has(z, o) => Has(d, o) BY <1>2, <3>1 DEF S
    <3>4. Has(x, o) => Has(d, o) BY <2>3, HasOne DEF Has
    <3> HIDE DEF x, z
    <3>5. Has(R[i], o) => Has(d, o) BY <3>2, <3>3, <3>4, HasConcat
    <3> QED BY <3>5 DEF S
  <2> QED BY <2>1, <2>2, <2>3, <1>0
<1>3. \A i \in 1..L+1 : i \in S
  <2>1. L+1 \in Nat BY <1>0
  <2> QED BY <2>1, <1>2, Downward
<1> QED BY <1>3 DEF S, R

\* So it brings no marker of an earlier release.
LEMMA PruneModern ==
  ASSUME NEW d \in Docs, Modern(d), NEW keep
  PROVE  \A i \in 1..Len(d)+1 : Modern(PruneRest(d, keep)[i])
BY PruneHas DEF Modern

\* A paired file is migrated to one without them.
LEMMA MigratedSound ==
  ASSUME NEW d, Sound(d)
  PROVE  Sound(Migrated(d)) /\ Modern(Migrated(d)) /\ BlocksSafe(Migrated(d))
<1> DEFINE e == Migrated(d)
<1>1. /\ d \in Docs /\ e \in Docs /\ Paired(e) /\ Len(e) = Len(d)
      /\ \A i \in 1..Len(d) : e[i] = Renewed(d[i]) /\ d[i] \in Line
  BY MigratedIs, MigratedPaired, DocsIs DEF Sound
<1> HIDE DEF e
<1>2. \A i \in 1..Len(e) : e[i][1] # "lbegin" BY <1>1, RenewedIs
<1>3. Modern(e) BY <1>2 DEF Modern, Has, LBegin
<1> QED BY <1>1, <1>3, PairedSafe DEF Sound, e

\* A file without them is not migrated.
LEMMA ModernSame ==
  ASSUME NEW x, Sound(x), Modern(x)
  PROVE  Migrated(x) = x
<1>0. x \in Docs /\ Paired(x) /\ \A i \in 1..Len(x) : x[i] \in Line BY DocsIs DEF Sound
<1>1. ASSUME NEW i \in 1..Len(x) PROVE x[i][1] # "lbegin"
  <2> SUFFICES ASSUME x[i][1] = "lbegin" PROVE FALSE OBVIOUS
  <2>1. x[i][2] \in Sections /\ x[i] = LBegin(x[i][2]) BY <1>0, LineCases DEF LBegin
  <2> QED BY <2>1 DEF Modern, Has
<1>2. ASSUME NEW j \in 1..Len(x) PROVE x[j][1] # "lend"
  <2> SUFFICES ASSUME x[j][1] = "lend" PROVE FALSE OBVIOUS
  <2>1. Closer(x[j]) BY DEF Closer
  <2>2. PICK i \in 1..Len(x) : Sect(x, i, j) BY <1>0, <2>1 DEF Paired
  <2>3. Opener(x[i]) /\ x[j] = Closing(x[i]) BY <1>0, <2>2, SectBounds
  <2>4. x[i][1] = "begin" BY <1>1, <2>3 DEF Opener
  <2>5. x[j] = EndOf(x[i][2]) BY <2>3, <2>4 DEF Closing
  <2> QED BY <2>5 DEF EndOf
<1>3. \A i \in 1..Len(x) : Renewed(x[i]) = x[i] BY <1>1, <1>2 DEF Renewed
<1>4. Len(x) \in Nat /\ x = [i \in 1..Len(x) |-> x[i]] BY <1>0 DEF Docs
<1> QED BY <1>3, <1>4 DEF Migrated

\* A second migration changes nothing.
LEMMA MigratedTwice ==
  ASSUME NEW d \in Docs
  PROVE  Migrated(Migrated(d)) = Migrated(d)
<1> DEFINE e == Migrated(d)
<1>1. /\ e \in Docs /\ Len(e) = Len(d)
      /\ \A i \in 1..Len(d) : e[i] = Renewed(d[i]) /\ d[i] \in Line
  BY MigratedIs, DocsIs
<1> HIDE DEF e
<1>2. \A i \in 1..Len(e) : e[i][1] \notin {"lbegin", "lend"} BY <1>1, RenewedIs
<1>3. \A i \in 1..Len(e) : Renewed(e[i]) = e[i] BY <1>2 DEF Renewed
<1>4. e = [i \in 1..Len(e) |-> e[i]] BY <1>1 DEF Docs
<1>5. Migrated(e) = e BY <1>3, <1>4 DEF Migrated
<1> QED BY <1>5 DEF e

\* So an init may be interrupted behind its migration, of any file.
LEMMA MigratedFirst ==
  ASSUME NEW d \in Docs, NEW conf, NEW v
  PROVE  InitSections(Migrated(d), conf, v) = InitSections(d, conf, v)
<1> DEFINE e == Migrated(d)
<1>1. Migrated(e) = e BY MigratedTwice
<1>2. /\ BlocksSafe(e) =>
           InitWrites(d, conf, v) = Inits(PruneSections(e, conf \cup Sticky), conf, v)
      /\ ~ BlocksSafe(e) => InitWrites(d, conf, v) = [n \in 0..Len(Order) |-> e]
  BY InitWritesIs
<1> HIDE DEF e
<1>3. /\ BlocksSafe(e) =>
           InitWrites(e, conf, v) = Inits(PruneSections(e, conf \cup Sticky), conf, v)
      /\ ~ BlocksSafe(e) => InitWrites(e, conf, v) = [n \in 0..Len(Order) |-> e]
  <2>1. /\ BlocksSafe(Migrated(e)) =>
             InitWrites(e, conf, v) = Inits(PruneSections(Migrated(e), conf \cup Sticky), conf, v)
        /\ ~ BlocksSafe(Migrated(e)) =>
             InitWrites(e, conf, v) = [n \in 0..Len(Order) |-> Migrated(e)]
    BY InitWritesIs
  <2> QED BY <1>1, <2>1
<1>4. InitWrites(e, conf, v) = InitWrites(d, conf, v) BY <1>2, <1>3
<1> QED BY <1>4 DEF InitSections, e

\* What an init has pruned, and what any of its writes has left.
LEMMA Pruned ==
  ASSUME NEW d, Sound(d), NEW keep
  PROVE  /\ Sound(PruneSections(Migrated(d), keep)) /\ Modern(PruneSections(Migrated(d), keep))
         /\ Only(PruneSections(Migrated(d), keep), keep)
<1> DEFINE e == Migrated(d)
           y == PruneSections(e, keep)
<1>1. Sound(e) /\ Modern(e) BY MigratedSound
<1> HIDE DEF e
<1>2. Sound(y) /\ Only(y, keep) BY <1>1, PruneOnly
<1>3. Modern(y)
  <2>1. e \in Docs /\ 1 \in 1..Len(e)+1 BY <1>1, WholeSuffix DEF Sound
  <2>2. Modern(PruneRest(e, keep)[1]) BY <1>1, <2>1, PruneModern
  <2> QED BY <2>2, PruneIs
<1> QED BY <1>2, <1>3 DEF e

\* An init of what another one has left behind, after any of its writes, ends
\* where one of the original file ends.
LEMMA Converges ==
  ASSUME NEW d, Sound(d), NEW conf, NEW v \in Version, NEW w \in Version, NEW n \in 0..Len(Order)
  PROVE  InitSections(InitWrites(d, conf, w)[n], conf, v) = InitSections(d, conf, v)
<1> DEFINE k == conf \cup Sticky
           y == PruneSections(Migrated(d), k)
           x == Inits(y, conf, w)[n]
<1>0. \A s \in Sections : s \in conf => s \in k OBVIOUS
<1>1. Sound(y) /\ Modern(y) /\ Only(y, k) BY Pruned
<1>2. BlocksSafe(Migrated(d)) BY MigratedSound
<1>3. InitWrites(d, conf, w)[n] = x BY <1>2, InitWritesIs
<1>4. InitSections(d, conf, v) = Inits(y, conf, v)[Len(Order)]
  BY <1>2, InitWritesIs DEF InitSections
<1>5. InitSections(x, conf, v)
        = IF BlocksSafe(Migrated(x)) THEN Inits(PruneSections(Migrated(x), k), conf, v)[Len(Order)]
          ELSE InitSections(x, conf, v)
  <2> HIDE DEF x, y
  <2> QED BY InitWritesIs DEF InitSections
<1> HIDE DEF y, k
<1>6. Sound(x) /\ Modern(x) /\ Only(x, k)
  <2> DEFINE G == Inits(y, conf, w)
  <2>1. Runs(y, conf, w, G) BY InitsRun
  <2> HIDE DEF G
  <2>2. /\ Sound(G[n]) /\ Modern(G[n])
        /\ \A s \in Sections : Has(G[n], Begin(s)) => Has(y, Begin(s)) \/ s \in conf
    BY <1>1, <2>1, RunKeeps
  <2>3. Only(G[n], k) BY <1>0, <1>1, <2>2 DEF Only
  <2> QED BY <2>2, <2>3 DEF G
<1>7. Inits(x, conf, v)[Len(Order)] = Inits(y, conf, v)[Len(Order)] BY <1>1, RunFrom
<1> HIDE DEF x
<1>8. Migrated(x) = x /\ BlocksSafe(Migrated(x)) BY <1>6, ModernSame, MigratedSound
<1>9. PruneSections(x, k) = x BY <1>6, PruneSame
<1> QED BY <1>3, <1>4, <1>5, <1>7, <1>8, <1>9

\* InitConverges for every number of sections and versions: an init that was
\* interrupted after any of its writes and is run again ends where an
\* uninterrupted one ends, and a third one changes nothing, of a file whose
\* markers are in pairs and of one whose malformed blocks it leaves alone.
THEOREM InitConverge == Spec => []InitConverges
<1>1. ASSUME DocsInv PROVE InitConverges
  <2> DEFINE Again(conf, v) ==
               \A w \in Version, n \in 0..Len(Order) :
                 InitSections(InitWrites(doc, conf, w)[n], conf, v) = InitSections(doc, conf, v)
  <2>0. doc \in Docs /\ Len(Order) \in 0..Len(Order) BY <1>1, OrderIs DEF DocsInv
  <2>1. ASSUME kind = "sections", ~ torn \/ ~ BlocksSafe(Migrated(doc)),
               NEW conf \in SUBSET Sections, NEW v \in Version
        PROVE  Again(conf, v)
    <3>1. CASE ~ torn
      <4>1. Sound(doc) BY <1>1, <2>1, <3>1 DEF DocsInv, Sound
      <4> QED BY <4>1, Converges
    <3>2. CASE ~ BlocksSafe(Migrated(doc))
      <4>1. ASSUME NEW w \in Version, NEW n \in 0..Len(Order)
            PROVE  InitWrites(doc, conf, w)[n] = Migrated(doc)
        BY <3>2, InitWritesIs
      <4>2. InitSections(Migrated(doc), conf, v) = InitSections(doc, conf, v)
        BY <2>0, MigratedFirst
      <4> QED BY <4>1, <4>2
    <3> QED BY <2>1, <3>1, <3>2
  <2>2. \A conf, v : InitSections(Migrated(doc), conf, v) = InitSections(doc, conf, v)
    BY <2>0, MigratedFirst
  <2>3. ASSUME NEW conf, NEW v \in Version, Again(conf, v)
        PROVE  InitSections(InitSections(doc, conf, v), conf, v) = InitSections(doc, conf, v)
    <3>1. InitSections(doc, conf, v) = InitWrites(doc, conf, v)[Len(Order)]
      BY DEF InitSections
    <3> QED BY <2>0, <2>3, <3>1
  <2> QED BY <2>1, <2>2, <2>3, Zenon DEF InitConverges
<1>2. DocsInv => InitConverges BY <1>1
<1> QED BY <1>2, DocsInvariant, PTL

-----------------------------------------------------------------------------
(* Up to date sections *)

\* Of an up to date section, another write of it changes nothing.
Current(d, s, v) == ~ Lacks(d, s) /\ ApplySection(d, s, v) = d

\* A write makes its section current, and leaves the others so.
LEMMA OneCurrent ==
  ASSUME NEW x, Sound(x), NEW conf, NEW n \in 1..Len(Order), NEW v \in Version
  PROVE  /\ Order[n] \in conf => Current(One(x, conf, n, v), Order[n], v)
         /\ \A s \in Sections : Current(x, s, v) => Current(One(x, conf, n, v), s, v)
<1> DEFINE t == Order[n]
           y == One(x, conf, n, v)
<1>0. t \in Sections /\ x \in Docs /\ Paired(x) BY OrderIs DEF Sound
<1>1. CASE t \notin conf
  <2>1. y = x BY <1>1 DEF One
  <2> QED BY <1>1, <2>1
<1>2. CASE t \in conf
  <2>1. y = ApplySection(x, t, v) BY <1>2 DEF One
  <2>2. Current(y, t, v)
    <3>1. ~ Lacks(y, t) BY <1>0, <2>1, ApplyHas
    <3>2. ApplySection(y, t, v) = y BY <1>0, <2>1, ApplySame
    <3> QED BY <3>1, <3>2 DEF Current
  <2>3. ASSUME NEW s \in Sections, Current(x, s, v), s # t PROVE Current(y, s, v)
    <3>1. ~ Lacks(x, s) /\ ApplySection(x, s, v) = x BY <2>3 DEF Current
    <3>2. ApplySection(ApplySection(x, t, v), s, v) = ApplySection(ApplySection(x, s, v), t, v)
      BY <1>0, <2>3, <3>1, Commute
    <3>3. ApplySection(y, s, v) = y BY <2>1, <3>1, <3>2
    <3>4. ~ Lacks(y, s) BY <1>0, <2>1, <3>1, ApplyHas
    <3> QED BY <3>3, <3>4 DEF Current
  <2> QED BY <2>2, <2>3
<1> QED BY <1>1, <1>2

\* So after all of them every configured section is current.
LEMMA RunCurrent ==
  ASSUME NEW y, Sound(y), NEW conf, NEW v \in Version, NEW G, Runs(y, conf, v, G),
         NEW n \in 1..Len(Order), Order[n] \in conf
  PROVE  Current(G[Len(Order)], Order[n], v)
<1> DEFINE L == Len(Order)
           s == Order[n]
           S == {k \in 0..L : k >= n => Current(G[k], s, v)}
<1>0. L \in Nat /\ n \in 1..L /\ s \in Sections BY OrderIs
<1>1. \A k \in 1..L : G[k] = One(G[k-1], conf, k, v) BY DEF Runs
<1>2. \A k \in 0..L : Sound(G[k]) BY RunKeeps
<1>3. 0 \in S BY <1>0
<1>4. ASSUME NEW i \in 0..L, i \in S, i < L PROVE i+1 \in S
  <2> DEFINE m == i+1
             x == G[i]
  <2>1. m \in 1..L /\ m \in 0..L /\ m-1 = i BY <1>0, <1>4
  <2>2. G[m] = One(x, conf, m, v) /\ Sound(x) BY <1>1, <1>2, <2>1
  <2>3. i >= n => Current(x, s, v) BY <1>4
  <2>4. /\ Order[m] \in conf => Current(One(x, conf, m, v), Order[m], v)
        /\ Current(x, s, v) => Current(One(x, conf, m, v), s, v)
    <3> HIDE DEF x, m, s
    <3> QED BY <1>0, <2>1, <2>2, OneCurrent
  <2>5. m >= n => m = n \/ i >= n BY <1>0
  <2>6. m >= n => Current(G[m], s, v) BY <2>2, <2>3, <2>4, <2>5
  <2> QED BY <2>1, <2>6
<1> HIDE DEF S
<1>5. \A i \in 0..L : i \in S BY <1>0, <1>3, <1>4, Upward
<1>6. L \in S /\ L >= n BY <1>0, <1>5
<1> QED BY <1>6 DEF S

\* The section that is found between a and b.
LEMMA AtHeld ==
  ASSUME NEW d, NEW s \in Sections, NEW a, NEW m, NEW b, At(d, s, a, m, b)
  PROVE  Held(d, s) = m
<1> DEFINE i == Len(a)+1
           j == Len(a)+Len(m)
           r == LocateSection(d, s)
<1>0. /\ LocateSection(d, s) = <<Len(a)+1, Len(a)+Len(m)>>
      /\ SubSeq(d, Len(a)+1, Len(a)+Len(m)) = m
  <2>1. Found(d, s, Len(a)+1, Len(a)+Len(m), m) BY AtReplace
  <2> QED BY <2>1 DEF Found
<1>1. r = <<i, j>> /\ SubSeq(d, i, j) = m BY <1>0
<1>2. Held(d, s) = IF r = <<>> THEN <<>> ELSE SubSeq(d, r[1], r[2]) BY DEF Held
<1> HIDE DEF i, j, r
<1>3. r # <<>> /\ r[1] = i /\ r[2] = j BY <1>1
<1> QED BY <1>1, <1>2, <1>3

\* Nothing is found of a section without a begin marker.
LEMMA LacksHeld ==
  ASSUME NEW d, Sound(d), NEW s \in Sections, Lacks(d, s)
  PROVE  Held(d, s) = <<>>
<1>1. LocateSection(d, s) = <<>>
  <2>1. d \in Docs /\ Paired(d) BY DEF Sound
  <2>2. CASE \E i, j \in 1..Len(d) : Picked(d, s, i)
    BY <2>2, LacksAbsent DEF Picked, Absent
  <2> QED BY <2>1, <2>2, Located
<1> QED BY <1>1 DEF Held

\* A section that is current is up to date.
LEMMA CurrentIs ==
  ASSUME NEW d, Sound(d), NEW s \in Sections, NEW v \in Version, Current(d, s, v)
  PROVE  Held(d, s) = Block(s, v)
<1>0. d \in Docs /\ Paired(d) /\ ApplySection(d, s, v) = d BY DEF Sound, Current
<1>1. PICK a, b : \A u \in Version : Puts(d, s, u, a, b)
                                     /\ At(ApplySection(d, s, u), s, a, Block(s, u), b)
  BY <1>0, ApplyPlace
<1>2. At(d, s, a, Block(s, v), b) BY <1>0, <1>1
<1> QED BY <1>2, AtHeld

-----------------------------------------------------------------------------
(* Sections as they were *)

\* A file that is sound and has no marker of an earlier release.
Neat(d) == Sound(d) /\ Modern(d)

\* Two such files are one.
LEMMA NeatConcat ==
  ASSUME NEW a, NEW b, Neat(a), Neat(b)
  PROVE  Neat(a \o b)
<1>1. a \in Docs /\ b \in Docs /\ Paired(a) /\ Paired(b) BY DEF Neat, Sound
<1> DEFINE c == a \o b
<1>2. c \in Docs /\ Paired(c) BY <1>1, InConcat, PairedConcat
<1>3. \A o : Has(c, o) <=> Has(a, o) \/ Has(b, o) BY <1>1, HasConcat
<1> HIDE DEF c
<1>4. Neat(c) BY <1>2, <1>3 DEF Neat, Modern, Sound
<1> QED BY <1>4 DEF c

\* The parts of such a file are.
LEMMA NeatParts ==
  ASSUME NEW a, NEW b, Sound(a), Sound(b), Neat(a \o b)
  PROVE  Neat(a) /\ Neat(b)
<1>1. a \in Docs /\ b \in Docs BY DEF Sound
<1> DEFINE c == a \o b
<1>2. \A o : Has(c, o) <=> Has(a, o) \/ Has(b, o) BY <1>1, HasConcat
<1>3. Neat(c) OBVIOUS
<1> HIDE DEF c
<1> QED BY <1>2, <1>3 DEF Neat, Modern

\* Of two such files, a section is found in the first if it is there at all.
LEMMA HeldConcat ==
  ASSUME NEW a, NEW b, Neat(a), Neat(b), NEW s \in Sections
  PROVE  Held(a \o b, s) = IF Lacks(a, s) THEN Held(b, s) ELSE Held(a, s)
<1>0. /\ a \in Docs /\ b \in Docs /\ Paired(a) /\ Paired(b) /\ Sound(a) /\ Sound(b)
      /\ Modern(a) /\ Modern(b)
  BY DEF Neat, Sound
<1>o. OpensOf(s) = {Begin(s), LBegin(s)} BY OpensAre
<1>1. CASE ~ Lacks(a, s)
  <2>1. PICK p, m, q : At(a, s, p, m, q) BY <1>0, <1>1, AtExists
  <2>2. /\ p \in Docs /\ q \in Docs /\ Paired(p) /\ Paired(q) /\ IsSect(m) /\ m \in Docs
        /\ a = (p \o m) \o q /\ m[1] \in OpensOf(s) /\ ~ Has(p, m[1])
    BY <2>1, SectIs DEF At
  <2>3. m[1] = Begin(s)
    <3>1. Has(m, m[1])
      <4>1. 1 \in 1..Len(m) BY <2>2, SectIs, DocsIs
      <4> QED BY <4>1 DEF Has
    <3>2. Has(a, m[1]) BY <2>2, <3>1, HasThree
    <3> QED BY <1>0, <1>o, <2>2, <3>2 DEF Modern
  <2> DEFINE c == p \o m
             r == q \o b
  <2>4. a \o b = c \o r
    <3>1. c \in Docs /\ a = c \o q BY <2>2, InConcat
    <3> HIDE DEF c
    <3> QED BY <1>0, <2>2, <3>1, Assoc
  <2>5. r \in Docs /\ Paired(r) BY <1>0, <2>2, InConcat, PairedConcat
  <2> HIDE DEF r
  <2>6. At(a \o b, s, p, m, r) BY <2>2, <2>3, <2>4, <2>5 DEF At
  <2>7. Held(a \o b, s) = m /\ Held(a, s) = m BY <2>1, <2>6, AtHeld
  <2> QED BY <1>1, <2>7
<1>2. CASE Lacks(a, s) /\ ~ Lacks(b, s)
  <2>1. PICK p, m, q : At(b, s, p, m, q) BY <1>0, <1>2, AtExists
  <2>2. /\ p \in Docs /\ q \in Docs /\ Paired(p) /\ Paired(q) /\ IsSect(m) /\ m \in Docs
        /\ b = (p \o m) \o q /\ m[1] \in OpensOf(s) /\ ~ Has(p, m[1])
        /\ (m[1] # Begin(s) => ~ Has(p, Begin(s)) /\ ~ Has(q, Begin(s)))
    BY <2>1, SectIs DEF At
  <2> DEFINE l == a \o p
  <2>3. a \o b = (l \o m) \o q
    <3> DEFINE c == p \o m
    <3>1. c \in Docs /\ b = c \o q BY <2>2, InConcat
    <3>2. l \o m = a \o c BY <1>0, <2>2, Assoc
    <3> HIDE DEF c, l
    <3>3. (a \o c) \o q = a \o (c \o q) BY <1>0, <2>2, <3>1, Assoc
    <3> QED BY <3>1, <3>2, <3>3
  <2>4. l \in Docs /\ Paired(l) BY <1>0, <2>2, InConcat, PairedConcat
  <2>5. \A o : Has(l, o) <=> Has(a, o) \/ Has(p, o) BY <1>0, <2>2, HasConcat
  <2> HIDE DEF l
  <2>6. ~ Has(l, m[1]) BY <1>2, <2>2, <2>5 DEF Lacks
  <2>7. m[1] # Begin(s) => ~ Has(l, Begin(s)) BY <1>o, <1>2, <2>2, <2>5 DEF Lacks
  <2>8. At(a \o b, s, l, m, q) BY <2>2, <2>3, <2>4, <2>6, <2>7 DEF At
  <2>9. Held(a \o b, s) = m /\ Held(b, s) = m BY <2>1, <2>8, AtHeld
  <2> QED BY <1>2, <2>9
<1>3. CASE Lacks(a, s) /\ Lacks(b, s)
  <2> DEFINE c == a \o b
  <2>1. Sound(c) BY <1>0, InConcat, PairedConcat DEF Sound
  <2>2. Lacks(c, s) BY <1>0, <1>3, LacksConcat
  <2> HIDE DEF c
  <2>3. Held(c, s) = <<>> /\ Held(b, s) = <<>> BY <1>0, <1>3, <2>1, <2>2, LacksHeld
  <2> QED BY <1>3, <2>3 DEF c
<1> QED BY <1>1, <1>2, <1>3

\* What does not have s may stand between two files, and anywhere.
LEMMA HeldAround ==
  ASSUME NEW a, NEW m, NEW b, Neat(a), Neat(m), Neat(b), NEW s \in Sections, Lacks(m, s)
  PROVE  Held((a \o m) \o b, s) = IF Lacks(a, s) THEN Held(b, s) ELSE Held(a, s)
<1> DEFINE c == a \o m
<1>1. Neat(c) BY NeatConcat
<1>2. Held(c, s) = IF Lacks(a, s) THEN Held(m, s) ELSE Held(a, s) BY HeldConcat
<1>3. Lacks(c, s) <=> Lacks(a, s) BY LacksConcat DEF Neat, Sound
<1> HIDE DEF c
<1>4. Held(c \o b, s) = IF Lacks(c, s) THEN Held(b, s) ELSE Held(c, s) BY <1>1, HeldConcat
<1> QED BY <1>2, <1>3, <1>4 DEF c

\* An apply leaves every other section as it was.
LEMMA ApplyHeld ==
  ASSUME NEW d, Neat(d), NEW s \in Sections, NEW t \in Sections, s # t, NEW v \in Version
  PROVE  Held(ApplySection(d, t, v), s) = Held(d, s)
<1> DEFINE B == Block(t, v)
<1>0. d \in Docs /\ Paired(d) /\ Sound(d) /\ Modern(d) BY DEF Neat, Sound
<1>1. B \in Docs /\ Paired(B) /\ IsSect(B) /\ B[1] = Begin(t) /\ Begin(t) \in OpensOf(t)
  BY BlockSect
<1>2. Neat(B) /\ Lacks(B, s)
  <2> HIDE DEF B
  <2>1. Lacks(B, s) BY <1>1, SectLacks
  <2>2. ASSUME NEW u \in Sections PROVE ~ Has(B, LBegin(u))
    <3>1. LBegin(u) \in Line /\ Opener(LBegin(u)) /\ LBegin(u) # Begin(t)
      BY OpensAre DEF LBegin, Begin
    <3> QED BY <1>1, <3>1, SectIs
  <2> QED BY <1>1, <2>1, <2>2 DEF Neat, Sound, Modern
<1>3. CASE Lacks(d, t)
  <2>1. ApplySection(d, t, v) = d \o B BY <1>0, <1>3, ApplyAbsent
  <2> HIDE DEF B
  <2>2. Held(d \o B, s) = IF Lacks(d, s) THEN Held(B, s) ELSE Held(d, s)
    BY <1>2, HeldConcat
  <2>3. Held(B, s) = <<>> BY <1>2, LacksHeld DEF Neat
  <2>4. Lacks(d, s) => Held(d, s) = <<>> BY <1>0, LacksHeld
  <2> QED BY <2>1, <2>2, <2>3, <2>4
<1>4. CASE ~ Lacks(d, t)
  <2>1. PICK p, m, q : At(d, t, p, m, q) BY <1>0, <1>4, AtExists
  <2>2. /\ p \in Docs /\ q \in Docs /\ Paired(p) /\ Paired(q) /\ IsSect(m)
        /\ d = (p \o m) \o q /\ m[1] \in OpensOf(t)
    BY <2>1 DEF At
  <2>3. m \in Docs /\ Paired(m) /\ Lacks(m, s) BY <2>2, SectIs, SectLacks
  <2>4. Puts(d, t, v, p, q) BY <2>1, ApplyAt
  <2>5. ApplySection(d, t, v) = (p \o B) \o q BY <2>4 DEF Puts
  <2>6. Neat(p) /\ Neat(m) /\ Neat(q)
    <3>1. \A o : Has(d, o) <=> Has(p, o) \/ Has(m, o) \/ Has(q, o) BY <2>2, <2>3, HasThree
    <3> QED BY <1>0, <2>2, <2>3, <3>1 DEF Neat, Sound, Modern
  <2> HIDE DEF B
  <2>7. Held((p \o m) \o q, s) = IF Lacks(p, s) THEN Held(q, s) ELSE Held(p, s)
    BY <2>3, <2>6, HeldAround
  <2>8. Held((p \o B) \o q, s) = IF Lacks(p, s) THEN Held(q, s) ELSE Held(p, s)
    BY <1>2, <2>6, HeldAround
  <2> QED BY <2>2, <2>5, <2>7, <2>8
<1> QED BY <1>3, <1>4

\* So all the writes leave what is not configured.
LEMMA RunHeld ==
  ASSUME NEW y, Neat(y), NEW conf, NEW v \in Version, NEW G, Runs(y, conf, v, G),
         NEW s \in Sections, s \notin conf
  PROVE  Held(G[Len(Order)], s) = Held(y, s)
<1> DEFINE L == Len(Order)
           S == {k \in 0..L : Held(G[k], s) = Held(y, s)}
<1>0. L \in Nat BY OrderIs
<1>1. G[0] = y /\ \A k \in 1..L : G[k] = One(G[k-1], conf, k, v) BY DEF Runs
<1>2. \A k \in 0..L : Neat(G[k]) BY RunKeeps DEF Neat
<1>3. 0 \in S BY <1>0, <1>1
<1>4. ASSUME NEW i \in 0..L, i \in S, i < L PROVE i+1 \in S
  <2> DEFINE m == i+1
             x == G[i]
             t == Order[m]
  <2>1. m \in 1..L /\ m \in 0..L /\ m-1 = i BY <1>0, <1>4
  <2>2. G[m] = One(x, conf, m, v) /\ Neat(x) /\ Held(x, s) = Held(y, s)
    BY <1>1, <1>2, <1>4, <2>1
  <2>3. t \in Sections BY <2>1, OrderIs
  <2>4. Held(G[m], s) = Held(y, s)
    <3>1. CASE t \notin conf BY <2>2, <3>1 DEF One
    <3>2. CASE t \in conf
      <4>1. G[m] = ApplySection(x, t, v) BY <2>2, <3>2 DEF One
      <4>2. s # t BY <3>2
      <4> HIDE DEF x, t, m
      <4>3. Held(ApplySection(x, t, v), s) = Held(x, s) BY <2>2, <2>3, <4>2, ApplyHeld
      <4> QED BY <2>2, <4>1, <4>3
    <3> QED BY <3>1, <3>2
  <2> QED BY <2>1, <2>4
<1> HIDE DEF S
<1>5. \A i \in 0..L : i \in S BY <1>0, <1>3, <1>4, Upward
<1> QED BY <1>0, <1>5 DEF S

\* A prune leaves what is to be kept, from every cut on.
LEMMA PruneHeld ==
  ASSUME NEW d, Neat(d), NEW keep, NEW s \in Sections, s \in keep
  PROVE  Held(PruneSections(d, keep), s) = Held(d, s)
<1> DEFINE L == Len(d)
           R == PruneRest(d, keep)
           Ok(k) == Held(R[k], s) = Held(Suffix(d, k), s)
                    /\ (Lacks(R[k], s) <=> Lacks(Suffix(d, k), s))
           S == {k \in 1..L+1 : Cut(d, k) => Ok(k)}
<1>d. d \in Docs /\ Paired(d) /\ Modern(d) BY DEF Neat, Sound
<1>0. L \in Nat /\ \A k \in 1..L : d[k] \in Line BY <1>d, DocsIs
<1>1. Prunes(d, keep, R) /\ Rewrites(d, R) BY <1>d, PruneCuts, PruneRewrites
<1>2. R[L+1] = <<>> /\ \A k \in 1..L+1 : Modern(R[k]) BY <1>d, PruneSteps, PruneModern
<1>w. R[1] = PruneSections(d, keep) BY PruneIs
<1> HIDE DEF L, R, Ok, S
<1>3. ASSUME NEW k \in 1..L+1, Cut(d, k) PROVE Neat(R[k])
  <2>1. R[k] \in Docs /\ Paired(R[k]) BY <1>1, <1>2, <1>3, <1>d, RewriteKeeps DEF L
  <2> QED BY <1>2, <2>1 DEF Neat, Sound
<1>4. ASSUME NEW k \in 1..L, NEW j \in k..L, Cut(d, k), Cut(d, j+1), Neat(Suffix(d, k))
      PROVE  /\ Neat(Suffix(d, j+1))
             /\ Suffix(d, k) = SubSeq(d, k, j) \o Suffix(d, j+1)
  <2>1. /\ SubSeq(d, k, j) \in Docs /\ Suffix(d, j+1) \in Docs /\ Paired(Suffix(d, j+1))
        /\ Suffix(d, k) = SubSeq(d, k, j) \o Suffix(d, j+1)
    BY <1>4, <1>d, SuffixStep DEF L
  <2> DEFINE a == SubSeq(d, k, j)
             b == Suffix(d, j+1)
  <2>2. \A o : Has(a \o b, o) <=> Has(a, o) \/ Has(b, o)
    <3> HIDE DEF a, b
    <3> QED BY <2>1, HasConcat DEF a, b
  <2>3. Neat(a \o b) BY <1>4, <2>1
  <2> HIDE DEF a, b
  <2>4. Modern(b) BY <2>2, <2>3 DEF Neat, Modern
  <2> QED BY <2>1, <2>4 DEF Neat, Sound, a, b
<1>5. ASSUME NEW k \in 1..L+1, Cut(d, k) PROVE Neat(Suffix(d, k))
  <2>1. SubSeq(d, 1, k-1) \in Docs /\ Suffix(d, k) \in Docs /\ Paired(Suffix(d, k))
        /\ d = SubSeq(d, 1, k-1) \o Suffix(d, k)
    BY <1>5, <1>d, CutSplit DEF Suffix
  <2> DEFINE a == SubSeq(d, 1, k-1)
             b == Suffix(d, k)
  <2>2. \A o : Has(a \o b, o) <=> Has(a, o) \/ Has(b, o)
    <3> HIDE DEF a, b
    <3> QED BY <2>1, HasConcat DEF a, b
  <2>3. d = a \o b BY <2>1
  <2> HIDE DEF a, b
  <2>4. Modern(b) BY <1>d, <2>2, <2>3 DEF Modern
  <2> QED BY <2>1, <2>4 DEF Neat, Sound, b
<1>6. ASSUME NEW x, NEW y, NEW z, Neat(x), Neat(y), Neat(z), Held(y, s) = Held(z, s),
             Lacks(y, s) <=> Lacks(z, s)
      PROVE  /\ Held(x \o y, s) = Held(x \o z, s)
             /\ Lacks(x \o y, s) <=> Lacks(x \o z, s)
  <2>1. /\ Held(x \o y, s) = IF Lacks(x, s) THEN Held(y, s) ELSE Held(x, s)
        /\ Held(x \o z, s) = IF Lacks(x, s) THEN Held(z, s) ELSE Held(x, s)
    BY <1>6, HeldConcat
  <2>2. /\ Lacks(x \o y, s) <=> Lacks(x, s) /\ Lacks(y, s)
        /\ Lacks(x \o z, s) <=> Lacks(x, s) /\ Lacks(z, s)
    BY <1>6, LacksConcat DEF Neat, Sound
  <2> QED BY <1>6, <2>1, <2>2
<1>7. ASSUME NEW k \in 1..L+1, \A n \in k+1..L+1 : n \in S PROVE k \in S
  <2> SUFFICES ASSUME Cut(d, k) PROVE Ok(k) BY DEF S
  <2>1. CASE k = L+1
    <3>1. Suffix(d, k) = <<>> BY <2>1, <1>0, SubSeqEmpty DEF Suffix, L
    <3> QED BY <3>1, <2>1, <1>2 DEF Ok
  <2>2. CASE k \in 1..L
    <3>1. CASE ~ Marker(d[k]) /\ R[k] = <<d[k]>> \o R[k+1]
      <4> DEFINE x == <<d[k]>>
                 y == R[k+1]
                 z == Suffix(d, k+1)
      <4>1. Cut(d, k+1) /\ k+1 \in 1..L+1 /\ k+1 \in k+1..L+1 /\ k \in k..L
        BY <1>0, <1>d, <2>2, <3>1, CutNext DEF L
      <4>2. Ok(k+1) BY <4>1, <1>7 DEF S
      <4>3. Neat(y) /\ Neat(z) BY <4>1, <1>3, <1>5
      <4>4. Suffix(d, k) = x \o z
        <5>1. SubSeq(d, k, k) = x BY <1>d, <2>2, OneLine DEF L
        <5>2. Suffix(d, k) = SubSeq(d, k, k) \o z BY <1>4, <1>5, <2>2, <4>1
        <5> QED BY <5>1, <5>2
      <4>5. Neat(x)
        <5>1. x \in Docs /\ Paired(x) BY <1>0, <2>2, <3>1, LinePaired
        <5>2. \A o : Has(x, o) <=> d[k] = o BY HasOne
        <5>3. \A u \in Sections : d[k] # LBegin(u) BY <3>1, MarkersAreLines DEF LBegin, Marker
        <5> HIDE DEF x
        <5> QED BY <5>1, <5>2, <5>3 DEF Neat, Sound, Modern
      <4>6. R[k] = x \o y BY <3>1
      <4>7. Held(y, s) = Held(z, s) /\ (Lacks(y, s) <=> Lacks(z, s)) BY <4>2 DEF Ok
      <4> HIDE DEF x, y, z
      <4> QED BY <1>6, <4>3, <4>4, <4>5, <4>6, <4>7 DEF Ok
    <3>2. CASE \E j \in k+1..L :
                 /\ Sect(d, k, j)
                 /\ \/ Gone(d, keep, k) /\ R[k] = R[j+1]
                    \/ ~ Gone(d, keep, k) /\ R[k] = SubSeq(d, k, j) \o R[j+1]
      <4>1. PICK j \in k+1..L :
              /\ Sect(d, k, j)
              /\ \/ Gone(d, keep, k) /\ R[k] = R[j+1]
                 \/ ~ Gone(d, keep, k) /\ R[k] = SubSeq(d, k, j) \o R[j+1]
        BY <3>2
      <4> DEFINE x == SubSeq(d, k, j)
                 y == R[j+1]
                 z == Suffix(d, j+1)
      <4>2. Cut(d, j+1) BY <1>d, <4>1, CutSect
      <4>3. j+1 \in 1..L+1 /\ j+1 \in k+1..L+1 /\ j \in k..L BY <1>0, <2>2
      <4>4. Ok(j+1) BY <4>2, <4>3, <1>7 DEF S
      <4>5. Neat(y) /\ Neat(z) BY <4>2, <4>3, <1>3, <1>5
      <4>6. Suffix(d, k) = x \o z BY <1>4, <1>5, <2>2, <4>2, <4>3
      <4>7. IsSect(x) /\ x \in Docs /\ Paired(x) /\ x[1] = d[k]
        <5>1. Around(d, k, j, SubSeq(d, 1, k-1), x, SubSeq(d, j+1, Len(d)))
          BY <1>d, <4>1, SplitSect
        <5> HIDE DEF x
        <5>2. IsSect(x) /\ x \in Docs /\ In(x, d, k-1) BY <5>1 DEF Around
        <5>3. 1 \in 1..Len(x) /\ Paired(x) BY <5>2, SectIs, DocsIs
        <5>4. x[1] = d[(k-1)+1] BY <5>2, <5>3 DEF In
        <5> QED BY <5>2, <5>3, <5>4
      <4>8. Neat(x)
        <5>1. Neat(x \o z) BY <1>5, <2>2, <4>6
        <5>2. Sound(x) /\ Sound(z) BY <4>5, <4>7 DEF Neat, Sound
        <5> HIDE DEF x, z
        <5> QED BY <5>1, <5>2, NeatParts
      <4>9. Held(y, s) = Held(z, s) /\ (Lacks(y, s) <=> Lacks(z, s)) BY <4>4 DEF Ok
      <4>10. CASE ~ Gone(d, keep, k)
        <5>1. R[k] = x \o y BY <4>1, <4>10
        <5> HIDE DEF x, y, z
        <5> QED BY <1>6, <4>5, <4>6, <4>8, <4>9, <5>1 DEF Ok
      <4>11. CASE Gone(d, keep, k)
        <5>1. R[k] = y BY <4>1, <4>11
        <5>2. d[k] \in Line /\ d[k][1] = "begin" /\ d[k][2] \notin keep
          BY <1>0, <2>2, <4>11 DEF Gone, IsBegin
        <5>3. d[k][2] \in Sections /\ d[k] = Begin(d[k][2]) /\ s # d[k][2] BY <5>2, LineCases
        <5> HIDE DEF x, y, z
        <5>4. Lacks(x, s)
          <6>1. x[1] \in OpensOf(d[k][2]) BY <4>7, <5>3 DEF OpensOf
          <6> QED BY <4>7, <5>3, <6>1, SectLacks
        <5>5. Held(x \o z, s) = Held(z, s) BY <4>5, <4>8, <5>4, HeldConcat
        <5>6. Lacks(x \o z, s) <=> Lacks(z, s) BY <4>5, <4>8, <5>4, LacksConcat DEF Neat, Sound
        <5> QED BY <4>6, <4>9, <5>1, <5>5, <5>6 DEF Ok
      <4> QED BY <4>10, <4>11
    <3> QED BY <1>1, <2>2, <3>1, <3>2 DEF Prunes, L
  <2> QED BY <2>1, <2>2, <1>0
<1>8. \A k \in 1..L+1 : k \in S
  <2>1. L+1 \in Nat BY <1>0
  <2> QED BY <2>1, <1>7, Downward
<1>9. Suffix(d, 1) = d /\ Cut(d, 1) /\ 1 \in 1..L+1 BY <1>d, WholeSuffix DEF L
<1>10. Ok(1) BY <1>8, <1>9 DEF S
<1> QED BY <1>9, <1>10, <1>w DEF Ok

-----------------------------------------------------------------------------
(* Sections that are there once *)

\* A section is once in a concatenation when it is in one part only, and once
\* there.
LEMMA OnceConcat ==
  ASSUME NEW a \in Docs, NEW b \in Docs, NEW s
  PROVE  Once(a \o b, s) <=> Once(a, s) /\ Once(b, s) /\ (Lacks(a, s) \/ Lacks(b, s))
<1> DEFINE c == a \o b
           O == OpensOf(s)
           m == Len(a)
<1>1. /\ c \in Docs /\ Len(c) = m + Len(b) /\ In(a, c, 0) /\ In(b, c, m)
      /\ m \in Nat /\ Len(b) \in Nat
  BY InConcat, DocsIs
<1> HIDE DEF c, O, m
<1>2. \A i \in 1..m : i \in 1..Len(c) /\ c[i] = a[i]
  <2> TAKE i \in 1..m
  <2>1. i \in 1..Len(a) /\ 0+i = i BY <1>1 DEF m
  <2> QED BY <2>1, <1>1 DEF In
<1>3. \A i \in 1..Len(b) : m+i \in 1..Len(c) /\ c[m+i] = b[i] BY <1>1 DEF In
<1>4. ASSUME NEW i \in 1..Len(c), i \notin 1..m
      PROVE  i-m \in 1..Len(b) /\ c[i] = b[i-m] /\ m+(i-m) = i
  <2>1. i-m \in 1..Len(b) /\ m+(i-m) = i BY <1>1, <1>4
  <2> QED BY <2>1, <1>3
<1>5. ASSUME Once(c, s) PROVE Once(a, s) /\ Once(b, s) /\ (Lacks(a, s) \/ Lacks(b, s))
  <2>1. \A i, j \in 1..Len(c) : c[i] \in O /\ c[j] \in O => i = j BY <1>5 DEF Once, O
  <2>2. \A i, j \in 1..m : a[i] \in O /\ a[j] \in O => i = j BY <1>2, <2>1
  <2>3. \A i, j \in 1..Len(b) : b[i] \in O /\ b[j] \in O => i = j
    <3> TAKE i, j \in 1..Len(b)
    <3> HAVE b[i] \in O /\ b[j] \in O
    <3>1. m+i = m+j BY <1>3, <2>1
    <3> QED BY <3>1, <1>1
  <2>4. ASSUME ~ Lacks(a, s), ~ Lacks(b, s) PROVE FALSE
    <3>1. PICK i \in 1..Len(a) : a[i] \in O BY <2>4 DEF Lacks, Has, O
    <3>2. PICK j \in 1..Len(b) : b[j] \in O BY <2>4 DEF Lacks, Has, O
    <3>3. i \in 1..m BY <3>1 DEF m
    <3>4. i = m+j BY <3>1, <3>2, <3>3, <1>2, <1>3, <2>1
    <3> QED BY <3>2, <3>3, <3>4, <1>1
  <2> QED BY <2>2, <2>3, <2>4 DEF Once, O, m
<1>6. ASSUME Once(a, s), Once(b, s), Lacks(a, s) \/ Lacks(b, s) PROVE Once(c, s)
  <2>1. \A i, j \in 1..m : a[i] \in O /\ a[j] \in O => i = j BY <1>6 DEF Once, O, m
  <2>2. \A i, j \in 1..Len(b) : b[i] \in O /\ b[j] \in O => i = j BY <1>6 DEF Once, O
  <2>3. (\A i \in 1..m : a[i] \notin O) \/ (\A i \in 1..Len(b) : b[i] \notin O)
    BY <1>6 DEF Lacks, Has, O, m
  <2> SUFFICES ASSUME NEW i \in 1..Len(c), NEW j \in 1..Len(c), c[i] \in O, c[j] \in O
               PROVE  i = j
    BY DEF Once, O
  <2>4. CASE i \in 1..m /\ j \in 1..m BY <2>4, <1>2, <2>1
  <2>5. CASE i \in 1..m /\ j \notin 1..m BY <2>5, <1>2, <1>4, <2>3
  <2>6. CASE i \notin 1..m /\ j \in 1..m BY <2>6, <1>2, <1>4, <2>3
  <2>7. CASE i \notin 1..m /\ j \notin 1..m
    <3>1. i-m = j-m BY <2>7, <1>4, <2>2
    <3> QED BY <3>1, <1>1
  <2> QED BY <2>4, <2>5, <2>6, <2>7
<1> QED BY <1>5, <1>6 DEF c

\* The same of three files.
LEMMA OnceThree ==
  ASSUME NEW a \in Docs, NEW m \in Docs, NEW b \in Docs, NEW s
  PROVE  Once((a \o m) \o b, s) <=>
           /\ Once(a, s) /\ Once(m, s) /\ Once(b, s)
           /\ \/ Lacks(a, s) /\ Lacks(m, s)
              \/ Lacks(a, s) /\ Lacks(b, s)
              \/ Lacks(m, s) /\ Lacks(b, s)
<1> DEFINE c == a \o m
<1>1. c \in Docs BY InConcat
<1>2. Once(c, s) <=> Once(a, s) /\ Once(m, s) /\ (Lacks(a, s) \/ Lacks(m, s)) BY OnceConcat
<1>3. Lacks(c, s) <=> Lacks(a, s) /\ Lacks(m, s) BY LacksConcat
<1> HIDE DEF c
<1>4. Once(c \o b, s) <=> Once(c, s) /\ Once(b, s) /\ (Lacks(c, s) \/ Lacks(b, s))
  BY <1>1, OnceConcat
<1> QED BY <1>2, <1>3, <1>4 DEF c

\* What is not there is there once at most.
LEMMA LacksOnce == ASSUME NEW d, NEW s, Lacks(d, s) PROVE Once(d, s)
BY DEF Lacks, Once, Has

\* A section has one begin marker.
LEMMA SectOnce ==
  ASSUME NEW s \in Sections, NEW m, IsSect(m) PROVE Once(m, s)
<1>1. \A o \in OpensOf(s) : o \in Line /\ Opener(o) BY OpensAre
<1>2. /\ m \in Docs /\ Sect(m, 1, Len(m)) /\ Len(m) > 1 BY SectIs
<1>3. /\ Closer(m[Len(m)]) /\ m[Len(m)] \in Line
      /\ \A k \in 1+1..Len(m)-1 : ~ Marker(m[k])
  BY <1>2, SectBounds
<1>4. ASSUME NEW i \in 1..Len(m), m[i] \in OpensOf(s) PROVE i = 1
  <2>1. i # Len(m) BY <1>1, <1>3, <1>4, NotBoth
  <2>2. i \notin 1+1..Len(m)-1 BY <1>1, <1>3, <1>4 DEF Marker
  <2> QED BY <2>1, <2>2, <1>2, DocsIs
<1> QED BY <1>4 DEF Once

\* A write brings no second one.
LEMMA OneOnce ==
  ASSUME NEW x, Sound(x), NEW conf, NEW n \in 1..Len(Order), NEW v \in Version,
         NEW s \in Sections, Once(x, s)
  PROVE  Once(One(x, conf, n, v), s)
<1> DEFINE t == Order[n]
           B == Block(t, v)
<1>0. t \in Sections /\ x \in Docs /\ Paired(x) BY OrderIs DEF Sound
<1>b. B \in Docs /\ IsSect(B) /\ B[1] = Begin(t) /\ Begin(t) \in OpensOf(t)
  BY <1>0, BlockSect
<1>l. s # t => Lacks(B, s)
  <2> HIDE DEF B, t
  <2> QED BY <1>0, <1>b, SectLacks
<1>o. Once(B, s) BY <1>b, SectOnce
<1>1. CASE t \notin conf BY <1>1 DEF One
<1>2. CASE t \in conf /\ Lacks(x, t)
  <2>1. One(x, conf, n, v) = x \o B BY <1>0, <1>2, ApplyAbsent DEF One
  <2> HIDE DEF B, t
  <2>2. Lacks(x, s) \/ Lacks(B, s) BY <1>2, <1>l
  <2>3. Once(x \o B, s) BY <1>0, <1>b, <1>o, <2>2, OnceConcat
  <2> QED BY <2>1, <2>3
<1>3. CASE t \in conf /\ ~ Lacks(x, t)
  <2>1. PICK a, m, b : At(x, t, a, m, b) BY <1>0, <1>3, AtExists
  <2>2. a \in Docs /\ b \in Docs /\ IsSect(m) /\ x = (a \o m) \o b /\ m[1] \in OpensOf(t)
    BY <2>1 DEF At
  <2>3. m \in Docs BY <2>2, SectIs
  <2>4. Puts(x, t, v, a, b) BY <1>0, <2>1, ApplyAt
  <2>5. One(x, conf, n, v) = (a \o B) \o b BY <1>3, <2>4 DEF Puts, One
  <2> HIDE DEF B, t
  <2>6. /\ Once(a, s) /\ Once(m, s) /\ Once(b, s)
        /\ \/ Lacks(a, s) /\ Lacks(m, s)
           \/ Lacks(a, s) /\ Lacks(b, s)
           \/ Lacks(m, s) /\ Lacks(b, s)
    BY <2>2, <2>3, OnceThree
  <2>7. s = t => ~ Lacks(m, s)
    <3>1. 1 \in 1..Len(m) BY <2>2, <2>3, SectIs, DocsIs
    <3>2. Has(m, m[1]) BY <3>1 DEF Has
    <3> QED BY <3>2, <2>2 DEF Lacks
  <2>8. \/ Lacks(a, s) /\ Lacks(B, s)
        \/ Lacks(a, s) /\ Lacks(b, s)
        \/ Lacks(B, s) /\ Lacks(b, s)
    BY <2>6, <2>7, <1>l
  <2>9. Once((a \o B) \o b, s) BY <2>2, <2>6, <2>8, <1>b, <1>o, OnceThree
  <2> QED BY <2>5, <2>9
<1> QED BY <1>1, <1>2, <1>3

-----------------------------------------------------------------------------
(* What an init leaves *)

\* A suffix is its first lines and the suffix behind them.
LEMMA SuffixSplit ==
  ASSUME NEW d \in Docs, NEW i \in 1..Len(d), NEW j \in i..Len(d)
  PROVE  /\ SubSeq(d, i, j) \in Docs /\ Suffix(d, i) \in Docs /\ Suffix(d, j+1) \in Docs
         /\ Suffix(d, i) = SubSeq(d, i, j) \o Suffix(d, j+1)
<1>0. Len(d) \in Nat BY DocsIs
<1>1. SubSeq(d, i, j) \in Docs
  <2>1. i \in 1..Len(d)+1 /\ j \in i-1..Len(d) BY <1>0
  <2> QED BY <2>1, InSubSeq
<1>2. Suffix(d, i) \in Docs
  <2>1. i \in 1..Len(d)+1 /\ Len(d) \in i-1..Len(d) BY <1>0
  <2> QED BY <2>1, InSubSeq DEF Suffix
<1>3. Suffix(d, j+1) \in Docs
  <2> DEFINE k == j+1
  <2>1. k \in 1..Len(d)+1 /\ Len(d) \in k-1..Len(d) BY <1>0
  <2> HIDE DEF k
  <2>2. SubSeq(d, k, Len(d)) \in Docs BY <2>1, InSubSeq
  <2> QED BY <2>2 DEF Suffix, k
<1>4. Suffix(d, i) = SubSeq(d, i, j) \o Suffix(d, j+1)
  <2>1. i \in 1..Len(d)+1 /\ j \in i-1..Len(d) /\ Len(d) \in j..Len(d) BY <1>0
  <2> QED BY <2>1, ConcatAdjacentSubSeq DEF Suffix, Docs
<1> QED BY <1>1, <1>2, <1>3, <1>4

\* A prune writes no second section of a name.
Thins(a, b, s) == (Lacks(a, s) => Lacks(b, s)) /\ (Once(a, s) => Once(b, s))

\* So it is for every suffix of the file, from the last to the first.
LEMMA PruneOnce ==
  ASSUME NEW d \in Docs, NEW conf, NEW s
  PROVE  Thins(d, PruneSections(d, conf), s)
<1> DEFINE L == Len(d)
           R == PruneRest(d, conf)
           S == {i \in 1..L+1 : Thins(Suffix(d, i), R[i], s)}
<1>0. L \in Nat /\ \A i \in 1..L : d[i] \in Line BY DocsIs
<1>1. /\ R[L+1] = <<>>
      /\ \A i \in 1..L+1 : R[i] \in Docs
      /\ \A i \in 1..L : ~ Gone(d, conf, i) => R[i] = <<d[i]>> \o R[i+1]
      /\ \A i \in 1..L : Gone(d, conf, i) => R[i] = R[EndAt(d, i)+1]
  BY PruneSteps
<1> HIDE DEF R, S
<1>2. ASSUME NEW i \in 1..L+1, \A k \in i+1..L+1 : k \in S PROVE i \in S
  <2>1. CASE i = L+1
    <3>1. \A o : ~ Has(<<>>, o)
      <4>1. ~ \E n \in 1..Len(<<>>) : TRUE OBVIOUS
      <4> QED BY <4>1 DEF Has
    <3>2. Lacks(R[i], s) BY <1>1, <2>1, <3>1 DEF Lacks
    <3>3. Thins(Suffix(d, i), R[i], s) BY <3>2, LacksOnce DEF Thins
    <3> QED BY <3>3 DEF S
  <2>2. CASE i \in 1..L /\ Gone(d, conf, i)
    <3> DEFINE e == EndAt(d, i)
               x == SubSeq(d, i, e)
               b == Suffix(d, e+1)
    <3>1. e \in i+1..L
      <4>1. e # 0 => e \in i+1..L BY <2>2, EndAtIs
      <4> QED BY <4>1, <2>2 DEF Gone
    <3>2. e+1 \in i+1..L+1 /\ e \in i..L BY <1>0, <3>1
    <3>3. x \in Docs /\ b \in Docs /\ Suffix(d, i) = x \o b BY <2>2, <3>2, SuffixSplit
    <3>4. R[i] = R[e+1] /\ Thins(b, R[e+1], s) BY <1>1, <1>2, <2>2, <3>2 DEF S
    <3> HIDE DEF x, b, e
    <3>5. Lacks(x \o b, s) => Lacks(b, s) BY <3>3, LacksConcat
    <3>6. Once(x \o b, s) => Once(b, s) BY <3>3, OnceConcat
    <3>7. Thins(Suffix(d, i), R[i], s) BY <3>3, <3>4, <3>5, <3>6 DEF Thins
    <3> QED BY <3>7 DEF S
  <2>3. CASE i \in 1..L /\ ~ Gone(d, conf, i)
    <3> DEFINE x == <<d[i]>>
               b == Suffix(d, i+1)
               z == R[i+1]
    <3>1. i+1 \in i+1..L+1 /\ i+1 \in 1..L+1 /\ i \in i..L BY <1>0, <2>3
    <3>2. x \in Docs /\ b \in Docs /\ Suffix(d, i) = x \o b
      <4>1. SubSeq(d, i, i) = x BY <2>3, OneLine
      <4>2. SubSeq(d, i, i) \in Docs /\ b \in Docs /\ Suffix(d, i) = SubSeq(d, i, i) \o b
        BY <2>3, <3>1, SuffixSplit
      <4> QED BY <4>1, <4>2
    <3>3. z \in Docs /\ R[i] = x \o z /\ Thins(b, z, s)
      <4>1. z \in Docs /\ R[i] = x \o z BY <1>1, <2>3, <3>1
      <4>2. Thins(b, z, s) BY <1>2, <3>1 DEF S
      <4> QED BY <4>1, <4>2
    <3> HIDE DEF x, b, z
    <3>4. Lacks(x \o b, s) <=> Lacks(x, s) /\ Lacks(b, s) BY <3>2, LacksConcat
    <3>5. Lacks(x \o z, s) <=> Lacks(x, s) /\ Lacks(z, s) BY <3>2, <3>3, LacksConcat
    <3>6. Once(x \o b, s) <=> Once(x, s) /\ Once(b, s) /\ (Lacks(x, s) \/ Lacks(b, s))
      BY <3>2, OnceConcat
    <3>7. Once(x \o z, s) <=> Once(x, s) /\ Once(z, s) /\ (Lacks(x, s) \/ Lacks(z, s))
      BY <3>2, <3>3, OnceConcat
    <3>8. Thins(Suffix(d, i), R[i], s)
      BY <3>2, <3>3, <3>4, <3>5, <3>6, <3>7 DEF Thins
    <3> QED BY <3>8 DEF S
  <2> QED BY <2>1, <2>2, <2>3, <1>0
<1>3. \A i \in 1..L+1 : i \in S
  <2>1. L+1 \in Nat BY <1>0
  <2> QED BY <2>1, <1>2, Downward
<1>4. Thins(Suffix(d, 1), R[1], s) BY <1>0, <1>3 DEF S
<1>5. Suffix(d, 1) = d BY WholeSuffix
<1>6. PruneSections(d, conf) = R[1] BY PruneIs DEF R
<1> QED BY <1>4, <1>5, <1>6

\* All the writes bring no second one.
LEMMA RunOnce ==
  ASSUME NEW y, Sound(y), NEW conf, NEW v \in Version, NEW G, Runs(y, conf, v, G),
         NEW s \in Sections, Once(y, s)
  PROVE  Once(G[Len(Order)], s)
<1> DEFINE L == Len(Order)
           S == {k \in 0..L : Once(G[k], s)}
<1>0. L \in Nat BY OrderIs
<1>1. G[0] = y /\ \A k \in 1..L : G[k] = One(G[k-1], conf, k, v) BY DEF Runs
<1>2. \A k \in 0..L : Sound(G[k]) BY RunKeeps
<1>3. 0 \in S BY <1>0, <1>1
<1>4. ASSUME NEW i \in 0..L, i \in S, i < L PROVE i+1 \in S
  <2> DEFINE m == i+1
             x == G[i]
  <2>1. m \in 1..L /\ m \in 0..L /\ m-1 = i BY <1>0, <1>4
  <2>2. G[m] = One(x, conf, m, v) /\ Sound(x) /\ Once(x, s) BY <1>1, <1>2, <1>4, <2>1
  <2> HIDE DEF x, m
  <2>3. Once(One(x, conf, m, v), s) BY <2>1, <2>2, OneOnce
  <2> QED BY <2>1, <2>2, <2>3 DEF m
<1> HIDE DEF S
<1>5. \A i \in 0..L : i \in S BY <1>0, <1>3, <1>4, Upward
<1> QED BY <1>0, <1>5 DEF S

\* What an init leaves of one section.
InitLeaves(d, conf, v, s) ==
  LET done == InitSections(d, conf, v)
  IN /\ s \in conf => /\ Held(done, s) = Block(s, v)
                      /\ Once(d, s) => Once(done, s)
     /\ s \in Sticky \ conf => Held(done, s) = Held(Migrated(d), s)
     /\ s \notin conf \cup Sticky => First(done, Begin(s)) = 0

\* An init leaves that, whatever it starts from.
LEMMA InitIs ==
  ASSUME NEW d, Sound(d), NEW conf, NEW v \in Version, NEW s \in Sections
  PROVE  InitLeaves(d, conf, v, s)
<1> DEFINE e == Migrated(d)
           k == conf \cup Sticky
           y == PruneSections(e, k)
           G == Inits(y, conf, v)
           done == G[Len(Order)]
<1>m. Sound(e) /\ Modern(e) /\ BlocksSafe(e) BY MigratedSound
<1>1. InitSections(d, conf, v) = done BY <1>m, InitWritesIs DEF InitSections
<1>2. Sound(y) /\ Modern(y) /\ Only(y, k) BY Pruned
<1>3. Runs(y, conf, v, G) BY InitsRun
<1>4. Once(d, s) => Once(y, s)
  <2>1. Once(d, s) => Once(e, s) BY MigratedOnce DEF Sound
  <2> HIDE DEF e
  <2>2. e \in Docs BY <1>m DEF Sound
  <2> QED BY <2>1, <2>2, PruneOnce DEF Thins
<1>h. s \in k => Held(y, s) = Held(e, s)
  <2> HIDE DEF e, k
  <2> QED BY <1>m, PruneHeld DEF Neat
<1>k. s \notin k <=> s \notin conf /\ s \notin Sticky OBVIOUS
<1>c. \A t \in Sections : t \in conf => t \in k OBVIOUS
<1> HIDE DEF y, G, k
<1>5. Len(Order) \in 0..Len(Order) BY OrderIs
<1>6. Sound(done) /\ Only(done, k)
  <2>1. /\ Sound(done)
        /\ \A t \in Sections : Has(done, Begin(t)) => Has(y, Begin(t)) \/ t \in conf
    BY <1>2, <1>3, <1>5, RunKeeps
  <2> QED BY <1>2, <1>c, <2>1 DEF Only
<1>7. Once(d, s) => Once(done, s) BY <1>2, <1>3, <1>4, RunOnce
<1>8. s \in conf => Current(done, s, v)
  <2> SUFFICES ASSUME s \in conf PROVE Current(done, s, v) OBVIOUS
  <2>1. PICK n \in 1..Len(Order) : Order[n] = s BY OrderIs
  <2>2. Current(done, Order[n], v) BY <1>2, <1>3, <2>1, RunCurrent
  <2> QED BY <2>1, <2>2
<1>t. s \in Sticky \ conf => Held(done, s) = Held(e, s)
  <2> SUFFICES ASSUME s \in Sticky, s \notin conf PROVE Held(done, s) = Held(e, s) OBVIOUS
  <2> HIDE DEF e
  <2>1. Held(done, s) = Held(y, s) BY <1>2, <1>3, RunHeld DEF Neat
  <2> QED BY <1>h, <1>k, <2>1
<1> HIDE DEF done
<1>9. s \in conf => Held(done, s) = Block(s, v) BY <1>6, <1>8, CurrentIs
<1>10. s \notin k => First(done, Begin(s)) = 0
  <2> SUFFICES ASSUME s \notin k PROVE First(done, Begin(s)) = 0 OBVIOUS
  <2>1. ~ Has(done, Begin(s)) BY <1>6 DEF Only
  <2>2. done \in Docs BY <1>6 DEF Sound
  <2>3. First(done, Begin(s)) # 0 => Has(done, Begin(s)) BY <2>2, FirstIs DEF Has
  <2> QED BY <2>1, <2>3
<1>11. s \notin conf \cup Sticky => s \notin k BY <1>k
<1> QED BY <1>1, <1>7, <1>9, <1>10, <1>11, <1>t DEF InitLeaves

\* Cleaning what an apply appended gives the file back.
LEMMA CleanApply ==
  ASSUME NEW d, Sound(d), NEW s \in Sections, NEW v \in Version, LocateSection(d, s) = <<>>
  PROVE  CleanSection(ApplySection(d, s, v), s) = d
<1> DEFINE B == Block(s, v)
           f == ApplySection(d, s, v)
           i == Len(d)+1
           j == Len(d)+Len(B)
<1>0. d \in Docs /\ Paired(d) BY DEF Sound
<1>1. Lacks(d, s)
  <2>1. ASSUME NEW k, NEW l PROVE <<k, l>> # <<>> OBVIOUS
  <2>2. Absent(d, s) BY <1>0, <2>1, Located
  <2> QED BY <2>2, LacksAbsent
<1>2. At(f, s, d, B, <<>>) BY <1>0, <1>1, ApplyAbsent
<1> DEFINE e == <<>>
<1>3. e = <<>> OBVIOUS
<1> HIDE DEF e, f, B
<1>4. Found(f, s, i, j, B) /\ Replaces(f, <<i, j>>, d, e) BY <1>2, <1>3, AtReplace
<1> HIDE DEF i, j
<1>5. LocateSection(f, s) = <<i, j>> BY <1>4 DEF Found
<1>6. Replace(f, <<i, j>>, <<>>) = (d \o <<>>) \o <<>> BY <1>3, <1>4 DEF Replaces
<1>7. <<i, j>> # <<>> OBVIOUS
<1>8. CleanSection(f, s) = Replace(f, <<i, j>>, <<>>) BY <1>5, <1>7 DEF CleanSection
<1>9. d \o <<>> = d BY <1>0, Empty
<1> QED BY <1>6, <1>8, <1>9 DEF f

-----------------------------------------------------------------------------
(* Copies that were written *)

\* A copy that starts with the bundled lines c, its only stop behind them.
Closed(e, c) ==
  /\ e \in Docs /\ OneStop(e) /\ Len(e) >= 2 /\ e[1] \notin Stops /\ e[2] \in Stops
  /\ SubSeq(e, 1, 1) = c /\ e = c \o SubSeq(e, 2, Len(e))

\* A copy with a stop becomes one.
LEMMA MergeClosed ==
  ASSUME NEW d \in Docs, NEW v \in Version, Bare(d), OneStop(d), StopIndex(d) > 0
  PROVE  Closed(PrepareManagedDoc(d, v), Bundled(v))
<1> DEFINE e == PrepareManagedDoc(d, v)
           c == Bundled(v)
           k == StopIndex(d)
<1>0. Len(d) \in Nat /\ k \in 1..Len(d) /\ k # 0 BY DocsIs, StopIs
<1>1. e = MergeManagedDoc(d, v) BY DEF PrepareManagedDoc
<1>2. Merged(d, e, c, k) BY <1>0, <1>1, MergeIs
<1>3. e = c \o SubSeq(d, k, Len(d)) BY <1>1 DEF MergeManagedDoc
<1>4. OneStop(e) BY PrepareType
<1>5. c[1] \notin Stops BY BundledIs
<1> HIDE DEF e, c, k
<1>6. /\ e \in Docs /\ StopIndex(e) = 2 /\ e[1] = c[1]
      /\ SubSeq(e, 2, Len(e)) = SubSeq(d, k, Len(d)) /\ SubSeq(e, 1, 1) = c
  BY <1>2 DEF Merged
<1>7. Len(e) \in Nat /\ 2 \in 1..Len(e) /\ e[2] \in Stops BY <1>6, StopIs, DocsIs
<1>9. e = c \o SubSeq(e, 2, Len(e)) BY <1>3, <1>6, Zenon
<1>8. Closed(e, c)
  <2>1. Len(e) >= 2 BY <1>7
  <2> QED BY <1>4, <1>5, <1>6, <1>7, <1>9, <2>1, Zenon DEF Closed
<1> QED BY <1>8 DEF e, c

\* So does one with neither a stop nor local lines.
LEMMA FreshClosed ==
  ASSUME NEW d \in Docs, NEW v \in Version, Bare(d), OneStop(d),
         ~ (StopIndex(d) > 0), ~ LocalAppend(d, v)
  PROVE  Closed(PrepareManagedDoc(d, v), Bundled(v))
<1> DEFINE c == Bundled(v)
           s == <<Stop>>
           e == PrepareManagedDoc(d, v)
<1>1. e = c \o s BY DEF PrepareManagedDoc
<1>2. c \in Docs /\ Len(c) = 1 /\ c[1] \notin Stops BY BundledIs
<1>3. IsTwo(c \o s, c[1], Stop) BY <1>2, StopsAre, TwoLines
<1>4. OneStop(e) BY PrepareType
<1> HIDE DEF e, c
<1>5. e \in Docs /\ Len(e) = 2 /\ e[1] = c[1] /\ e[2] = Stop BY <1>1, <1>3 DEF IsTwo
<1>6. SubSeq(e, 2, Len(e)) = s
  <2>1. 2 \in 1..Len(e) BY <1>5
  <2>2. SubSeq(e, 2, 2) = <<e[2]>> BY <1>5, <2>1, OneLine
  <2> QED BY <1>5, <2>2
<1>7. SubSeq(e, 1, 1) = c
  <2>1. 1 \in 1..Len(e) /\ 1 \in 1..Len(c) BY <1>2, <1>5
  <2>2. SubSeq(e, 1, 1) = <<e[1]>> BY <1>5, <2>1, OneLine
  <2>3. SubSeq(c, 1, 1) = <<c[1]>> BY <1>2, <2>1, OneLine
  <2>4. SubSeq(c, 1, Len(c)) = c BY <1>2, SubSeqFull DEF Docs
  <2> QED BY <1>2, <1>5, <2>2, <2>3, <2>4
<1>8. Stop \in Stops BY StopsAre
<1> HIDE DEF s
<1>9. Closed(e, c) BY <1>1, <1>2, <1>4, <1>5, <1>6, <1>7, <1>8 DEF Closed
<1> QED BY <1>9 DEF e, c

\* What such a copy is taken for.
LEMMA ClosedIs ==
  ASSUME NEW e, NEW v \in Version, Closed(e, Bundled(v))
  PROVE  Extract(e) = Bundled(v) /\ PrepareManagedDoc(e, v) = e
<1> DEFINE c == Bundled(v)
           f == First(e, Stop)
           g == First(e, OldStop)
<1>1. /\ e \in Docs /\ OneStop(e) /\ Len(e) >= 2 /\ e[1] \notin Stops /\ e[2] \in Stops
      /\ SubSeq(e, 1, 1) = c /\ e = c \o SubSeq(e, 2, Len(e))
  BY DEF Closed
<1>0. Len(e) \in Nat /\ 2 \in 1..Len(e) BY <1>1, DocsIs
<1>s. Stop \in Stops /\ OldStop \in Stops /\ Stops = {Stop, OldStop} BY StopsAre DEF Stops
<1>2. \A k \in 1..Len(e) : e[k] \in Stops => k = 2 BY <1>0, <1>1 DEF OneStop
<1>3. /\ f \in Nat /\ (f # 0 => f = 2)
      /\ (f = 0 => e[2] # Stop)
  <2>1. /\ f \in Nat
        /\ f = 0 => \A k \in 1..Len(e) : e[k] # Stop
        /\ f # 0 => f \in 1..Len(e) /\ e[f] = Stop
    BY <1>1, FirstIs
  <2> HIDE DEF f
  <2> QED BY <2>1, <1>0, <1>2, <1>s
<1>4. /\ g \in Nat /\ (g # 0 => g = 2)
      /\ (g = 0 => e[2] # OldStop)
  <2>1. /\ g \in Nat
        /\ g = 0 => \A k \in 1..Len(e) : e[k] # OldStop
        /\ g # 0 => g \in 1..Len(e) /\ e[g] = OldStop
    BY <1>1, FirstIs
  <2> HIDE DEF g
  <2> QED BY <2>1, <1>0, <1>2, <1>s
<1> DEFINE k == IF f > 0 THEN f ELSE g
<1>5. k = 2
  <2> HIDE DEF f, g
  <2> QED BY <1>1, <1>3, <1>4, <1>s
<1>6. Extract(e) = IF k > 0 THEN SubSeq(e, 1, k-1) ELSE e BY DEF Extract
<1> HIDE DEF k, c
<1>7. Extract(e) = c
  <2>1. k > 0 /\ k-1 = 1 BY <1>5
  <2> QED BY <2>1, <1>1, <1>6
<1>8. StopIndex(e) = 2
  <2>1. /\ StopIndex(e) \in Nat
        /\ StopIndex(e) = 0 => \A n \in 1..Len(e) : e[n] \notin Stops
        /\ StopIndex(e) # 0 => StopIndex(e) \in 1..Len(e) /\ e[StopIndex(e)] \in Stops
    BY <1>1, StopIs
  <2> QED BY <2>1, <1>0, <1>1, <1>2
<1>9. PrepareManagedDoc(e, v) = c \o SubSeq(e, 2, Len(e))
  <2>1. StopIndex(e) > 0 BY <1>8
  <2>2. PrepareManagedDoc(e, v) = MergeManagedDoc(e, v) BY <2>1 DEF PrepareManagedDoc
  <2> QED BY <2>2, <1>8 DEF MergeManagedDoc, c
<1> QED BY <1>1, <1>7, <1>9 DEF c

\* Configured for every number of sections and versions: after an init every
\* configured section is up to date and there once, every other sticky one is as
\* it was, no other one is left, cleaning what was appended gives the file back,
\* and a copy that was written is taken as up to date and written no more.
THEOREM InitConfigures == Spec => []Configured
<1>1. ASSUME DocsInv PROVE Configured
  <2>1. ASSUME kind = "sections", ~ torn, NEW conf \in SUBSET Sections, NEW v \in Version,
               NEW s \in Sections
        PROVE  /\ InitLeaves(doc, conf, v, s)
               /\ LocateSection(doc, s) = <<>> =>
                    CleanSection(ApplySection(doc, s, v), s) = doc
    <3>1. Sound(doc) BY <1>1, <2>1 DEF DocsInv, Sound
    <3> QED BY <3>1, InitIs, CleanApply
  <2>2. ASSUME kind = "copy", NEW v \in Version
        PROVE  LET new == PrepareManagedDoc(doc, v)
               IN IF LocalAppend(doc, v) /\ StopIndex(doc) = 0 THEN new = doc
                  ELSE Extract(new) = Bundled(v) /\ PrepareManagedDoc(new, v) = new
    <3>1. doc \in Docs /\ Bare(doc) /\ OneStop(doc) BY <1>1, <2>2 DEF DocsInv
    <3>2. StopIndex(doc) \in Nat BY <3>1, StopIs
    <3>3. CASE StopIndex(doc) > 0
      <4>1. Closed(PrepareManagedDoc(doc, v), Bundled(v)) BY <3>1, <3>3, MergeClosed
      <4> QED BY <4>1, <3>3, ClosedIs
    <3>4. CASE ~ (StopIndex(doc) > 0) /\ ~ LocalAppend(doc, v)
      <4>1. Closed(PrepareManagedDoc(doc, v), Bundled(v)) BY <3>1, <3>4, FreshClosed
      <4> QED BY <4>1, <3>4, ClosedIs
    <3>5. CASE ~ (StopIndex(doc) > 0) /\ LocalAppend(doc, v)
      <4>1. PrepareManagedDoc(doc, v) = doc BY <3>5 DEF PrepareManagedDoc
      <4> QED BY <4>1, <3>2, <3>5
    <3> QED BY <3>3, <3>4, <3>5
  <2> QED BY <2>1, <2>2, Zenon DEF Configured, InitLeaves
<1>2. DocsInv => Configured BY <1>1
<1> QED BY <1>2, DocsInvariant, PTL

=============================================================================
