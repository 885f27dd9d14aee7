---------------------------- MODULE ServerProofs ----------------------------
(***************************************************************************)
(* Theorems about LocalServer, for any servers, builds, records, cap of    *)
(* the spool and number of faults.  As long as no start removed the path   *)
(* of a listening server and services were joined in time, one collector   *)
(* runs at most (CInv), which is why a record is stored once (Once).       *)
(* What was taken is kept and the spool keeps to its cap whatever happens: *)
(* the lock of the spool has one holder, who has counted the files (Room), *)
(* and a drain has stored the record whose file it removes, or has found   *)
(* no tool call for it (Eaten).                                            *)
(***************************************************************************)
EXTENDS LocalServer, FiniteSetTheorems, FunctionTheorems, SequenceTheorems, TLAPS

\* What a collector does.
Drains(s) == Drain(s) \/ ConsumeFails(s) \/ RemoveFails(s)

\* A server that listens owns the path, and services run only in a server
\* that listens and has not joined them.
Owner ==
  \A s \in Servers :
    /\ Listening(s) => path = s
    /\ s \in services => pc[s] \in {"serve", "join"}

\* What a drain leaves alone.
LEMMA DrainFrame ==
  ASSUME NEW s \in Servers, Drains(s)
  PROVE  UNCHANGED <<claim, services, overdue, sender, result, listing, temp>>
BY DEF Drains, Drain, Tick, Missed, Consume, Discard, Unknown, Quarantine, RemoveFile,
       ConsumeFails, RemoveFails, spool

CInv ==
  /\ pc \in [Servers -> {"off", "lstat", "probe", "remove", "ask", "await",
                         "listen", "serve", "join", "release", "exit", "over"}]
  /\ path \in Servers \cup {None} /\ services \subseteq Servers
  /\ misjudged \in BOOLEAN /\ overdue \in BOOLEAN
  /\ ~ misjudged /\ ~ overdue => Owner

LEMMA CInvStep == CInv /\ [Next]_vars => CInv'
<1> SUFFICES ASSUME CInv, [Next]_vars PROVE CInv'
  OBVIOUS
<1> USE ServerAssumption DEF ServerAssumption, CInv, Owner, Listening, At, Go
<1>1. ASSUME NEW s \in Servers,
             Start(s) \/ Lstat(s) \/ Answered(s) \/ NoAnswer(s)
             \/ AskShutdown(s) \/ Released(s) \/ TakeoverTimeout(s) \/ Cancel(s)
      PROVE  CInv'
  BY <1>1 DEF Start, Lstat, Answered, NoAnswer, AskShutdown, Released,
              TakeoverTimeout, Cancel, collector
<1>2. ASSUME NEW s \in Servers, RemoveStale(s) PROVE CInv'
  BY <1>2 DEF RemoveStale, collector
<1>3. ASSUME NEW s \in Servers, Listen(s) PROVE CInv'
  BY <1>3 DEF Listen
<1>4. ASSUME NEW s \in Servers, Joined(s) \/ NotJoined(s) \/ Release(s) PROVE CInv'
  BY <1>4 DEF Joined, NotJoined, Release, collector
<1>5. ASSUME NEW s \in Servers, Exit(s) \/ Kill(s) PROVE CInv'
  BY <1>5 DEF Exit, Kill, Gone
<1>6. ASSUME NEW s \in Servers, Drains(s) PROVE CInv'
  BY <1>6, DrainFrame DEF claim
<1>7. ASSUME NEW r \in Records, Send(r) \/ KillSender(r) PROVE CInv'
  BY <1>7 DEF Send, Delivered, DeliveredLate, NotDelivered, Enlist, Measure,
              Rename, KillSender, claim, collector
<1>8. CASE UNCHANGED vars
  BY <1>8 DEF vars, claim, collector
<1> QED
  BY <1>1, <1>2, <1>3, <1>4, <1>5, <1>6, <1>7, <1>8 DEF Next, Claim, Stop, Drains

LEMMA InitCInv == Init => CInv
BY ServerAssumption DEF ServerAssumption, Init, CInv, Owner, Listening

LEMMA CInvImpliesOne == CInv => OneCollector
<1> SUFFICES ASSUME CInv, ~ misjudged, ~ overdue PROVE Cardinality(services) <= 1
  BY DEF OneCollector
<1>1. services \subseteq {path}
  BY DEF CInv, Owner, Listening
<1>2. IsFiniteSet({path}) /\ Cardinality({path}) = 1
  BY FS_Singleton
<1> QED BY <1>1, <1>2, FS_Subset, FS_CardinalityType

\* The collectors of two servers never run at a time, unless a start removed
\* the path of a listening server or services were not joined in time: joining
\* them before the socket is released is what hands the spool over.
THEOREM OneCollectorRuns == Spec => []OneCollector
<1> QED BY InitCInv, CInvStep, CInvImpliesOne, PTL DEF Spec

-----------------------------------------------------------------------------
(* The spool. *)

\* No name is in the spool twice.
Distinct(q) == \A i, j \in 1..Len(q) : q[i] = q[j] => i = j

\* A spool of distinct names has as many as it has positions.
LEMMA CountFiles ==
  ASSUME NEW q \in Seq(Records), Distinct(q)
  PROVE  IsFiniteSet(ToSet(q)) /\ Cardinality(ToSet(q)) = Len(q)
<1> DEFINE n == Len(q)
<1>1. n \in Nat /\ DOMAIN q = 1..n OBVIOUS
<1>2. q \in [1..n -> ToSet(q)] BY DEF ToSet
<1>3. \A y \in ToSet(q) : \E i \in 1..n : q[i] = y BY DEF ToSet
<1>4. q \in Bijection(1..n, ToSet(q))
  BY <1>1, <1>2, <1>3, Fun_IsBij DEF Distinct
<1>5. ExistsBijection(1..n, ToSet(q)) BY <1>4 DEF ExistsBijection
<1>6. IsFiniteSet(1..n) /\ Cardinality(1..n) = n BY <1>1, FS_Interval
<1> HIDE DEF n
<1>7. IsFiniteSet(ToSet(q)) /\ Cardinality(ToSet(q)) = Cardinality(1..n)
  BY <1>5, <1>6, FS_Bijection
<1> QED BY <1>6, <1>7 DEF n

\* What removing a name leaves.
LEMMA WithoutOne ==
  ASSUME files \in Seq(Records), NEW r, Distinct(files)
  PROVE  /\ Without(r) \in Seq(Records) /\ Len(Without(r)) <= Len(files)
         /\ ToSet(Without(r)) = ToSet(files) \ {r}
         /\ Distinct(Without(r))
<1> DEFINE n == Len(files)
           k == CHOOSE i \in DOMAIN files : files[i] = r
           w == Without(r)
<1>1. n \in Nat /\ DOMAIN files = 1..n OBVIOUS
<1>2. CASE r \notin ToSet(files)
  BY <1>2 DEF Without
<1>3. CASE r \in ToSet(files)
  <2>1. k \in 1..n /\ files[k] = r BY <1>1, <1>3 DEF ToSet
  <2>2. w = SubSeq(files, 1, k - 1) \o SubSeq(files, k + 1, n)
    BY <1>3 DEF Without, RemoveAt
  <2> DEFINE a == SubSeq(files, 1, k - 1)
             b == SubSeq(files, k + 1, n)
  <2> HIDE DEF k, n, w
  <2>3. /\ a \in Seq(Records) /\ Len(a) = k - 1
        /\ \A i \in 1..(k - 1) : a[i] = files[i]
    <3>1. \A i \in 1..(k - 1) : files[i] \in Records BY <2>1 DEF n
    <3>2. /\ a \in Seq(Records)
          /\ Len(a) = IF 1 <= k - 1 THEN k - 1 - 1 + 1 ELSE 0
          /\ \A i \in 1..(k - 1 - 1 + 1) : a[i] = files[1 + i - 1]
      BY <1>1, <2>1, <3>1, SubSeqProperties
    <3> QED BY <1>1, <2>1, <3>2
  <2>4. /\ b \in Seq(Records) /\ Len(b) = n - k
        /\ \A i \in 1..(n - k) : b[i] = files[k + i]
    <3>1. \A i \in (k + 1)..n : files[i] \in Records BY <2>1 DEF n
    <3>2. /\ b \in Seq(Records)
          /\ Len(b) = IF k + 1 <= n THEN n - (k + 1) + 1 ELSE 0
          /\ \A i \in 1..(n - (k + 1) + 1) : b[i] = files[k + 1 + i - 1]
      BY <1>1, <2>1, <3>1, SubSeqProperties
    <3> QED BY <1>1, <2>1, <3>2
  <2> HIDE DEF a, b
  <2>5. /\ w \in Seq(Records) /\ Len(w) = n - 1
        /\ \A i \in 1..(n - 1) : w[i] = IF i < k THEN files[i] ELSE files[i + 1]
    <3>1. w \in Seq(Records) /\ Len(w) = Len(a) + Len(b)
      BY <2>2, <2>3, <2>4, ConcatProperties DEF a, b
    <3>2. \A i \in 1..(Len(a) + Len(b)) :
            w[i] = IF i <= Len(a) THEN a[i] ELSE b[i - Len(a)]
      BY <2>2, <2>3, <2>4, ConcatProperties DEF a, b
    <3>3. ASSUME NEW i \in 1..(n - 1)
          PROVE  w[i] = IF i < k THEN files[i] ELSE files[i + 1]
      <4>1. i \in 1..(Len(a) + Len(b)) BY <1>1, <2>1, <2>3, <2>4
      <4>2. CASE i < k
        <5>1. i <= Len(a) /\ i \in 1..(k - 1) BY <1>1, <2>1, <2>3, <4>2
        <5> QED BY <2>3, <3>2, <4>1, <4>2, <5>1
      <4>3. CASE ~ (i < k)
        <5>1. ~ (i <= Len(a)) /\ i - Len(a) \in 1..(n - k) /\ k + (i - Len(a)) = i + 1
          BY <1>1, <2>1, <2>3, <4>3
        <5>2. w[i] = b[i - Len(a)] BY <3>2, <4>1, <5>1
        <5>3. b[i - Len(a)] = files[k + (i - Len(a))] BY <2>4, <5>1
        <5> QED BY <4>3, <5>1, <5>2, <5>3
      <4> QED BY <4>2, <4>3
    <3> QED BY <1>1, <2>1, <2>3, <2>4, <3>1, <3>3
  <2>6. Len(w) <= n BY <1>1, <2>5
  <2>7. ASSUME NEW i \in 1..Len(w), NEW j \in 1..Len(w), w[i] = w[j] PROVE i = j
    BY <1>1, <2>1, <2>5, <2>7 DEF n, Distinct
  <2>8. ToSet(w) = ToSet(files) \ {r}
    <3>1. ASSUME NEW i \in 1..Len(w) PROVE w[i] \in ToSet(files) \ {r}
      <4>1. CASE i < k
        <5>1. i \in 1..n /\ w[i] = files[i] /\ i # k BY <1>1, <2>1, <2>5, <4>1
        <5> QED BY <1>1, <2>1, <5>1 DEF ToSet, n, Distinct
      <4>2. CASE ~ (i < k)
        <5>1. i + 1 \in 1..n /\ w[i] = files[i + 1] /\ i + 1 # k
          BY <1>1, <2>1, <2>5, <4>2
        <5> QED BY <1>1, <2>1, <5>1 DEF ToSet, n, Distinct
      <4> QED BY <4>1, <4>2
    <3>2. ASSUME NEW j \in 1..n, files[j] # r PROVE \E i \in 1..Len(w) : w[i] = files[j]
      <4>1. CASE j < k
        <5>1. j \in 1..Len(w) /\ w[j] = files[j] BY <1>1, <2>1, <2>5, <4>1
        <5> QED BY <5>1
      <4>2. CASE j > k
        <5>1. j - 1 \in 1..Len(w) /\ ~ (j - 1 < k) /\ (j - 1) + 1 = j
          BY <1>1, <2>1, <2>5, <4>2
        <5>2. w[j - 1] = files[j] BY <2>5, <5>1
        <5> QED BY <5>1, <5>2
      <4> QED BY <1>1, <2>1, <3>2, <4>1, <4>2
    <3>3. DOMAIN w = 1..Len(w) BY <2>5
    <3> QED BY <1>1, <3>1, <3>2, <3>3 DEF ToSet
  <2>9. Distinct(w) BY <2>7 DEF Distinct
  <2> QED BY <2>5, <2>6, <2>8, <2>9 DEF w, n
<1> QED BY <1>2, <1>3

\* What renaming a new file adds.
LEMMA WithOne ==
  ASSUME files \in Seq(Records), NEW r \in Records, Distinct(files), r \notin ToSet(files)
  PROVE  /\ Append(files, r) \in Seq(Records) /\ Len(Append(files, r)) = Len(files) + 1
         /\ ToSet(Append(files, r)) = ToSet(files) \cup {r}
         /\ Distinct(Append(files, r))
<1> DEFINE n == Len(files)
           w == Append(files, r)
<1>1. n \in Nat /\ DOMAIN files = 1..n OBVIOUS
<1>2. /\ w \in Seq(Records) /\ Len(w) = n + 1 /\ w[n + 1] = r
      /\ \A i \in 1..n : w[i] = files[i]
  OBVIOUS
<1>3. \A i \in 1..n : files[i] # r BY <1>1 DEF ToSet
<1> HIDE DEF n, w
<1>4. DOMAIN w = 1..(n + 1) BY <1>2
<1>5. \A i \in 1..(n + 1) : i \in 1..n \/ i = n + 1 BY <1>1
<1>6. 1..n \subseteq 1..(n + 1) /\ n + 1 \in 1..(n + 1) BY <1>1
<1>7. ToSet(w) = ToSet(files) \cup {r}
  BY <1>1, <1>2, <1>4, <1>5, <1>6, Zenon DEF ToSet
<1>8. Distinct(w)
  BY <1>2, <1>3, <1>5 DEF Distinct, n
<1> QED BY <1>2, <1>7, <1>8 DEF w, n

ClaimTypes ==
  /\ path \in Servers \cup {None}
  /\ pc \in [Servers -> {"off", "lstat", "probe", "remove", "ask", "await",
                         "listen", "serve", "join", "release", "exit", "over"}]
  /\ peer \in [Servers -> Servers \cup {None}] /\ asked \subseteq Servers
DrainTypes ==
  /\ services \subseteq Servers /\ consumed \subseteq Servers
  /\ drain \in [Servers -> Seq(Records)]
SpoolTypes ==
  /\ sender \in [Records -> {"new", "spool", "listed", "write", "over"}]
  /\ result \in [Records -> {None, "delivered", "spooled", "dropped"}]
  /\ listing \subseteq Records /\ files \in Seq(Records) /\ temp \in Nat
  /\ quarantine \subseteq Records
StoreTypes ==
  /\ stored \in [Records -> Nat] /\ again \in [Records -> Nat]
  /\ whole \subseteq Records /\ discarded \subseteq Records
Types == ClaimTypes /\ DrainTypes /\ SpoolTypes /\ StoreTypes

\* The lock of the spool has one holder, who has counted the files that are
\* there and room for its own; the senders of the files are over.
Room ==
  /\ \A r, q \in Holder : r = q
  /\ Len(files) + temp <= Cap /\ Distinct(files)
  /\ \A r \in Records :
       /\ sender[r] = "write" => temp > 0
       /\ sender[r] = "listed" => ToSet(files) \subseteq listing
       /\ r \in ToSet(files) => sender[r] = "over"

\* What a drain may remove: a record that is stored, or one that completes a
\* tool call of which a drain found none.
Had(r) == r \in whole \/ (r \in discarded /\ Call[r] # None)

\* Services run in a server that serves, joins or exits; and a drain that
\* consumed a name runs, and may remove the record.
Eaten ==
  /\ \A s \in services : pc[s] \in {"serve", "join", "exit"}
  /\ \A s \in consumed : /\ s \in services /\ drain[s] # <<>>
                         /\ Had(Head(drain[s]))

\* The third part of SpoolInv.
Kept ==
  \A r \in Records : result[r] \in {"delivered", "spooled"} =>
    Had(r) \/ r \in ToSet(files) \cup quarantine

\* A record may still be stored: its sender has not sent it, or its file is
\* there and no drain has consumed it.
Due(r) ==
  \/ sender[r] # "over"
  \/ r \in ToSet(files) /\ \A s \in consumed : Head(drain[s]) # r

\* Until then what is stored was stored in vain, as is a part of a record.
Counted(r) ==
  /\ stored[r] <= 1 + again[r]
  /\ Due(r) \/ r \notin whole => stored[r] <= again[r]

Once == ~ misjudged /\ ~ overdue => \A r \in Records : Counted(r)

SInv == CInv /\ Types /\ Room /\ Eaten /\ Kept /\ Once

LEMMA ClaimTypesStep ==
  ASSUME ClaimTypes, [Next]_vars
  PROVE  ClaimTypes'
<1> USE ServerAssumption DEF ServerAssumption, ClaimTypes, At, Go
<1>1. ASSUME NEW s \in Servers,
             Start(s) \/ Lstat(s) \/ Answered(s) \/ NoAnswer(s) \/ RemoveStale(s)
      PROVE  ClaimTypes'
  BY <1>1 DEF Start, Lstat, Answered, NoAnswer, RemoveStale
<1>2. ASSUME NEW s \in Servers,
             AskShutdown(s) \/ Released(s) \/ TakeoverTimeout(s) \/ Listen(s)
      PROVE  ClaimTypes'
  BY <1>2 DEF AskShutdown, Released, TakeoverTimeout, Listen
<1>3. ASSUME NEW s \in Servers,
             Cancel(s) \/ Joined(s) \/ NotJoined(s) \/ Release(s) \/ Exit(s) \/ Kill(s)
      PROVE  ClaimTypes'
  BY <1>3 DEF Cancel, Joined, NotJoined, Release, Exit, Kill, Gone
<1>4. ASSUME UNCHANGED claim PROVE ClaimTypes'
  BY <1>4 DEF claim
<1>5. ASSUME NEW s \in Servers, Drains(s) PROVE UNCHANGED claim
  BY <1>5, DrainFrame DEF claim
<1>6. ASSUME NEW r \in Records, Send(r) \/ KillSender(r) PROVE UNCHANGED claim
  BY <1>6 DEF Send, Delivered, DeliveredLate, NotDelivered, Enlist, Measure, Rename,
              KillSender
<1>7. CASE UNCHANGED vars
  BY <1>4, <1>7 DEF vars
<1> QED
  BY <1>1, <1>2, <1>3, <1>4, <1>5, <1>6, <1>7 DEF Next, Claim, Stop, Drains

\* What the steps of a server outside of its drain leave alone.
LEMMA ServerFrame ==
  ASSUME NEW s \in Servers, Start(s) \/ Claim(s) \/ Cancel(s) \/ Stop(s) \/ Kill(s)
  PROVE  UNCHANGED <<spool, stored, whole, discarded>>
BY DEF Start, Claim, Lstat, Answered, NoAnswer, RemoveStale, AskShutdown, Released,
       TakeoverTimeout, Listen, Cancel, Stop, Joined, NotJoined, Release, Exit, Kill,
       Gone, FileStays, spool, store

\* What it leaves of the services and their drains.
LEMMA ClaimFrame ==
  ASSUME NEW s \in Servers,
         Start(s) \/ Claim(s) \/ Cancel(s) \/ NotJoined(s) \/ Release(s), ~ Listen(s)
  PROVE  UNCHANGED <<services, drain, consumed, again>>
BY DEF Start, Claim, Lstat, Answered, NoAnswer, RemoveStale, AskShutdown, Released,
       TakeoverTimeout, Cancel, NotJoined, Release, collector, store

\* What a record's sender leaves alone.
LEMMA SenderFrame ==
  ASSUME NEW r \in Records, Send(r) \/ KillSender(r)
  PROVE  UNCHANGED <<claim, collector, quarantine>>
BY DEF Send, Delivered, DeliveredLate, NotDelivered, Enlist, Measure, Rename,
       KillSender

\* A drain leaves the files alone unless it removes one or sets it aside.
LEMMA SpoolFrame ==
  ASSUME NEW s \in Servers, Drains(s), ~ Quarantine(s), ~ RemoveFile(s)
  PROVE  UNCHANGED <<files, quarantine>>
BY DEF Drains, Drain, Tick, Missed, Consume, Discard, Unknown, ConsumeFails,
       RemoveFails, spool

LEMMA DrainTypesStep ==
  ASSUME Types, Eaten, [Next]_vars
  PROVE  DrainTypes'
<1> USE DEF Types, DrainTypes
<1>0. <<>> \in Seq(Records) OBVIOUS
<1>1. ASSUME NEW s \in Servers,
             Start(s) \/ Claim(s) \/ Cancel(s) \/ NotJoined(s) \/ Release(s), ~ Listen(s)
      PROVE  DrainTypes'
  BY <1>1, ClaimFrame
<1>2. ASSUME NEW s \in Servers, Listen(s) PROVE DrainTypes'
  BY <1>2 DEF Listen, SpoolTypes
<1>3. ASSUME NEW s \in Servers, Joined(s) \/ Exit(s) \/ Kill(s) PROVE DrainTypes'
  BY <1>0, <1>3 DEF Joined, Exit, Kill, Gone
<1>4. ASSUME NEW s \in Servers, Drains(s) PROVE DrainTypes'
  <2>1. drain[s] # <<>> => Tail(drain[s]) \in Seq(Records)
    OBVIOUS
  <2>2. CASE Tick(s) \/ Missed(s)
    BY <1>0, <2>2 DEF Tick, Missed, SpoolTypes
  <2>3. CASE ConsumeFails(s) \/ Consume(s) \/ Discard(s) \/ Unknown(s) \/ Quarantine(s)
    BY <1>0, <2>1, <2>3 DEF ConsumeFails, Consume, Discard, Unknown, Quarantine, Skip,
                            Reads, Draining
  <2>4. CASE RemoveFile(s) \/ RemoveFails(s)
    BY <1>0, <2>1, <2>4 DEF RemoveFile, RemoveFails, Skip, Eaten
  <2> QED BY <1>4, <2>2, <2>3, <2>4 DEF Drains, Drain
<1>5. ASSUME NEW r \in Records, Send(r) \/ KillSender(r) PROVE DrainTypes'
  BY <1>5, SenderFrame DEF collector
<1>6. CASE UNCHANGED vars
  BY <1>6 DEF vars, collector
<1> QED
  BY <1>1, <1>2, <1>3, <1>4, <1>5, <1>6 DEF Next, Claim, Stop, Drains

LEMMA SpoolTypesStep ==
  ASSUME Types, Eaten, Room, [Next]_vars
  PROVE  SpoolTypes'
<1> USE DEF SpoolTypes
<1>1. ASSUME NEW s \in Servers, Start(s) \/ Claim(s) \/ Cancel(s) \/ Stop(s) \/ Kill(s)
      PROVE  SpoolTypes'
  BY <1>1, ServerFrame DEF spool, Types
<1>2. ASSUME NEW s \in Servers, Drains(s) PROVE SpoolTypes'
  <2>1. drain[s] # <<>> => Head(drain[s]) \in Records
    BY DEF Types, DrainTypes
  <2>2. UNCHANGED <<sender, result, listing, temp>>
    BY <1>2, DrainFrame
  <2>3. CASE UNCHANGED <<files, quarantine>>
    BY <2>2, <2>3 DEF Types
  <2>4. CASE Quarantine(s) \/ RemoveFile(s)
    <3>1. drain[s] # <<>> /\ files' = Without(Head(drain[s]))
      BY <2>4 DEF Quarantine, RemoveFile, Reads, Draining, Eaten
    <3>2. files' \in Seq(Records)
      BY <3>1, WithoutOne DEF Room, Types
    <3>3. quarantine' \subseteq Records
      BY <2>1, <2>4, <3>1 DEF Quarantine, RemoveFile, Types
    <3> QED BY <2>2, <3>2, <3>3 DEF Types
  <2> QED BY <1>2, <2>3, <2>4, SpoolFrame
<1>3. ASSUME NEW r \in Records, Send(r) \/ KillSender(r) PROVE SpoolTypes'
  <2> USE DEF Types
  <2>1. CASE Delivered(r) \/ DeliveredLate(r) \/ NotDelivered(r)
    BY <2>1 DEF Delivered, DeliveredLate, NotDelivered, Told, SendTo
  <2>2. CASE Enlist(r)
    <3>1. ToSet(files) \subseteq Records BY DEF ToSet
    <3> QED BY <2>2, <3>1 DEF Enlist, SendTo
  <2>3. CASE Measure(r) \/ KillSender(r)
    BY <2>3 DEF Measure, KillSender, Told, SendTo
  <2>4. CASE Rename(r)
    <3>1. temp > 0 BY <2>4 DEF Rename, Room
    <3>2. Append(files, r) \in Seq(Records) OBVIOUS
    <3> QED BY <2>4, <3>1, <3>2 DEF Rename, Told, SendTo
  <2> QED BY <1>3, <2>1, <2>2, <2>3, <2>4 DEF Send
<1>4. CASE UNCHANGED vars
  BY <1>4 DEF vars, spool, Types
<1> QED
  BY <1>1, <1>2, <1>3, <1>4 DEF Next, Drains

LEMMA StoreTypesStep ==
  ASSUME Types, Eaten, [Next]_vars
  PROVE  StoreTypes'
<1> USE DEF StoreTypes, Types
<1>1. ASSUME NEW s \in Servers,
             Start(s) \/ Claim(s) \/ Cancel(s) \/ Joined(s) \/ NotJoined(s) \/ Release(s)
      PROVE  StoreTypes'
  BY <1>1, ServerFrame, ClaimFrame DEF Stop, Listen, Joined, store
<1>2. ASSUME NEW s \in Servers, Exit(s) \/ Kill(s) PROVE StoreTypes'
  <2>1. s \in consumed => Head(drain[s]) \in Records
    BY DEF Eaten, DrainTypes
  <2>2. FileStays(s) BY <1>2 DEF Exit, Kill, Gone
  <2> QED BY <2>1, <2>2 DEF FileStays
<1>3. ASSUME NEW s \in Servers, Drains(s) PROVE StoreTypes'
  <2>1. CASE Consume(s) \/ Discard(s)
    BY <2>1 DEF Consume, Discard, Insert
  <2>2. CASE ConsumeFails(s) \/ Quarantine(s)
    BY <2>2 DEF ConsumeFails, Quarantine, InsertFails, store
  <2>3. CASE RemoveFails(s)
    <3>1. Head(drain[s]) \in Records
      BY <2>3 DEF RemoveFails, Eaten, DrainTypes
    <3> QED BY <2>3, <3>1 DEF RemoveFails, FileStays
  <2>4. CASE Tick(s) \/ Missed(s) \/ Unknown(s) \/ RemoveFile(s)
    BY <2>4 DEF Tick, Missed, Unknown, RemoveFile, store
  <2> QED BY <1>3, <2>1, <2>2, <2>3, <2>4 DEF Drains, Drain
<1>4. ASSUME NEW r \in Records, Send(r) \/ KillSender(r) PROVE StoreTypes'
  <2>1. CASE Delivered(r) \/ DeliveredLate(r)
    BY <2>1 DEF Delivered, DeliveredLate, Insert
  <2>2. CASE NotDelivered(r)
    BY <2>2 DEF NotDelivered, InsertFails, store
  <2>3. CASE Enlist(r) \/ Measure(r) \/ Rename(r) \/ KillSender(r)
    BY <2>3 DEF Enlist, Measure, Rename, KillSender, store
  <2> QED BY <1>4, <2>1, <2>2, <2>3 DEF Send
<1>5. CASE UNCHANGED vars
  BY <1>5 DEF vars, store
<1> QED
  BY <1>1, <1>2, <1>3, <1>4, <1>5 DEF Next, Stop, Drains

LEMMA TypesStep == Types /\ Eaten /\ Room /\ [Next]_vars => Types'
BY ClaimTypesStep, DrainTypesStep, SpoolTypesStep, StoreTypesStep DEF Types

LEMMA RoomStep ==
  ASSUME Types, Eaten, Room, [Next]_vars
  PROVE  Room'
<1>1. ASSUME UNCHANGED <<sender, files, temp, listing>> PROVE Room'
  BY <1>1 DEF Room, Holder
<1>2. ASSUME NEW s \in Servers, Start(s) \/ Claim(s) \/ Cancel(s) \/ Stop(s) \/ Kill(s)
      PROVE  Room'
  BY <1>1, <1>2, ServerFrame DEF spool
<1>3. ASSUME NEW s \in Servers, Drains(s) PROVE Room'
  <2>1. UNCHANGED <<sender, listing, temp>>
    BY <1>3, DrainFrame
  <2>2. CASE UNCHANGED files
    BY <1>1, <2>1, <2>2
  <2>3. CASE Quarantine(s) \/ RemoveFile(s)
    <3> DEFINE r == Head(drain[s])
    <3>1. files' = Without(r)
      BY <2>3 DEF Quarantine, RemoveFile, Reads
    <3>2. /\ files' \in Seq(Records) /\ Len(files') <= Len(files)
          /\ ToSet(files') = ToSet(files) \ {r} /\ Distinct(files')
      BY <3>1, WithoutOne DEF Room, Types, SpoolTypes
    <3> HIDE DEF r
    <3>3. Len(files') + temp' <= Cap
      BY <2>1, <3>2, ServerAssumption DEF Room, Types, SpoolTypes, ServerAssumption
    <3> QED BY <2>1, <3>2, <3>3 DEF Room, Holder
  <2> QED BY <1>3, <2>2, <2>3, SpoolFrame
<1>4. ASSUME NEW r \in Records, Send(r) \/ KillSender(r) PROVE Room'
  <2> USE DEF Types, SpoolTypes
  <2>1. CASE Delivered(r) \/ DeliveredLate(r) \/ NotDelivered(r) \/ KillSender(r)
    <3>1. UNCHANGED <<files, temp, listing>>
      BY <2>1 DEF Delivered, DeliveredLate, NotDelivered, KillSender
    <3>2. /\ sender[r] = "new" \/ sender' = [sender EXCEPT ![r] = "over"]
          /\ \/ sender' = [sender EXCEPT ![r] = "over"]
             \/ sender' = [sender EXCEPT ![r] = "spool"]
      BY <2>1 DEF Delivered, DeliveredLate, NotDelivered, KillSender, Told, SendTo
    <3> QED BY <3>1, <3>2 DEF Room, Holder
  <2>2. CASE Enlist(r)
    BY <2>2 DEF Enlist, SendTo, Room, Holder
  <2>3. CASE Measure(r)
    <3>1. r \in Holder /\ UNCHANGED <<files, listing>>
      BY <2>3 DEF Measure, Holder
    <3>2. CASE ~ listing \subseteq ToSet(files) \/ Cardinality(listing) + temp + 1 > Cap
      <4>1. sender' = [sender EXCEPT ![r] = "over"] /\ UNCHANGED temp
        BY <2>3, <3>2 DEF Measure, Told, SendTo
      <4> QED BY <3>1, <4>1 DEF Room, Holder
    <3>3. CASE ~ (~ listing \subseteq ToSet(files) \/ Cardinality(listing) + temp + 1 > Cap)
      <4>1. sender' = [sender EXCEPT ![r] = "write"] /\ temp' = temp + 1
        BY <2>3, <3>3 DEF Measure, SendTo
      <4>2. listing = ToSet(files) /\ sender[r] = "listed"
        BY <2>3, <3>3 DEF Measure, Room
      <4>3. Cardinality(listing) = Len(files)
        BY <4>2, CountFiles DEF Room
      <4>4. Len(files') + temp' <= Cap
        BY <3>1, <3>3, <4>1, <4>3, ServerAssumption DEF ServerAssumption
      <4>5. temp' > 0 BY <4>1
      <4>6. \A q, p \in Holder' : q = p
        BY <3>1, <4>1 DEF Room, Holder
      <4>7. \A q \in Records :
              /\ sender'[q] = "write" => temp' > 0
              /\ sender'[q] = "listed" => ToSet(files') \subseteq listing'
              /\ q \in ToSet(files') => sender'[q] = "over"
        BY <3>1, <4>1, <4>2, <4>5 DEF Room
      <4> QED BY <3>1, <4>4, <4>6, <4>7 DEF Room
    <3> QED BY <3>2, <3>3
  <2>4. CASE Rename(r)
    <3>1. /\ sender[r] = "write" /\ sender' = [sender EXCEPT ![r] = "over"]
          /\ files' = Append(files, r) /\ temp' = temp - 1 /\ UNCHANGED listing
      BY <2>4 DEF Rename, Told, SendTo
    <3>2. temp > 0 /\ r \notin ToSet(files) /\ r \in Holder
      BY <3>1 DEF Room, Holder
    <3>3. /\ Len(files') = Len(files) + 1 /\ ToSet(files') = ToSet(files) \cup {r}
          /\ Distinct(files')
      BY <3>1, <3>2, WithOne DEF Room
    <3>4. Len(files') + temp' <= Cap
      BY <3>1, <3>2, <3>3, ServerAssumption DEF Room, ServerAssumption
    <3>5. Holder' = {}
      BY <3>1, <3>2 DEF Room, Holder
    <3>6. \A q \in Records : sender'[q] \notin {"listed", "write"}
      BY <3>5 DEF Holder
    <3>7. \A q \in Records : q \in ToSet(files') => sender'[q] = "over"
      BY <3>1, <3>3 DEF Room
    <3> QED BY <3>3, <3>4, <3>5, <3>6, <3>7 DEF Room
  <2> QED BY <1>4, <2>1, <2>2, <2>3, <2>4 DEF Send
<1>5. CASE UNCHANGED vars
  BY <1>1, <1>5 DEF vars, spool
<1> QED
  BY <1>2, <1>3, <1>4, <1>5 DEF Next, Drains

\* What is stored, or said to have no tool call, remains so.
LEMMA HistoryGrows ==
  ASSUME [Next]_vars
  PROVE  whole \subseteq whole' /\ discarded \subseteq discarded'
<1>1. ASSUME NEW s \in Servers, Start(s) \/ Claim(s) \/ Cancel(s) \/ Stop(s) \/ Kill(s)
      PROVE  whole \subseteq whole' /\ discarded \subseteq discarded'
  BY <1>1, ServerFrame
<1>2. ASSUME NEW s \in Servers, Drains(s)
      PROVE  whole \subseteq whole' /\ discarded \subseteq discarded'
  BY <1>2 DEF Drains, Drain, Tick, Missed, Consume, Discard, Unknown, Quarantine,
              RemoveFile, ConsumeFails, RemoveFails, FileStays, Insert, InsertFails, store
<1>3. ASSUME NEW r \in Records, Send(r) \/ KillSender(r)
      PROVE  whole \subseteq whole' /\ discarded \subseteq discarded'
  BY <1>3 DEF Send, Delivered, DeliveredLate, NotDelivered, Enlist, Measure, Rename,
              KillSender, Insert, InsertFails, store
<1>4. CASE UNCHANGED vars
  BY <1>4 DEF vars, store
<1> QED BY <1>1, <1>2, <1>3, <1>4 DEF Next, Drains

LEMMA EatenStep ==
  ASSUME Types, Eaten, [Next]_vars
  PROVE  Eaten'
<1> USE DEF Types, ClaimTypes, DrainTypes
<1>0. ASSUME NEW q \in consumed, drain'[q] = drain[q]
      PROVE  q \in services /\ drain'[q] # <<>> /\ Had(Head(drain[q]))'
  <2>1. q \in services /\ drain[q] # <<>> /\ Head(drain[q]) \in Records
    BY DEF Eaten
  <2> DEFINE r == Head(drain[q])
  <2>2. r' = r BY <1>0
  <2>3. Had(r) BY DEF Eaten
  <2> HIDE DEF r
  <2>4. (r \in whole => r \in whole') /\ (r \in discarded => r \in discarded')
    BY HistoryGrows
  <2>5. Had(r)' BY <2>2, <2>3, <2>4 DEF Had
  <2> QED BY <1>0, <2>1, <2>5 DEF r
<1>1. ASSUME NEW s \in Servers,
             Start(s) \/ Claim(s) \/ Cancel(s) \/ NotJoined(s) \/ Release(s), ~ Listen(s)
      PROVE  Eaten'
  <2>1. UNCHANGED <<services, drain, consumed>>
    BY <1>1, ClaimFrame
  <2>2. \/ pc[s] \notin {"serve", "join", "exit"} \/ pc' = [pc EXCEPT ![s] = "join"]
        \/ pc' = [pc EXCEPT ![s] = "exit"]
    BY <1>1 DEF Start, Claim, Lstat, Answered, NoAnswer, RemoveStale, AskShutdown,
                Released, TakeoverTimeout, Cancel, NotJoined, Release, At, Go
  <2>3. \A q \in Servers \ {s} : pc'[q] = pc[q]
    BY <1>1 DEF Start, Claim, Lstat, Answered, NoAnswer, RemoveStale, AskShutdown,
                Released, TakeoverTimeout, Cancel, NotJoined, Release, At, Go
  <2>4. \A q \in services : pc'[q] \in {"serve", "join", "exit"}
    BY <2>2, <2>3 DEF Eaten
  <2> QED BY <1>0, <2>1, <2>4 DEF Eaten
<1>2. ASSUME NEW s \in Servers, Listen(s) PROVE Eaten'
  <2>1. s \notin services
    BY <1>2 DEF Listen, At, Eaten
  <2>2. UNCHANGED consumed
    BY <1>2 DEF Listen
  <2>3. \A q \in Servers \ {s} : pc'[q] = pc[q] /\ drain'[q] = drain[q]
    BY <1>2 DEF Listen, Go
  <2>4. services' = services \/ (services' = services \cup {s} /\ pc'[s] = "serve")
    BY <1>2 DEF Listen, Go
  <2> QED BY <1>0, <2>1, <2>2, <2>3, <2>4 DEF Eaten
<1>3. ASSUME NEW s \in Servers, Joined(s) \/ Exit(s) \/ Kill(s) PROVE Eaten'
  <2>1. /\ services' = services \ {s} /\ drain' = [drain EXCEPT ![s] = <<>>]
        /\ consumed' = consumed \ {s}
    BY <1>3 DEF Joined, Exit, Kill, Gone
  <2>2. \A q \in Servers \ {s} : pc'[q] = pc[q]
    BY <1>3 DEF Joined, Exit, Kill, Gone, Go
  <2> QED BY <1>0, <2>1, <2>2 DEF Eaten
<1>4. ASSUME NEW s \in Servers, Drains(s) PROVE Eaten'
  <2>1. UNCHANGED <<pc, services>>
    BY <1>4, DrainFrame DEF claim
  <2>2. CASE s \notin consumed /\ s \notin consumed'
    <3>1. consumed' = consumed /\ \A q \in Servers \ {s} : drain'[q] = drain[q]
      BY <1>4, <2>2 DEF Drains, Drain, Tick, Missed, Consume, Discard, Unknown,
                        Quarantine, RemoveFile, ConsumeFails, RemoveFails, Skip
    <3> QED BY <1>0, <2>1, <2>2, <3>1 DEF Eaten
  <2>3. CASE Consume(s) \/ Discard(s)
    <3>1. /\ s \in services /\ drain[s] # <<>> /\ Had(Head(drain[s]))'
          /\ consumed' = consumed \cup {s} /\ UNCHANGED drain
      BY <2>3 DEF Consume, Discard, Insert, Had, Toolless, Reads, Draining
    <3> QED BY <1>0, <2>1, <3>1 DEF Eaten
  <2>4. CASE RemoveFile(s) \/ RemoveFails(s)
    <3>1. consumed' = consumed \ {s} /\ \A q \in Servers \ {s} : drain'[q] = drain[q]
      BY <2>4 DEF RemoveFile, RemoveFails, Skip
    <3> QED BY <1>0, <2>1, <3>1 DEF Eaten
  <2>5. CASE ~ (Consume(s) \/ Discard(s) \/ RemoveFile(s) \/ RemoveFails(s))
    <3>1. s \notin consumed /\ consumed' = consumed
      BY <1>4, <2>5 DEF Eaten, Drains, Drain, Tick, Missed, Unknown, Quarantine,
                              ConsumeFails, Reads
    <3> QED BY <2>2, <3>1
  <2> QED BY <2>3, <2>4, <2>5
<1>5. ASSUME NEW r \in Records, Send(r) \/ KillSender(r) PROVE Eaten'
  <2>1. UNCHANGED <<pc, services, drain, consumed>>
    BY <1>5, SenderFrame DEF claim, collector
  <2> QED BY <1>0, <2>1 DEF Eaten
<1>6. CASE UNCHANGED vars
  BY <1>0, <1>6 DEF vars, claim, collector, Eaten
<1> QED
  BY <1>1, <1>2, <1>3, <1>4, <1>5, <1>6 DEF Next, Claim, Stop, Drains

LEMMA KeptStep ==
  ASSUME Types, Eaten, Room, Kept, [Next]_vars
  PROVE  Kept'
<1> USE DEF Types, SpoolTypes, DrainTypes
<1>0. \A r \in Records : Had(r) => Had(r)'
  BY HistoryGrows DEF Had
<1>1. ASSUME UNCHANGED <<result, files, quarantine>> PROVE Kept'
  BY <1>0, <1>1 DEF Kept
<1>2. ASSUME NEW s \in Servers, Start(s) \/ Claim(s) \/ Cancel(s) \/ Stop(s) \/ Kill(s)
      PROVE  Kept'
  BY <1>1, <1>2, ServerFrame DEF spool
<1>3. ASSUME NEW s \in Servers, Drains(s) PROVE Kept'
  <2>1. UNCHANGED result
    BY <1>3, DrainFrame
  <2>2. CASE UNCHANGED <<files, quarantine>>
    BY <1>1, <2>1, <2>2
  <2>3. CASE Quarantine(s)
    <3>1. /\ files' = Without(Head(drain[s]))
          /\ quarantine' = quarantine \cup {Head(drain[s])}
      BY <2>3 DEF Quarantine, Reads
    <3>2. ToSet(files') = ToSet(files) \ {Head(drain[s])}
      BY <3>1, WithoutOne DEF Room
    <3> QED BY <1>0, <2>1, <3>1, <3>2 DEF Kept
  <2>4. CASE RemoveFile(s)
    <3>1. ToSet(files') = ToSet(files) \ {Head(drain[s])} /\ UNCHANGED quarantine
      BY <2>4, WithoutOne DEF RemoveFile, Room
    <3>2. Head(drain[s]) \in Records /\ Had(Head(drain[s]))
      BY <2>4 DEF RemoveFile, Eaten
    <3> QED BY <1>0, <2>1, <3>1, <3>2 DEF Kept
  <2> QED BY <1>3, <2>2, <2>3, <2>4, SpoolFrame
<1>4. ASSUME NEW r \in Records, Send(r) \/ KillSender(r) PROVE Kept'
  <2>1. UNCHANGED quarantine
    BY <1>4, SenderFrame
  <2>2. CASE Delivered(r)
    <3>1. UNCHANGED files /\ Had(r)'
      BY <2>2 DEF Delivered, Insert, Had
    <3>2. \A q \in Records \ {r} : result'[q] = result[q]
      BY <2>2 DEF Delivered, Told
    <3> QED BY <1>0, <2>1, <3>1, <3>2 DEF Kept
  <2>3. CASE DeliveredLate(r) \/ NotDelivered(r) \/ Enlist(r) \/ KillSender(r)
    BY <1>1, <2>1, <2>3 DEF DeliveredLate, NotDelivered, Enlist, KillSender
  <2>4. CASE Measure(r)
    <3>1. UNCHANGED files /\ \A q \in Records : result'[q] \in {result[q], "dropped"}
      BY <2>4 DEF Measure, Told
    <3> QED BY <1>0, <2>1, <3>1 DEF Kept
  <2>5. CASE Rename(r)
    <3>1. ToSet(files') = ToSet(files) \cup {r}
      BY <2>5, WithOne DEF Rename, Room
    <3>2. \A q \in Records \ {r} : result'[q] = result[q]
      BY <2>5 DEF Rename, Told
    <3> QED BY <1>0, <2>1, <3>1, <3>2 DEF Kept
  <2> QED BY <1>4, <2>2, <2>3, <2>4, <2>5 DEF Send
<1>5. CASE UNCHANGED vars
  BY <1>1, <1>5 DEF vars, spool
<1> QED
  BY <1>2, <1>3, <1>4, <1>5 DEF Next, Drains

\* The two histories are never taken back.
LEMMA HistoryStays ==
  ASSUME CInv, [Next]_vars, ~ misjudged', ~ overdue'
  PROVE  ~ misjudged /\ ~ overdue
<1>1. ASSUME NEW s \in Servers, Start(s) \/ Claim(s) \/ Cancel(s) \/ Stop(s) \/ Kill(s)
      PROVE  ~ misjudged /\ ~ overdue
  BY <1>1 DEF Start, Claim, Lstat, Answered, NoAnswer, RemoveStale, AskShutdown, CInv,
              Released, TakeoverTimeout, Listen, Cancel, Stop, Joined, NotJoined,
              Release, Exit, Kill, Gone, collector
<1>2. ASSUME NEW s \in Servers, Drains(s) PROVE ~ misjudged /\ ~ overdue
  BY <1>2, DrainFrame DEF claim
<1>3. ASSUME NEW r \in Records, Send(r) \/ KillSender(r) PROVE ~ misjudged /\ ~ overdue
  BY <1>3, SenderFrame DEF claim, collector
<1>4. CASE UNCHANGED vars
  BY <1>4 DEF vars, claim, collector
<1> QED BY <1>1, <1>2, <1>3, <1>4 DEF Next, Drains

\* A failed insert stores as much in vain as it stores.
LEMMA InsertFailsEven ==
  ASSUME StoreTypes, NEW q \in Records, InsertFails(q), NEW r \in Records
  PROVE  /\ whole' = whole
         /\ \E k \in Nat : stored'[r] = stored[r] + k /\ again'[r] = again[r] + k
<1> USE DEF StoreTypes
<1>1. CASE UNCHANGED store
  <2>1. stored'[r] = stored[r] + 0 /\ again'[r] = again[r] + 0 BY <1>1 DEF store
  <2> QED BY <1>1, <2>1 DEF store
<1>2. CASE ~ UNCHANGED store
  <2>1. /\ stored' = [stored EXCEPT ![q] = @ + 1] /\ again' = [again EXCEPT ![q] = @ + 1]
        /\ whole' = whole
    BY <1>2 DEF InsertFails
  <2>2. CASE r = q
    <3>1. stored'[r] = stored[r] + 1 /\ again'[r] = again[r] + 1 BY <2>1, <2>2
    <3> QED BY <2>1, <3>1
  <2>3. CASE r # q
    <3>1. stored'[r] = stored[r] + 0 /\ again'[r] = again[r] + 0 BY <2>1, <2>3
    <3> QED BY <2>1, <3>1
  <2> QED BY <2>2, <2>3
<1> QED BY <1>1, <1>2

LEMMA OnceStep ==
  ASSUME CInv, Types, Eaten, Room, Once, [Next]_vars
  PROVE  Once'
<1> USE DEF Types, SpoolTypes, StoreTypes, DrainTypes
<1> SUFFICES ASSUME ~ misjudged', ~ overdue', NEW r \in Records
             PROVE  Counted(r)'
  BY DEF Once
<1>1. Counted(r) /\ Owner
  BY HistoryStays DEF Once, CInv
<1>2. \A s, q \in services : s = q
  BY <1>1 DEF Owner, Listening
<1>3. \A s \in consumed : s \in services /\ drain[s] # <<>> /\ Head(drain[s]) \in Records
  BY DEF Eaten
<1>4. ASSUME Due(r)' => Due(r), whole \subseteq whole', NEW k \in Nat,
             stored'[r] = stored[r] + k, again'[r] = again[r] + k
      PROVE  Counted(r)'
  BY <1>1, <1>4 DEF Counted
<1>5. ASSUME Due(r)' => Due(r), whole \subseteq whole',
             stored'[r] = stored[r], again'[r] = again[r]
      PROVE  Counted(r)'
  BY <1>1, <1>5 DEF Counted
<1>6. ASSUME UNCHANGED <<sender, files, consumed, whole, stored, again>>,
             \A q \in consumed : drain'[q] = drain[q]
      PROVE  Counted(r)'
  BY <1>5, <1>6 DEF Due
<1>7. ASSUME NEW s \in Servers, s \in consumed => FileStays(s),
             s \notin consumed => UNCHANGED <<stored, whole, again>>,
             UNCHANGED <<sender, files>>, consumed' = consumed \ {s},
             \A q \in Servers \ {s} : drain'[q] = drain[q]
      PROVE  Counted(r)'
  <2>1. CASE s \notin consumed
    BY <1>3, <1>6, <1>7, <2>1 DEF Eaten
  <2>2. CASE s \in consumed /\ r # Head(drain[s])
    <3>1. consumed = {s} BY <1>2, <1>3, <2>2
    <3>2. Due(r)' => Due(r) BY <1>7, <2>2, <3>1 DEF Due
    <3>3. again'[r] = again[r] /\ UNCHANGED <<stored, whole>>
      BY <1>7, <2>2 DEF FileStays
    <3> QED BY <1>5, <3>2, <3>3
  <2>3. CASE s \in consumed /\ r = Head(drain[s]) /\ r \in whole
    <3>1. again'[r] = again[r] + 1 /\ UNCHANGED stored
      BY <1>7, <2>3 DEF FileStays
    <3> QED BY <1>1, <3>1 DEF Counted
  <2>4. CASE s \in consumed /\ r = Head(drain[s]) /\ r \notin whole
    <3>1. UNCHANGED <<stored, again>>
      BY <1>7, <2>4 DEF FileStays
    <3> QED BY <1>1, <2>4, <3>1 DEF Counted
  <2> QED BY <2>1, <2>2, <2>3, <2>4
<1>8. ASSUME NEW s \in Servers,
             Start(s) \/ Claim(s) \/ Cancel(s) \/ NotJoined(s) \/ Release(s), ~ Listen(s)
      PROVE  Counted(r)'
  BY <1>6, <1>8, ClaimFrame, ServerFrame DEF Stop, spool
<1>9. ASSUME NEW s \in Servers, Listen(s) \/ Joined(s) PROVE Counted(r)'
  <2>1. s \notin consumed
    BY <1>3, <1>9 DEF Listen, Joined, At, Eaten
  <2>2. \A q \in Servers \ {s} : drain'[q] = drain[q]
    BY <1>9 DEF Listen, Joined
  <2>3. UNCHANGED <<sender, files, consumed, whole, stored, again>>
    BY <1>9 DEF Listen, Joined, spool, store
  <2>4. \A q \in consumed : q \in Servers \ {s} BY <2>1
  <2> QED BY <1>6, <2>2, <2>3, <2>4
<1>10. ASSUME NEW s \in Servers, Exit(s) \/ Kill(s) PROVE Counted(r)'
  <2>1. UNCHANGED <<sender, files>>
    BY <1>10, ServerFrame DEF Stop, spool
  <2>2. /\ FileStays(s) /\ consumed' = consumed \ {s}
        /\ \A q \in Servers \ {s} : drain'[q] = drain[q]
    BY <1>10 DEF Exit, Kill, Gone
  <2>3. s \notin consumed => UNCHANGED <<stored, whole, again>>
    BY <2>2 DEF FileStays
  <2> QED BY <1>7, <2>1, <2>2, <2>3
<1>11. ASSUME NEW s \in Servers, Drains(s) PROVE Counted(r)'
  <2>1. UNCHANGED sender
    BY <1>11, DrainFrame
  <2>2. CASE Tick(s) \/ Missed(s) \/ Unknown(s)
    <3>1. s \notin consumed
      BY <1>3, <2>2 DEF Tick, Missed, Unknown, Reads
    <3>2. /\ UNCHANGED <<files, consumed, whole, stored, again>>
          /\ \A q \in Servers \ {s} : drain'[q] = drain[q]
      BY <2>2 DEF Tick, Missed, Unknown, Skip, spool, store
    <3>3. \A q \in consumed : q \in Servers \ {s} BY <3>1
    <3> QED BY <1>6, <2>1, <3>2, <3>3
  <2>3. CASE Consume(s) \/ Discard(s)
    <3> DEFINE h == Head(drain[s])
    <3>1. /\ s \in services /\ s \notin consumed /\ h \in ToSet(files)
          /\ consumed' = consumed \cup {s} /\ UNCHANGED <<files, drain, again>>
          /\ h \in Records /\ whole \subseteq whole'
          /\ \A q \in Records \ {h} : stored'[q] = stored[q]
          /\ \/ stored' = [stored EXCEPT ![h] = @ + 1] /\ h \in whole'
             \/ UNCHANGED <<stored, whole>>
      BY <2>3 DEF Consume, Discard, Insert, Reads, Draining, spool
    <3> HIDE DEF h
    <3>2. consumed = {} BY <1>2, <1>3, <3>1
    <3>3. CASE r = h
      <4>1. Due(r) BY <3>1, <3>2, <3>3 DEF Due
      <4>2. sender[r] = "over" BY <3>1, <3>3 DEF Room
      <4>3. ~ Due(r)' BY <2>1, <3>1, <3>3, <4>2 DEF Due, h
      <4>4. stored[r] <= again[r] BY <1>1, <4>1 DEF Counted
      <4> QED BY <3>1, <3>3, <4>3, <4>4 DEF Counted
    <3>4. CASE r # h
      <4>1. Due(r)' => Due(r) BY <2>1, <3>1, <3>2 DEF Due
      <4> QED BY <1>5, <3>1, <3>4, <4>1
    <3> QED BY <3>3, <3>4
  <2>4. CASE Quarantine(s) \/ ConsumeFails(s)
    <3> DEFINE h == Head(drain[s])
    <3>1. s \notin consumed /\ h \in Records /\ InsertFails(h)
      BY <2>4 DEF Quarantine, ConsumeFails, Reads
    <3>2. ToSet(files') \subseteq ToSet(files)
      BY <2>4, WithoutOne DEF Quarantine, ConsumeFails, Reads, Room, spool
    <3>3. /\ UNCHANGED consumed
          /\ \A q \in Servers \ {s} : drain'[q] = drain[q]
      BY <2>4 DEF Quarantine, ConsumeFails, Skip
    <3>4. \A q \in consumed : q \in Servers \ {s} BY <3>1
    <3>5. Due(r)' => Due(r) BY <2>1, <3>2, <3>3, <3>4 DEF Due
    <3>6. /\ whole' = whole
          /\ \E k \in Nat : stored'[r] = stored[r] + k /\ again'[r] = again[r] + k
      BY <3>1, InsertFailsEven
    <3> QED BY <1>4, <3>5, <3>6
  <2>5. CASE RemoveFile(s)
    <3>1. ToSet(files') = ToSet(files) \ {Head(drain[s])}
      BY <2>5, WithoutOne DEF RemoveFile, Room
    <3>2. consumed = {s} /\ UNCHANGED <<stored, again, whole>>
      BY <1>2, <1>3, <2>5 DEF RemoveFile, store
    <3>3. Due(r)' => Due(r) BY <2>1, <3>1, <3>2 DEF Due
    <3> QED BY <1>5, <3>2, <3>3
  <2>6. CASE RemoveFails(s)
    <3>1. /\ s \in consumed /\ consumed' = consumed \ {s} /\ FileStays(s)
          /\ UNCHANGED files /\ \A q \in Servers \ {s} : drain'[q] = drain[q]
      BY <2>6 DEF RemoveFails, spool
    <3> QED BY <1>7, <2>1, <3>1
  <2> QED BY <1>11, <2>2, <2>3, <2>4, <2>5, <2>6 DEF Drains, Drain
<1>12. ASSUME NEW q \in Records, Send(q) \/ KillSender(q) PROVE Counted(r)'
  <2>1. UNCHANGED <<drain, consumed>>
    BY <1>12, SenderFrame DEF collector
  <2>2. sender[q] # "over" /\ \A p \in Records \ {q} : sender'[p] = sender[p]
    BY <1>12 DEF Send, Delivered, DeliveredLate, NotDelivered, Enlist, Measure, Rename,
                KillSender, Told, SendTo
  <2>3. q \notin ToSet(files)
    BY <2>2 DEF Room
  <2>4. ToSet(files') = ToSet(files) \/ (Rename(q) /\ ToSet(files') = ToSet(files) \cup {q})
    <3>1. CASE Rename(q)
      BY <2>3, <3>1, WithOne DEF Rename, Room
    <3>2. CASE ~ Rename(q)
      BY <1>12, <3>2 DEF Send, Delivered, DeliveredLate, NotDelivered, Enlist, Measure,
                        KillSender
    <3> QED BY <3>1, <3>2
  <2>5. CASE NotDelivered(q)
    <3>1. /\ whole' = whole
          /\ \E k \in Nat : stored'[r] = stored[r] + k /\ again'[r] = again[r] + k
      <4>1. CASE InsertFails(q) BY <4>1, InsertFailsEven
      <4>2. CASE UNCHANGED store
        <5>1. stored'[r] = stored[r] + 0 /\ again'[r] = again[r] + 0 BY <4>2 DEF store
        <5> QED BY <4>2, <5>1 DEF store
      <4> QED BY <2>5, <4>1, <4>2 DEF NotDelivered
    <3>2. Due(r)' => Due(r)
      BY <2>1, <2>2, <2>4, <2>5 DEF Due, NotDelivered
    <3> QED BY <1>4, <3>1, <3>2
  <2>6. CASE Delivered(q) \/ DeliveredLate(q)
    <3>1. /\ stored' = [stored EXCEPT ![q] = @ + 1] /\ whole' = whole \cup {q}
          /\ UNCHANGED files
      BY <2>6 DEF Delivered, DeliveredLate, Insert
    <3>2. CASE r # q
      <4>1. Due(r)' => Due(r) BY <2>1, <2>2, <3>1, <3>2 DEF Due
      <4>2. stored'[r] = stored[r] /\ again'[r] = again[r]
        BY <2>6, <3>1, <3>2 DEF Delivered, DeliveredLate
      <4> QED BY <1>5, <3>1, <4>1, <4>2
    <3>3. CASE r = q /\ Delivered(q)
      <4>1. stored[r] <= again[r] BY <1>1, <2>2, <3>3 DEF Counted, Due
      <4>2. sender'[r] = "over" /\ UNCHANGED again
        BY <3>3 DEF Delivered, Told, SendTo
      <4>3. ~ Due(r)' BY <2>3, <3>1, <3>3, <4>2 DEF Due
      <4> QED BY <3>1, <3>3, <4>1, <4>2, <4>3 DEF Counted
    <3>4. CASE r = q /\ DeliveredLate(q)
      <4>1. again'[r] = again[r] + 1 /\ stored'[r] = stored[r] + 1
        BY <3>1, <3>4 DEF DeliveredLate
      <4>2. Due(r) BY <2>2, <3>4 DEF Due
      <4> QED BY <1>4, <3>1, <4>1, <4>2
    <3> QED BY <2>6, <3>2, <3>3, <3>4
  <2>7. CASE Enlist(q) \/ Measure(q) \/ Rename(q) \/ KillSender(q)
    <3>1. UNCHANGED <<stored, whole, again>>
      BY <2>7 DEF Enlist, Measure, Rename, KillSender, store
    <3>2. Due(r)' => Due(r)
      BY <2>1, <2>2, <2>4 DEF Due
    <3> QED BY <1>5, <3>1, <3>2
  <2> QED BY <1>12, <2>5, <2>6, <2>7 DEF Send
<1>13. CASE UNCHANGED vars
  BY <1>6, <1>13 DEF vars, spool, store, collector
<1> QED
  BY <1>8, <1>9, <1>10, <1>11, <1>12, <1>13 DEF Next, Claim, Stop, Drains

LEMMA InitSInv == Init => SInv
<1> SUFFICES ASSUME Init PROVE SInv
  OBVIOUS
<1> USE ServerAssumption DEF ServerAssumption, Init
<1>1. CInv BY InitCInv
<1>2. ToSet(<<>>) = {} /\ <<>> \in Seq(Records) /\ Len(<<>>) = 0
  BY DEF ToSet
<1>3. Types
  BY <1>2 DEF Types, ClaimTypes, DrainTypes, SpoolTypes, StoreTypes
<1>4. Room BY <1>2 DEF Room, Holder, Distinct
<1>5. Eaten BY DEF Eaten
<1>6. Kept BY DEF Kept
<1>7. Once BY DEF Once, Counted
<1> QED BY <1>1, <1>3, <1>4, <1>5, <1>6, <1>7 DEF SInv

LEMMA SInvStep == SInv /\ [Next]_vars => SInv'
BY CInvStep, TypesStep, RoomStep, EatenStep, KeptStep, OnceStep DEF SInv

LEMMA SInvImplies == SInv => SpoolInv /\ StoredOnce
<1> SUFFICES ASSUME SInv PROVE SpoolInv /\ StoredOnce
  OBVIOUS
<1>1. Cardinality(Holder) <= 1
  <2>1. CASE Holder = {}
    BY <2>1, FS_EmptySet
  <2>2. CASE Holder # {}
    <3>1. PICK r \in Holder : Holder = {r} BY <2>2 DEF SInv, Room
    <3>2. Cardinality({r}) = 1 BY FS_Singleton
    <3> QED BY <3>1, <3>2
  <2> QED BY <2>1, <2>2
<1>2. TypeOK
  BY <1>1 DEF SInv, Types, ClaimTypes, DrainTypes, SpoolTypes, StoreTypes, TypeOK
<1>3. SpoolInv
  BY <1>2 DEF SInv, Room, Kept, Had, SpoolInv
<1>4. StoredOnce
  BY DEF SInv, Once, Counted, StoredOnce
<1> QED BY <1>3, <1>4

\* A record whose sender was told that it was delivered or spooled is stored in
\* whole, in the spool or set aside, or it completes a tool call of which a drain
\* found none; and the spool keeps to its cap with the files of killed senders:
\* through kills, late answers, inserts that fail in the middle and the drains of
\* two servers that both run.
THEOREM SpoolIsKept == Spec => []SpoolInv
<1> QED BY InitSInv, SInvStep, SInvImplies, PTL DEF Spec

\* While one collector runs at most, a record is stored once more only for an
\* answer that came too late, an insert that failed after its first rows, or a
\* file that stayed after its record was stored.
THEOREM StoredOnlyOnce == Spec => []StoredOnce
<1> QED BY InitSInv, SInvStep, SInvImplies, PTL DEF Spec
=============================================================================
