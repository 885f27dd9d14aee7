--------------------------- MODULE CaptureProofs ---------------------------
(***************************************************************************)
(* Proofs about CaptureWriter, for every watermark, chunk length and       *)
(* budget.  The inductive invariant IInv is built in two layers.  Kept is  *)
(* what every private method preserves, also halfway through a handler;    *)
(* Lossless, Unstuck and Watched hold again when the handler returns.  The *)
(* lemmas follow the same order: sums over the queue, what each method     *)
(* changes (Frame), what it preserves (Keeps), one lemma per action (Inv). *)
(***************************************************************************)
EXTENDS CaptureWriter, TLAPS

\* The queued bytes are the sum of the chunks of the queue.  left[i] is what
\* is left of the queue from its i-th chunk on.
Sums(q, n) ==
  \E left \in [1..(Len(q) + 1) -> Nat] :
    /\ left[1] = n /\ left[Len(q) + 1] = 0
    /\ \A i \in 1..Len(q) : left[i] = q[i] + left[i + 1]

\* An empty queue has no bytes.
LEMMA SumsEmpty == Sums(<<>>, 0)
<1> DEFINE left == [i \in 1..(Len(<<>>) + 1) |-> 0]
<1>1. left \in [1..(Len(<<>>) + 1) -> Nat] OBVIOUS
<1>2. left[1] = 0 /\ left[Len(<<>>) + 1] = 0
      /\ \A i \in 1..Len(<<>>) : left[i] = <<>>[i] + left[i + 1]
  OBVIOUS
<1> QED BY <1>1, <1>2 DEF Sums

\* An empty queue has no other sum.
LEMMA SumsOnlyEmpty == ASSUME NEW n, Sums(<<>>, n) PROVE n = 0
BY DEF Sums

\* A queue sums to a natural number.
LEMMA SumsNat ==
  ASSUME NEW q \in Seq(1..MaxChunk), NEW n, Sums(q, n) PROVE n \in Nat
BY DEF Sums

\* append: a chunk at the end adds its length.
LEMMA SumsAppend ==
  ASSUME NEW q \in Seq(1..MaxChunk), NEW n, Sums(q, n), NEW k \in 1..MaxChunk
  PROVE  Sums(Append(q, k), n + k)
<1>1. PICK left \in [1..(Len(q) + 1) -> Nat] :
        /\ left[1] = n /\ left[Len(q) + 1] = 0
        /\ \A i \in 1..Len(q) : left[i] = q[i] + left[i + 1]
  BY DEF Sums
<1> DEFINE more == [i \in 1..(Len(q) + 2) |->
                      IF i = Len(q) + 2 THEN 0 ELSE left[i] + k]
<1>2. Len(Append(q, k)) = Len(q) + 1 OBVIOUS
<1>3. more \in [1..(Len(q) + 2) -> Nat] OBVIOUS
<1>4. more[1] = n + k /\ more[Len(q) + 2] = 0 BY <1>1
<1>5. ASSUME NEW i \in 1..(Len(q) + 1)
      PROVE  more[i] = Append(q, k)[i] + more[i + 1]
  <2>1. CASE i \in 1..Len(q)
    <3>1. left[i] = q[i] + left[i + 1] BY <1>1, <2>1
    <3>2. Append(q, k)[i] = q[i] BY <2>1
    <3>4. q[i] \in Nat BY <2>1, CaptureAssumption DEF CaptureAssumption
    <3>3. left[i + 1] \in Nat BY <2>1
    <3> QED BY <2>1, <3>1, <3>2, <3>3, <3>4
  <2>2. CASE i = Len(q) + 1
    BY <1>1, <2>2
  <2> QED BY <2>1, <2>2
<1> HIDE DEF more
<1> QED BY <1>2, <1>3, <1>4, <1>5 DEF Sums

\* pump: taking the first chunk takes its length.
LEMMA SumsTail ==
  ASSUME NEW q \in Seq(1..MaxChunk), q # <<>>, NEW n, Sums(q, n)
  PROVE  /\ Sums(Tail(q), n - Head(q))
         /\ Tail(q) \in Seq(1..MaxChunk) /\ Head(q) \in 1..MaxChunk
<1>1. PICK left \in [1..(Len(q) + 1) -> Nat] :
        /\ left[1] = n /\ left[Len(q) + 1] = 0
        /\ \A i \in 1..Len(q) : left[i] = q[i] + left[i + 1]
  BY DEF Sums
<1> DEFINE less == [i \in 1..Len(q) |-> left[i + 1]]
<1>2. Len(Tail(q)) = Len(q) - 1 /\ Len(q) \in Nat /\ Len(q) >= 1 OBVIOUS
<1>3. less \in [1..Len(q) -> Nat] BY <1>2
<1>3a. Head(q) = q[1] /\ q[1] \in 1..MaxChunk /\ q[1] \in Nat
  BY <1>2, CaptureAssumption DEF CaptureAssumption
<1>4. less[1] = n - Head(q) /\ less[Len(q)] = 0
  <2>1. less[1] = left[2] /\ left[1] = q[1] + left[2] /\ left[2] \in Nat BY <1>1, <1>2
  <2>2. less[Len(q)] = left[Len(q) + 1] BY <1>2
  <2> QED BY <1>1, <1>3a, <2>1, <2>2
<1>5. ASSUME NEW i \in 1..(Len(q) - 1)
      PROVE  less[i] = Tail(q)[i] + less[i + 1]
  BY <1>1, <1>2
<1> HIDE DEF less
<1>6. Sums(Tail(q), n - Head(q)) BY <1>2, <1>3, <1>4, <1>5 DEF Sums
<1>7. Tail(q) \in Seq(1..MaxChunk) OBVIOUS
<1> QED BY <1>3a, <1>6, <1>7

\* wrote: a rest in front adds its length.
LEMMA SumsPush ==
  ASSUME NEW q \in Seq(1..MaxChunk), NEW n, Sums(q, n), NEW k \in 1..MaxChunk
  PROVE  Sums(<<k>> \o q, n + k) /\ <<k>> \o q \in Seq(1..MaxChunk)
<1>1. PICK left \in [1..(Len(q) + 1) -> Nat] :
        /\ left[1] = n /\ left[Len(q) + 1] = 0
        /\ \A i \in 1..Len(q) : left[i] = q[i] + left[i + 1]
  BY DEF Sums
<1> DEFINE more == [i \in 1..(Len(q) + 2) |->
                      IF i = 1 THEN n + k ELSE left[i - 1]]
           r == <<k>> \o q
<1>2. r \in Seq(1..MaxChunk) /\ Len(r) = Len(q) + 1 /\ r[1] = k
      /\ \A i \in 1..Len(q) : r[i + 1] = q[i]
  OBVIOUS
<1>3. more \in [1..(Len(q) + 2) -> Nat] BY <1>1
<1>4. more[1] = n + k /\ more[Len(q) + 2] = 0 BY <1>1
<1>5. ASSUME NEW i \in 1..(Len(q) + 1)
      PROVE  more[i] = r[i] + more[i + 1]
  <2>1. CASE i = 1
    <3>1. more[1] = n + k /\ more[2] = left[1] /\ left[1] \in Nat OBVIOUS
    <3>2. k \in Nat BY CaptureAssumption DEF CaptureAssumption
    <3>3. more[i] = n + k /\ more[i + 1] = n /\ n \in Nat /\ r[i] = k
      BY <1>1, <1>2, <2>1, <3>1
    <3> HIDE DEF more, r
    <3> QED BY <3>2, <3>3
  <2>2. CASE i \in 2..(Len(q) + 1)
    <3>1. PICK j \in 1..Len(q) : i = j + 1 BY <2>2
    <3>2. more[i] = left[j] /\ more[i + 1] = left[j + 1] BY <3>1
    <3>3. r[i] = q[j] BY <1>2, <3>1
    <3> QED BY <1>1, <3>2, <3>3
  <2> QED BY <2>1, <2>2
<1> HIDE DEF more, r
<1>6. Sums(r, n + k)
  <2>1. Len(q) \in Nat OBVIOUS
  <2>2. Len(r) \in Nat /\ Len(r) + 1 = Len(q) + 2 BY <1>2, <2>1
  <2> QED BY <2>1, <2>2, <1>2, <1>3, <1>4, <1>5 DEF Sums
<1> QED BY <1>2, <1>6 DEF r

-----------------------------------------------------------------------------
\* What the methods leave alone, in groups of fields.
SameBytes(x, y) ==
  /\ y.queue = x.queue /\ y.queued = x.queued /\ y.inflight = x.inflight
  /\ y.accepted = x.accepted /\ y.committed = x.committed
  /\ y.dropped = x.dropped /\ y.uncertain = x.uncertain

SameFile(x, y) ==
  /\ y.handle = x.handle /\ y.opening = x.opening
  /\ y.writing = x.writing /\ y.closed = x.closed

SameEnd(x, y) ==
  /\ y.settled = x.settled /\ y.complete = x.complete
  /\ y.cleaned = x.cleaned /\ y.scheduled = x.scheduled

MayClose(x) == ~ Busy(x) /\ ~ x.closed /\ x.handle

\* A close starts, under the stall timer, if one may.
Closes(x, y) ==
  /\ ~ MayClose(x) => y.closing = x.closing /\ y.timer = x.timer
  /\ MayClose(x) => y.closing /\ (y.timer <=> (x.timer \/ ~ x.settled))

\* close starts a close and its timer, and changes nothing else.
LEMMA CloseFrame ==
  ASSUME NEW x \in Writer
  PROVE  LET y == Close(x) IN
         /\ y \in Writer /\ SameBytes(x, y) /\ SameFile(x, y) /\ SameEnd(x, y)
         /\ y.ending = x.ending /\ y.paused = x.paused /\ y.reason = x.reason
         /\ Closes(x, y)
<1>1. CASE MayClose(x)
  <2> DEFINE y == [x EXCEPT !.closing = TRUE, !.timer = @ \/ ~ x.settled]
  <2>1. Close(x) = y BY Zenon, <1>1 DEF Close, MayClose
  <2>2. (x.timer \/ ~ x.settled) \in BOOLEAN OBVIOUS
  <2>3. y \in Writer BY Zenon, <2>2 DEF Writer
  <2>4. SameBytes(x, y) /\ SameFile(x, y) /\ SameEnd(x, y) 
    BY Zenon DEF Writer, SameBytes, SameFile, SameEnd
  <2>5. /\ y.ending = x.ending /\ y.paused = x.paused /\ y.reason = x.reason
        /\ y.closing /\ (y.timer <=> (x.timer \/ ~ x.settled))
    BY Zenon DEF Writer
  <2> HIDE DEF y
  <2> QED BY Zenon, <1>1, <2>1, <2>3, <2>4, <2>5 DEF Closes
<1>2. CASE ~ MayClose(x)
  <2>1. Close(x) = x BY Zenon, <1>2 DEF Close, MayClose
  <2> QED BY Zenon, <1>2, <2>1 DEF SameBytes, SameFile, SameEnd, Closes
<1> QED BY <1>1, <1>2

\* fail drops the queue, resumes the streams, ends and closes.
LEMMA FailFrame ==
  ASSUME NEW x \in Writer
  PROVE  LET y == Fail(x) IN
         /\ y \in Writer /\ SameFile(x, y) /\ SameEnd(x, y)
         /\ y.queue = <<>> /\ y.queued = 0 /\ y.inflight = x.inflight
         /\ y.accepted = x.accepted /\ y.committed = x.committed
         /\ y.dropped = x.dropped + x.queued /\ y.uncertain = x.uncertain
         /\ y.ending /\ ~ y.paused /\ y.reason
         /\ Closes(x, y)
<1> DEFINE z == [Resume(DropQueued(x)) EXCEPT !.reason = TRUE, !.ending = TRUE]
<1>1. x.dropped + x.queued \in Int /\ 0 \in Int /\ <<>> \in Seq(1..MaxChunk)
  <2>1. x.dropped \in Int /\ x.queued \in Int BY Zenon DEF Writer
  <2> QED BY <2>1
<1>2. z \in Writer BY Zenon, <1>1 DEF Writer, Resume, DropQueued
<1>3. SameFile(x, z) /\ SameEnd(x, z) /\ z.closing = x.closing /\ z.timer = x.timer
  BY Zenon DEF Writer, Resume, DropQueued, SameFile, SameEnd
<1>4. /\ z.queue = <<>> /\ z.queued = 0 /\ z.inflight = x.inflight
      /\ z.accepted = x.accepted /\ z.committed = x.committed
      /\ z.dropped = x.dropped + x.queued /\ z.uncertain = x.uncertain
      /\ z.ending /\ ~ z.paused /\ z.reason
  BY Zenon DEF Writer, Resume, DropQueued
<1>5. Fail(x) = Close(z) BY Zenon DEF Fail
<1> HIDE DEF z
<1>6. MayClose(x) <=> MayClose(z)
  BY Zenon, <1>3 DEF MayClose, Busy, SameFile
<1> DEFINE y == Close(z)
<1>7. /\ y \in Writer /\ SameBytes(z, y) /\ SameFile(z, y) /\ SameEnd(z, y)
      /\ y.ending = z.ending /\ y.paused = z.paused /\ y.reason = z.reason
      /\ Closes(z, y)
  BY Zenon, <1>2, CloseFrame
<1> HIDE DEF y
<1>8. SameFile(x, y) BY Zenon, <1>3, <1>7 DEF SameFile
<1>9. SameEnd(x, y) BY Zenon, <1>3, <1>7 DEF SameEnd
<1>10. /\ y.queue = <<>> /\ y.queued = 0 /\ y.inflight = x.inflight
       /\ y.accepted = x.accepted /\ y.committed = x.committed
       /\ y.dropped = x.dropped + x.queued /\ y.uncertain = x.uncertain
       /\ y.ending /\ ~ y.paused /\ y.reason
  BY Zenon, <1>4, <1>7 DEF SameBytes
<1>11. Closes(x, y) BY Zenon, <1>3, <1>6, <1>7 DEF Closes, SameEnd
<1> QED BY Zenon, <1>5, <1>7, <1>8, <1>9, <1>10, <1>11 DEF y

\* settle decides the result and disarms the timer, once.
LEMMA SettleFrame ==
  ASSUME NEW x \in Writer
  PROVE  LET y == Settle(x) IN
         /\ y \in Writer /\ SameBytes(x, y) /\ SameFile(x, y)
         /\ y.closing = x.closing /\ y.ending = x.ending /\ y.paused = x.paused
         /\ y.reason = x.reason /\ y.cleaned = x.cleaned
         /\ y.scheduled = x.scheduled /\ y.settled
         /\ x.settled => y = x
         /\ ~ x.settled => ~ y.timer /\ (y.complete <=> (~ x.reason /\ x.closed))
<1>1. CASE x.settled
  BY Zenon, <1>1 DEF Settle, SameBytes, SameFile
<1>2. CASE ~ x.settled
  <2> DEFINE y == [x EXCEPT !.settled = TRUE, !.timer = FALSE,
                            !.complete = ~ x.reason /\ x.closed]
  <2>1. Settle(x) = y BY Zenon, <1>2 DEF Settle
  <2>2. (~ x.reason /\ x.closed) \in BOOLEAN OBVIOUS
  <2>3. y \in Writer BY Zenon, <2>2 DEF Writer
  <2>4. SameBytes(x, y) /\ SameFile(x, y) BY Zenon DEF Writer, SameBytes, SameFile
  <2>5. /\ y.closing = x.closing /\ y.ending = x.ending /\ y.paused = x.paused
        /\ y.reason = x.reason /\ y.cleaned = x.cleaned
        /\ y.scheduled = x.scheduled /\ y.settled
        /\ ~ y.timer /\ (y.complete <=> (~ x.reason /\ x.closed))
    BY Zenon DEF Writer
  <2> HIDE DEF y
  <2> QED BY Zenon, <1>2, <2>1, <2>3, <2>4, <2>5
<1> QED BY <1>1, <1>2

\* finishCleanup sets nothing but the cleanup flag.
LEMMA CleanupFrame ==
  ASSUME NEW x \in Writer
  PROVE  LET y == FinishCleanup(x) IN
         /\ y \in Writer /\ SameBytes(x, y) /\ SameFile(x, y)
         /\ y.closing = x.closing /\ y.ending = x.ending /\ y.paused = x.paused
         /\ y.reason = x.reason /\ y.scheduled = x.scheduled
         /\ y.settled = x.settled /\ y.complete = x.complete /\ y.timer = x.timer
         /\ y.cleaned <=> \/ x.cleaned
                          \/ x.settled /\ ~ Busy(x) /\ (x.handle => x.closed)
<1> DEFINE may == x.settled /\ ~ Busy(x) /\ (x.handle => x.closed)
<1>1. CASE ~ may
  <2>1. FinishCleanup(x) = x BY Zenon, <1>1 DEF FinishCleanup
  <2> QED BY Zenon, <1>1, <2>1 DEF SameBytes, SameFile
<1>2. CASE may
  <2> DEFINE y == [x EXCEPT !.cleaned = TRUE]
  <2>1. FinishCleanup(x) = y BY Zenon, <1>2 DEF FinishCleanup
  <2>2. y \in Writer BY Zenon DEF Writer
  <2>3. SameBytes(x, y) /\ SameFile(x, y) BY Zenon DEF Writer, SameBytes, SameFile
  <2>4. /\ y.closing = x.closing /\ y.ending = x.ending /\ y.paused = x.paused
        /\ y.reason = x.reason /\ y.scheduled = x.scheduled
        /\ y.settled = x.settled /\ y.complete = x.complete /\ y.timer = x.timer
        /\ y.cleaned
    BY Zenon DEF Writer
  <2> HIDE DEF y
  <2> QED BY Zenon, <1>2, <2>1, <2>2, <2>3, <2>4
<1> QED BY <1>1, <1>2

\* abort drops everything buffered and settles as incomplete.
LEMMA AbortFrame ==
  ASSUME NEW x \in Writer, ~ x.settled
  PROVE  LET y == Aborted(x) IN
         /\ y \in Writer /\ SameFile(x, y)
         /\ y.queue = <<>> /\ y.queued = 0 /\ y.inflight = 0
         /\ y.accepted = x.accepted /\ y.committed = x.committed
         /\ y.dropped = (x.dropped + x.queued) + x.inflight
         /\ y.uncertain = x.uncertain + x.inflight
         /\ y.ending = x.ending /\ y.cleaned = x.cleaned
         /\ y.scheduled = x.scheduled
         /\ y.settled /\ ~ y.paused /\ y.reason /\ ~ y.timer /\ ~ y.complete
         /\ ~ MayClose(x) => y.closing = x.closing
<1> DEFINE a == Resume(LoseInflight(DropQueued([x EXCEPT !.reason = TRUE])))
           b == Settle(a)
           y == Close(b)
<1>1. /\ (x.dropped + x.queued) + x.inflight \in Int /\ x.dropped + x.queued \in Int
      /\ x.uncertain + x.inflight \in Int
      /\ 0 \in Int /\ <<>> \in Seq(1..MaxChunk)
  <2>1. x.dropped \in Int /\ x.queued \in Int /\ x.inflight \in Int /\ x.uncertain \in Int
    BY Zenon DEF Writer
  <2> QED BY <2>1
<1>2. a \in Writer BY Zenon, <1>1 DEF Writer, Resume, LoseInflight, DropQueued
<1>3. /\ a.queue = <<>> /\ a.queued = 0 /\ a.inflight = 0
      /\ a.accepted = x.accepted /\ a.committed = x.committed
      /\ a.dropped = (x.dropped + x.queued) + x.inflight
      /\ a.uncertain = x.uncertain + x.inflight
  BY Zenon DEF Writer, Resume, LoseInflight, DropQueued
<1>4. SameFile(x, a) /\ SameEnd(x, a) /\ a.closing = x.closing
  BY Zenon DEF Writer, Resume, LoseInflight, DropQueued, SameFile, SameEnd
<1>5. a.ending = x.ending /\ ~ a.paused /\ a.reason /\ ~ a.settled
  BY Zenon DEF Writer, Resume, LoseInflight, DropQueued
<1>6. Aborted(x) = y BY Zenon DEF Aborted
<1> HIDE DEF a
<1>7. /\ b \in Writer /\ SameBytes(a, b) /\ SameFile(a, b)
      /\ b.closing = a.closing /\ b.ending = a.ending /\ b.paused = a.paused
      /\ b.reason = a.reason /\ b.cleaned = a.cleaned
      /\ b.scheduled = a.scheduled /\ b.settled
      /\ ~ b.timer /\ ~ b.complete
  BY Zenon, <1>2, <1>5, SettleFrame
<1> HIDE DEF b
<1>8. /\ y \in Writer /\ SameBytes(b, y) /\ SameFile(b, y) /\ SameEnd(b, y)
      /\ y.ending = b.ending /\ y.paused = b.paused /\ y.reason = b.reason
      /\ Closes(b, y)
  BY Zenon, <1>7, CloseFrame
<1> HIDE DEF y
<1>9. SameFile(x, y) BY Zenon, <1>4, <1>7, <1>8 DEF SameFile
<1>10. /\ y.queue = <<>> /\ y.queued = 0 /\ y.inflight = 0
       /\ y.accepted = x.accepted /\ y.committed = x.committed
       /\ y.dropped = (x.dropped + x.queued) + x.inflight
       /\ y.uncertain = x.uncertain + x.inflight
  BY Zenon, <1>3, <1>7, <1>8 DEF SameBytes
<1>11. /\ y.ending = x.ending /\ y.cleaned = x.cleaned
       /\ y.scheduled = x.scheduled
       /\ y.settled /\ ~ y.paused /\ y.reason /\ ~ y.complete
  BY Zenon, <1>4, <1>5, <1>7, <1>8 DEF SameEnd
<1>12. MayClose(b) <=> MayClose(x)
  BY Zenon, <1>4, <1>7 DEF MayClose, Busy, SameFile
<1>13. ~ y.timer BY Zenon, <1>7, <1>8 DEF Closes
<1>14. ~ MayClose(x) => y.closing = x.closing
  BY Zenon, <1>4, <1>7, <1>8, <1>12 DEF Closes
<1> QED BY Zenon, <1>6, <1>8, <1>9, <1>10, <1>11, <1>13, <1>14

\* What append and a write that returns do once the bytes are accounted for.
LEMMA FlowFrame ==
  ASSUME NEW x \in Writer, ~ x.settled
  PROVE  LET y == PumpSoon(Flow(x)) IN
         /\ y \in Writer /\ SameBytes(x, y) /\ SameFile(x, y)
         /\ y.closing = x.closing /\ y.ending = x.ending /\ y.reason = x.reason
         /\ y.settled = x.settled /\ y.complete = x.complete
         /\ y.cleaned = x.cleaned /\ y.timer = x.timer
         /\ y.paused => Buffered(x) > Low
<1> DEFINE p == IF x.paused THEN Buffered(x) > Low ELSE Buffered(x) >= High
           a == [x EXCEPT !.paused = p]
           y == PumpSoon(a)
<1>1. p \in BOOLEAN
  <2>1. (Buffered(x) > Low) \in BOOLEAN /\ (Buffered(x) >= High) \in BOOLEAN
    BY SMT
  <2> QED BY Zenon, <2>1
<1>2. p => Buffered(x) > Low
  <2>1. x.queued \in Int /\ x.inflight \in Int BY Zenon DEF Writer
  <2> QED BY <2>1, CaptureAssumption DEF CaptureAssumption, Buffered
<1>3. Flow(x) = a BY Zenon DEF Flow
<1> HIDE DEF p
<1>4. a \in Writer BY Zenon, <1>1 DEF Writer
<1>5. /\ SameBytes(x, a) /\ SameFile(x, a)
      /\ a.closing = x.closing /\ a.ending = x.ending /\ a.reason = x.reason
      /\ a.settled = x.settled /\ a.complete = x.complete
      /\ a.cleaned = x.cleaned /\ a.timer = x.timer /\ a.paused = p
  BY Zenon DEF Writer, SameBytes, SameFile
<1> HIDE DEF a
<1>6. (a.scheduled \/ ~ a.settled) \in BOOLEAN OBVIOUS
<1>7. y \in Writer BY Zenon, <1>4, <1>6 DEF Writer, PumpSoon
<1>8. /\ SameBytes(a, y) /\ SameFile(a, y)
      /\ y.closing = a.closing /\ y.ending = a.ending /\ y.reason = a.reason
      /\ y.settled = a.settled /\ y.complete = a.complete
      /\ y.cleaned = a.cleaned /\ y.timer = a.timer /\ y.paused = a.paused
  BY Zenon, <1>4 DEF Writer, PumpSoon, SameBytes, SameFile
<1> HIDE DEF y
<1>9. SameBytes(x, y) BY Zenon, <1>5, <1>8 DEF SameBytes
<1>10. SameFile(x, y) BY Zenon, <1>5, <1>8 DEF SameFile
<1> QED BY Zenon, <1>2, <1>3, <1>5, <1>7, <1>8, <1>9, <1>10 DEF y

-----------------------------------------------------------------------------
\* The bytes are accounted for, and none are left behind by a writer that
\* closes its file or has settled.
Bytes(x) ==
  /\ x.inflight \in 0..MaxChunk /\ Sums(x.queue, x.queued)
  /\ ~ x.writing => x.inflight = 0
  /\ x.accepted = x.committed + Buffered(x) + x.dropped
  /\ 0 <= x.uncertain /\ x.uncertain <= x.dropped
  /\ Buffered(x) <= Hard
  /\ x.closing \/ x.settled => x.queue = <<>> /\ x.inflight = 0
  /\ x.complete => x.committed = x.accepted

\* At most one operation is in flight; the result and the cleanup are final.
Flags(x) ==
  /\ ~ (x.opening /\ x.writing) /\ ~ (x.opening /\ x.closing)
  /\ ~ (x.writing /\ x.closing)
  /\ x.closing => x.ending \/ x.settled
  /\ x.cleaned => x.settled /\ ~ Busy(x) /\ (x.handle => x.closed)
  /\ x.complete => x.settled /\ x.closed

Kept(x) == x \in Writer /\ Bytes(x) /\ Flags(x)

Lossless(x) == ~ x.reason => x.dropped = 0
Unstuck(x) == x.paused => ~ x.settled /\ Buffered(x) > Low
Watched(x) == ~ x.settled => (x.timer <=> Busy(x))

IInv(x) == Kept(x) /\ Lossless(x) /\ Unstuck(x) /\ Watched(x)

\* The integers of a writer.
LEMMA Counters ==
  ASSUME NEW x, Kept(x)
  PROVE  /\ x.queued \in Nat /\ x.inflight \in Nat /\ x.accepted \in Int
         /\ x.committed \in Int /\ x.dropped \in Int /\ x.uncertain \in Int
         /\ x.queue \in Seq(1..MaxChunk)
         /\ x.inflight \in 0..MaxChunk
         /\ x.closing \/ x.settled => x.queued = 0
         /\ x.queue = <<>> => x.queued = 0
<1>1. /\ x.accepted \in Int /\ x.committed \in Int /\ x.dropped \in Int
      /\ x.uncertain \in Int /\ x.queue \in Seq(1..MaxChunk)
  BY Zenon DEF Kept, Writer
<1>2. x.queued \in Nat BY Zenon, <1>1, SumsNat DEF Kept, Bytes
<1>3. x.queue = <<>> => x.queued = 0 BY Zenon, SumsOnlyEmpty DEF Kept, Bytes
<1>4. x.inflight \in 0..MaxChunk BY Zenon DEF Kept, Bytes
<1>5. x.inflight \in Nat BY <1>4, CaptureAssumption DEF CaptureAssumption
<1> QED BY Zenon, <1>1, <1>2, <1>3, <1>4, <1>5 DEF Kept, Bytes

\* abort restores the invariant from any point of a handler.
LEMMA AbortKeeps ==
  ASSUME NEW x, Kept(x), ~ x.settled PROVE IInv(Aborted(x))
<1> DEFINE y == Aborted(x)
<1>1. /\ y \in Writer /\ SameFile(x, y)
      /\ y.queue = <<>> /\ y.queued = 0 /\ y.inflight = 0
      /\ y.accepted = x.accepted /\ y.committed = x.committed
      /\ y.dropped = (x.dropped + x.queued) + x.inflight
      /\ y.uncertain = x.uncertain + x.inflight
      /\ y.ending = x.ending /\ y.cleaned = x.cleaned
      /\ y.settled /\ ~ y.paused /\ y.reason /\ ~ y.complete
      /\ ~ MayClose(x) => y.closing = x.closing
  BY Zenon, AbortFrame DEF Kept
<1> HIDE DEF y
<1>2. Bytes(y)
  BY <1>1, Counters, SumsEmpty, CaptureAssumption
     DEF Kept, Bytes, Buffered, CaptureAssumption
<1>3. Flags(y) BY Zenon, <1>1 DEF Kept, Flags, SameFile, MayClose, Busy
<1> QED BY Zenon, <1>1, <1>2, <1>3 DEF IInv, Kept, Lossless, Unstuck, Watched, y

\* fail restores all of it but the watch of a stall timer already lost.
LEMMA FailKeeps ==
  ASSUME NEW x, Kept(x), ~ x.settled
  PROVE  LET y == Fail(x) IN
         /\ Kept(y) /\ Lossless(y) /\ ~ y.paused /\ ~ y.settled
         /\ y.queue = <<>> /\ y.inflight = x.inflight
         /\ Watched(x) => IInv(y)
<1> DEFINE y == Fail(x)
<1>1. /\ y \in Writer /\ SameFile(x, y) /\ SameEnd(x, y)
      /\ y.queue = <<>> /\ y.queued = 0 /\ y.inflight = x.inflight
      /\ y.accepted = x.accepted /\ y.committed = x.committed
      /\ y.dropped = x.dropped + x.queued /\ y.uncertain = x.uncertain
      /\ y.ending /\ ~ y.paused /\ y.reason
      /\ Closes(x, y)
  BY Zenon, FailFrame DEF Kept
<1> HIDE DEF y
<1>2. /\ ~ y.settled /\ ~ y.complete /\ ~ y.cleaned
      /\ ~ y.writing \/ y.closing => x.inflight = 0
  BY Zenon, <1>1
     DEF Kept, Flags, Bytes, SameFile, SameEnd, Closes, MayClose, Busy
<1>3. Bytes(y)
  <2>1. /\ x.accepted = x.committed + (x.queued + x.inflight) + x.dropped
        /\ 0 <= x.uncertain /\ x.uncertain <= x.dropped
        /\ x.queued + x.inflight <= Hard
    BY Zenon DEF Kept, Bytes, Buffered
  <2>2. /\ y.accepted = y.committed + Buffered(y) + y.dropped
        /\ 0 <= y.uncertain /\ y.uncertain <= y.dropped
        /\ Buffered(y) <= Hard
    BY <1>1, <2>1, Counters, CaptureAssumption DEF Buffered, CaptureAssumption
  <2>3. y.inflight \in 0..MaxChunk /\ Sums(y.queue, y.queued)
    BY Zenon, <1>1, Counters, SumsEmpty
  <2> QED BY Zenon, <1>1, <1>2, <2>2, <2>3 DEF Bytes
<1>4. Flags(y)
  BY Zenon, <1>1, <1>2 DEF Kept, Flags, SameFile, Closes, MayClose, Busy
<1>5. Watched(x) => Watched(y)
  BY Zenon, <1>1, <1>2 DEF Watched, SameFile, Closes, MayClose, Busy
<1> QED
  BY Zenon, <1>1, <1>2, <1>3, <1>4, <1>5 DEF IInv, Kept, Lossless, Unstuck, y

\* settling an empty, resumed writer restores the invariant.
LEMMA SettleKeeps ==
  ASSUME NEW x, Kept(x), Lossless(x), ~ x.settled, ~ x.paused,
         x.queue = <<>>, x.inflight = 0
  PROVE  IInv(Settle(x))
<1> DEFINE y == Settle(x)
<1>1. /\ y \in Writer /\ SameBytes(x, y) /\ SameFile(x, y)
      /\ y.closing = x.closing /\ y.ending = x.ending /\ y.paused = x.paused
      /\ y.reason = x.reason /\ y.cleaned = x.cleaned /\ y.settled
      /\ y.complete <=> (~ x.reason /\ x.closed)
  BY Zenon, SettleFrame DEF Kept
<1> HIDE DEF y
<1>2. /\ y.queue = <<>> /\ y.queued = 0 /\ y.inflight = 0
      /\ y.accepted = x.accepted /\ y.committed = x.committed
      /\ y.dropped = x.dropped /\ y.uncertain = x.uncertain
  BY Zenon, <1>1, Counters DEF SameBytes
<1>3. Bytes(y)
  <2>1. /\ x.accepted = x.committed + (x.queued + x.inflight) + x.dropped
        /\ 0 <= x.uncertain /\ x.uncertain <= x.dropped
        /\ x.queued + x.inflight <= Hard
    BY Zenon DEF Kept, Bytes, Buffered
  <2>2. /\ y.accepted = y.committed + Buffered(y) + y.dropped
        /\ 0 <= y.uncertain /\ y.uncertain <= y.dropped
        /\ Buffered(y) <= Hard
        /\ y.dropped = 0 => y.committed = y.accepted
    <3>1. /\ x.queued = 0 /\ x.accepted \in Int /\ x.committed \in Int
          /\ x.dropped \in Int /\ x.uncertain \in Int
      BY Zenon, Counters
    <3> QED BY <1>2, <2>1, <3>1 DEF Buffered
  <2>3. y.inflight \in 0..MaxChunk /\ Sums(y.queue, y.queued)
    BY Zenon, <1>2, Counters, SumsEmpty
  <2>4. y.complete => y.dropped = 0 BY Zenon, <1>1, <1>2 DEF Lossless
  <2> QED BY Zenon, <1>2, <2>2, <2>3, <2>4 DEF Bytes
<1>4. Flags(y) BY Zenon, <1>1 DEF Kept, Flags, SameFile, Busy
<1> QED
  BY Zenon, <1>1, <1>2, <1>3, <1>4
     DEF IInv, Kept, Lossless, Unstuck, Watched, y

\* finishCleanup keeps the invariant.
LEMMA CleanupKeeps == ASSUME NEW x, IInv(x) PROVE IInv(FinishCleanup(x))
<1> DEFINE y == FinishCleanup(x)
<1>1. /\ y \in Writer /\ SameBytes(x, y) /\ SameFile(x, y)
      /\ y.closing = x.closing /\ y.ending = x.ending /\ y.paused = x.paused
      /\ y.reason = x.reason
      /\ y.settled = x.settled /\ y.complete = x.complete /\ y.timer = x.timer
      /\ y.cleaned <=> \/ x.cleaned
                       \/ x.settled /\ ~ Busy(x) /\ (x.handle => x.closed)
  BY Zenon, CleanupFrame DEF IInv, Kept
<1> HIDE DEF y
<1>2. Bytes(y)
  BY <1>1 DEF IInv, Kept, Bytes, Buffered, SameBytes, SameFile
<1>3. Flags(y) BY Zenon, <1>1 DEF IInv, Kept, Flags, SameFile, Busy
<1>4. Lossless(y) /\ Unstuck(y) /\ Watched(y)
  BY Zenon, <1>1
     DEF IInv, Lossless, Unstuck, Watched, Buffered, SameBytes, SameFile, Busy
<1> QED BY Zenon, <1>1, <1>2, <1>3, <1>4 DEF IInv, Kept, y

\* Closing a settled or an emptied writer keeps the invariant.
LEMMA CloseKeeps ==
  ASSUME NEW x, IInv(x),
         x.settled \/ (x.ending /\ x.queue = <<>> /\ ~ x.writing)
  PROVE  IInv(Close(x))
<1> DEFINE y == Close(x)
<1>1. /\ y \in Writer /\ SameBytes(x, y) /\ SameFile(x, y) /\ SameEnd(x, y)
      /\ y.ending = x.ending /\ y.paused = x.paused /\ y.reason = x.reason
      /\ Closes(x, y)
  BY Zenon, CloseFrame DEF IInv, Kept
<1> HIDE DEF y
<1>2. x.queue = <<>> /\ x.inflight = 0 BY Zenon DEF IInv, Kept, Bytes
<1>3. Bytes(y)
  BY Zenon, <1>1, <1>2
     DEF IInv, Kept, Bytes, Buffered, SameBytes, SameFile, SameEnd
<1>4. Flags(y)
  BY Zenon, <1>1
     DEF IInv, Kept, Flags, SameFile, SameEnd, Closes, MayClose, Busy
<1>5. Lossless(y) /\ Unstuck(y)
  BY Zenon, <1>1 DEF IInv, Lossless, Unstuck, Buffered, SameBytes, SameEnd
<1>6. Watched(y)
  BY Zenon, <1>1
     DEF IInv, Watched, SameFile, SameEnd, Closes, MayClose, Busy
<1> QED BY Zenon, <1>1, <1>3, <1>4, <1>5, <1>6 DEF IInv, Kept, y

-----------------------------------------------------------------------------
\* The constructor establishes the invariant.
LEMMA InitInv == Init => IInv(w)
<1> SUFFICES ASSUME Init PROVE IInv(w) OBVIOUS
<1>1. 0 \in Int /\ <<>> \in Seq(1..MaxChunk) OBVIOUS
<1>2. w \in Writer BY Zenon, <1>1 DEF Init, Writer
<1>3. /\ w.queue = <<>> /\ w.queued = 0 /\ w.inflight = 0 /\ w.accepted = 0
      /\ w.committed = 0 /\ w.dropped = 0 /\ w.uncertain = 0
  BY Zenon DEF Init
<1>4. /\ ~ w.complete /\ ~ w.cleaned /\ ~ w.paused /\ ~ w.settled
      /\ ~ w.writing /\ ~ w.closing /\ w.opening /\ w.timer
  BY Zenon DEF Init
<1>5. Bytes(w)
  <2>1. Sums(w.queue, w.queued) BY Zenon, <1>3, SumsEmpty
  <2> QED
    BY <1>3, <1>4, <2>1, CaptureAssumption DEF Bytes, Buffered, CaptureAssumption
<1>6. Flags(w) BY Zenon, <1>4 DEF Flags
<1> QED
  BY Zenon, <1>2, <1>3, <1>4, <1>5, <1>6
     DEF IInv, Kept, Lossless, Unstuck, Watched, Busy

\* The integer part of the invariant, for the arithmetic of a step.
LEMMA Ledger ==
  ASSUME NEW x, Kept(x)
  PROVE  /\ x.accepted = x.committed + (x.queued + x.inflight) + x.dropped
         /\ 0 <= x.uncertain /\ x.uncertain <= x.dropped
         /\ x.queued + x.inflight <= Hard
BY Zenon DEF Kept, Bytes, Buffered

\* append keeps the invariant, whether it fails the capture or not.
LEMMA AppendInv ==
  ASSUME IInv(w), NEW n \in 1..MaxChunk, AppendChunk(n) PROVE IInv(w')
<1>1. w \in Writer /\ ~ w.settled /\ ~ w.ending /\ ~ w.closing /\ ~ w.complete
  BY Zenon DEF IInv, Kept, Flags, AppendChunk
<1>2. n \in Nat /\ n >= 1 /\ Hard \in Nat
  BY CaptureAssumption DEF CaptureAssumption
<1>3. /\ w.accepted \in Int /\ w.dropped \in Int /\ w.queued \in Nat
      /\ w.committed \in Int /\ w.uncertain \in Int
      /\ w.inflight \in Nat /\ w.queue \in Seq(1..MaxChunk)
  BY Zenon, Counters DEF IInv
<1>4. /\ w.accepted = w.committed + (w.queued + w.inflight) + w.dropped
      /\ 0 <= w.uncertain /\ w.uncertain <= w.dropped
      /\ w.queued + w.inflight <= Hard
  BY Zenon, Ledger DEF IInv
<1>5. w.accepted + n \in Int /\ w.dropped + n \in Int /\ w.queued + n \in Int
  BY <1>2, <1>3
<1>6. CASE w.reason \/ Buffered(w) + n > Hard
  <2> DEFINE x == [w EXCEPT !.accepted = @ + n, !.dropped = @ + n]
  <2>1. w' = Fail(x) BY Zenon, <1>6 DEF AppendChunk
  <2>2. x \in Writer BY Zenon, <1>1, <1>5 DEF Writer
  <2>3. /\ x.queue = w.queue /\ x.queued = w.queued /\ x.inflight = w.inflight
        /\ x.accepted = w.accepted + n /\ x.dropped = w.dropped + n
        /\ x.committed = w.committed /\ x.uncertain = w.uncertain
    BY Zenon, <1>1 DEF Writer
  <2>4. /\ SameFile(w, x) /\ SameEnd(w, x) /\ x.closing = w.closing
        /\ x.ending = w.ending /\ x.timer = w.timer
    BY Zenon, <1>1 DEF Writer, SameFile, SameEnd
  <2> HIDE DEF x
  <2>5. /\ x.accepted = x.committed + Buffered(x) + x.dropped
        /\ 0 <= x.uncertain /\ x.uncertain <= x.dropped
        /\ Buffered(x) <= Hard
    BY <1>2, <1>3, <1>4, <2>3 DEF Buffered
  <2>6. Bytes(x)
    BY Zenon, <1>1, <2>3, <2>4, <2>5
       DEF IInv, Kept, Bytes, SameFile, SameEnd
  <2>7. Flags(x)
    BY Zenon, <1>1, <2>4 DEF IInv, Kept, Flags, SameFile, SameEnd, Busy
  <2>8. Watched(x) /\ ~ x.settled
    BY Zenon, <1>1, <2>4 DEF IInv, Watched, SameFile, SameEnd, Busy
  <2> QED BY Zenon, <2>1, <2>2, <2>6, <2>7, <2>8, FailKeeps DEF Kept
<1>7. CASE ~ (w.reason \/ Buffered(w) + n > Hard)
  <2> DEFINE x == [w EXCEPT !.accepted = @ + n, !.queued = @ + n,
                            !.queue = Append(@, n)]
             y == PumpSoon(Flow(x))
  <2>1. w' = y BY Zenon, <1>7 DEF AppendChunk
  <2>2. Append(w.queue, n) \in Seq(1..MaxChunk) BY <1>3
  <2>3. x \in Writer BY Zenon, <1>1, <1>5, <2>2 DEF Writer
  <2>4. /\ x.queue = Append(w.queue, n) /\ x.queued = w.queued + n
        /\ x.inflight = w.inflight
        /\ x.accepted = w.accepted + n /\ x.dropped = w.dropped
        /\ x.committed = w.committed /\ x.uncertain = w.uncertain
    BY Zenon, <1>1 DEF Writer
  <2>5. /\ SameFile(w, x) /\ SameEnd(w, x) /\ x.closing = w.closing
        /\ x.ending = w.ending /\ x.timer = w.timer /\ x.reason = w.reason
    BY Zenon, <1>1 DEF Writer, SameFile, SameEnd
  <2> HIDE DEF x
  <2>6. ~ x.settled BY Zenon, <1>1, <2>5 DEF SameEnd
  <2>7. /\ y \in Writer /\ SameBytes(x, y) /\ SameFile(x, y)
        /\ y.closing = x.closing /\ y.ending = x.ending /\ y.reason = x.reason
        /\ y.settled = x.settled /\ y.complete = x.complete
        /\ y.cleaned = x.cleaned /\ y.timer = x.timer
        /\ y.paused => Buffered(x) > Low
    BY Zenon, <2>3, <2>6, FlowFrame
  <2> HIDE DEF y
  <2>8. /\ y.queue = Append(w.queue, n) /\ y.queued = w.queued + n
        /\ y.inflight = w.inflight
        /\ y.accepted = w.accepted + n /\ y.dropped = w.dropped
        /\ y.committed = w.committed /\ y.uncertain = w.uncertain
    BY Zenon, <2>4, <2>7 DEF SameBytes
  <2>9. Sums(y.queue, y.queued)
    BY Zenon, <1>3, <2>8, SumsAppend DEF IInv, Kept, Bytes
  <2>10. ~ (w.queued + w.inflight + n > Hard) BY Zenon, <1>7 DEF Buffered
  <2>11. /\ y.accepted = y.committed + Buffered(y) + y.dropped
         /\ 0 <= y.uncertain /\ y.uncertain <= y.dropped
         /\ Buffered(y) <= Hard
    <3>1. /\ y.queued = w.queued + n /\ y.inflight = w.inflight
          /\ y.accepted = w.accepted + n /\ y.dropped = w.dropped
          /\ y.committed = w.committed /\ y.uncertain = w.uncertain
      BY Zenon, <2>8
    <3>2. w.queued + w.inflight + n <= Hard BY <1>2, <1>3, <2>10
    <3>3. y.accepted = y.committed + Buffered(y) + y.dropped
      BY <1>2, <1>3, <1>4, <3>1 DEF Buffered
    <3>4. 0 <= y.uncertain /\ y.uncertain <= y.dropped BY <1>4, <3>1
    <3>5. Buffered(y) <= Hard
      BY <1>2, <1>3, <3>1, <3>2 DEF Buffered
    <3> QED BY <3>3, <3>4, <3>5
  <2>12. /\ ~ y.settled /\ ~ y.closing /\ ~ y.complete /\ ~ y.cleaned
         /\ y.writing = w.writing /\ y.opening = w.opening /\ y.timer = w.timer
         /\ y.reason = w.reason
    BY Zenon, <1>1, <2>5, <2>7 DEF SameFile, SameEnd, IInv, Kept, Flags
  <2>13. Bytes(y)
    BY Zenon, <2>8, <2>9, <2>11, <2>12 DEF IInv, Kept, Bytes
  <2>14. Flags(y) BY Zenon, <2>12 DEF IInv, Kept, Flags
  <2>15. Lossless(y) BY Zenon, <2>8, <2>12 DEF IInv, Lossless
  <2>16. Unstuck(y)
    BY Zenon, <2>7, <2>12 DEF Unstuck, Buffered, SameBytes
  <2>17. Watched(y) BY Zenon, <1>1, <2>12 DEF IInv, Watched, Busy
  <2> QED
    BY Zenon, <2>1, <2>7, <2>13, <2>14, <2>15, <2>16, <2>17 DEF IInv, Kept
<1> QED BY <1>6, <1>7

\* A step that changes no byte and only flags that the invariant does not
\* relate to the bytes.
LEMMA SameKeeps ==
  ASSUME IInv(w), NEW y \in Writer, SameBytes(w, y), Flags(y),
         y.writing \/ w.inflight = 0,
         y.closing \/ y.settled => w.closing \/ w.settled,
         y.complete = w.complete
  PROVE  Kept(y)
<1>1. /\ y.queue = w.queue /\ y.queued = w.queued /\ y.inflight = w.inflight
      /\ y.accepted = w.accepted /\ y.committed = w.committed
      /\ y.dropped = w.dropped /\ y.uncertain = w.uncertain
  BY Zenon DEF SameBytes
<1>2. Buffered(y) = Buffered(w) BY Zenon, <1>1 DEF Buffered
<1>3. Bytes(y) BY Zenon, <1>1, <1>2 DEF IInv, Kept, Bytes
<1> QED BY Zenon, <1>3 DEF Kept

\* finish and truncate mark the writer as ending and schedule a pump.
LEMMA EndInv == ASSUME IInv(w), Finish \/ Truncate PROVE IInv(w')
<1>1. w \in Writer /\ ~ w.settled BY Zenon DEF IInv, Kept, Finish, Truncate
<1> DEFINE Ended(x) ==
             /\ SameBytes(w, x) /\ SameFile(w, x) /\ SameEnd(w, x)
             /\ x.closing = w.closing /\ x.ending /\ x.timer = w.timer
             /\ w.reason => x.reason
             /\ x.paused = w.paused
<1>2. PICK x \in Writer : w' = PumpSoon(x) /\ Ended(x)
  <2>1. CASE Truncate
    <3> DEFINE x == [w EXCEPT !.reason = TRUE, !.ending = TRUE]
    <3>1. x \in Writer BY Zenon, <1>1 DEF Writer
    <3>2. Ended(x) BY Zenon, <1>1 DEF Writer, SameBytes, SameFile, SameEnd
    <3> QED BY Zenon, <2>1, <3>1, <3>2 DEF Truncate
  <2>2. CASE Finish
    <3> DEFINE x == [w EXCEPT !.ending = TRUE]
    <3>1. x \in Writer BY Zenon, <1>1 DEF Writer
    <3>2. Ended(x) BY Zenon, <1>1 DEF Writer, SameBytes, SameFile, SameEnd
    <3> QED BY Zenon, <2>2, <3>1, <3>2 DEF Finish
  <2> QED BY <2>1, <2>2
<1> DEFINE y == PumpSoon(x)
<1>3. x \in Writer BY <1>2
<1>4. /\ SameBytes(w, x) /\ SameFile(w, x) /\ SameEnd(w, x)
      /\ x.closing = w.closing /\ x.ending /\ x.timer = w.timer
      /\ w.reason => x.reason
      /\ x.paused = w.paused
  BY Zenon, <1>2
<1>5. (x.scheduled \/ ~ x.settled) \in BOOLEAN OBVIOUS
<1>6. y \in Writer BY Zenon, <1>3, <1>5 DEF Writer, PumpSoon
<1>7. /\ SameBytes(x, y) /\ SameFile(x, y)
      /\ y.closing = x.closing /\ y.ending = x.ending /\ y.timer = x.timer
      /\ y.reason = x.reason /\ y.paused = x.paused
      /\ y.settled = x.settled /\ y.complete = x.complete /\ y.cleaned = x.cleaned
  BY Zenon, <1>3 DEF Writer, PumpSoon, SameBytes, SameFile
<1> HIDE DEF y
<1>8. SameBytes(w, y) BY Zenon, <1>4, <1>7 DEF SameBytes
<1>9. /\ y.handle = w.handle /\ y.opening = w.opening /\ y.writing = w.writing
      /\ y.closed = w.closed /\ y.closing = w.closing /\ y.timer = w.timer
      /\ y.ending /\ y.paused = w.paused
      /\ w.reason => y.reason
      /\ y.settled = w.settled /\ y.complete = w.complete /\ y.cleaned = w.cleaned
  BY Zenon, <1>4, <1>7 DEF SameFile, SameEnd
<1>10. Flags(y) BY Zenon, <1>9 DEF IInv, Kept, Flags, Busy
<1>11. y.writing \/ w.inflight = 0 BY Zenon, <1>9 DEF IInv, Kept, Bytes
<1>12. Kept(y) BY Zenon, <1>6, <1>8, <1>9, <1>10, <1>11, SameKeeps
<1>13. Lossless(y) BY Zenon, <1>8, <1>9 DEF IInv, Lossless, SameBytes
<1>14. Unstuck(y) BY Zenon, <1>8, <1>9 DEF IInv, Unstuck, Buffered, SameBytes
<1>15. Watched(y) BY Zenon, <1>9 DEF IInv, Watched, Busy
<1> QED BY Zenon, <1>2, <1>12, <1>13, <1>14, <1>15 DEF IInv, y

\* abort and the stall timer keep the invariant.
LEMMA AbortInv == ASSUME IInv(w), Abort \/ Stall PROVE IInv(w')
<1>1. CASE w.settled
  <2>1. ASSUME Stall PROVE IInv(w')
    <3> DEFINE x == [w EXCEPT !.timer = FALSE]
    <3>1. x \in Writer BY Zenon DEF IInv, Kept, Writer
    <3>2. /\ SameBytes(w, x) /\ SameFile(w, x) /\ SameEnd(w, x)
          /\ x.closing = w.closing /\ x.ending = w.ending
          /\ x.reason = w.reason /\ x.paused = w.paused
      BY Zenon DEF IInv, Kept, Writer, SameBytes, SameFile, SameEnd
    <3>3. w' = Aborted(x) BY Zenon, <2>1 DEF Stall
    <3> HIDE DEF x
    <3>4. w' = x BY Zenon, <1>1, <3>2, <3>3 DEF Aborted, SameEnd
    <3>5. Flags(x)
      BY Zenon, <3>2 DEF IInv, Kept, Flags, SameFile, SameEnd, Busy
    <3>6. Kept(x)
      BY Zenon, <1>1, <3>1, <3>2, <3>5, SameKeeps
         DEF IInv, Kept, Bytes, SameEnd, SameFile
    <3>7. Lossless(x) /\ Unstuck(x) /\ Watched(x)
      BY Zenon, <1>1, <3>2
         DEF IInv, Lossless, Unstuck, Watched, SameBytes, SameEnd
    <3> QED BY Zenon, <3>4, <3>6, <3>7 DEF IInv
  <2>2. ASSUME Abort PROVE IInv(w') BY Zenon, <1>1, <2>2 DEF Abort, Aborted
  <2> QED BY <2>1, <2>2
<1>2. CASE ~ w.settled
  <2>1. ASSUME Stall PROVE IInv(w')
    <3> DEFINE x == [w EXCEPT !.timer = FALSE]
    <3>1. x \in Writer BY Zenon DEF IInv, Kept, Writer
    <3>2. /\ SameBytes(w, x) /\ SameFile(w, x) /\ SameEnd(w, x)
          /\ x.closing = w.closing /\ x.ending = w.ending
      BY Zenon DEF IInv, Kept, Writer, SameBytes, SameFile, SameEnd
    <3>3. w' = Aborted(x) BY Zenon, <2>1 DEF Stall
    <3> HIDE DEF x
    <3>4. Flags(x)
      BY Zenon, <3>2 DEF IInv, Kept, Flags, SameFile, SameEnd, Busy
    <3>5. Kept(x)
      BY Zenon, <1>2, <3>1, <3>2, <3>4, SameKeeps
         DEF IInv, Kept, Bytes, SameEnd, SameFile
    <3> QED BY Zenon, <1>2, <3>2, <3>3, <3>5, AbortKeeps DEF SameEnd
  <2>2. ASSUME Abort PROVE IInv(w')
    BY Zenon, <1>2, <2>2, AbortKeeps DEF IInv, Abort
  <2> QED BY <2>1, <2>2
<1> QED BY <1>1, <1>2

\* The open that returns, in time or late, keeps the invariant.
LEMMA OpenedInv == ASSUME IInv(w), Opened PROVE IInv(w')
<1>1. w \in Writer /\ w.opening /\ ~ w.writing /\ ~ w.closing /\ ~ w.cleaned
  BY Zenon DEF IInv, Kept, Flags, Opened, Busy
<1> DEFINE x == [w EXCEPT !.opening = FALSE, !.handle = TRUE]
<1>2. x \in Writer BY Zenon, <1>1 DEF Writer
<1>3. /\ SameBytes(w, x) /\ SameEnd(w, x) /\ x.closing = w.closing
      /\ x.writing = w.writing /\ x.closed = w.closed /\ x.ending = w.ending
      /\ x.reason = w.reason /\ x.paused = w.paused /\ ~ x.opening
  BY Zenon, <1>1 DEF Writer, SameBytes, SameEnd
<1>4. CASE w.settled
  <2>1. w' = Close(x) BY Zenon, <1>4 DEF Opened
  <2> HIDE DEF x
  <2>2. Flags(x) BY Zenon, <1>1, <1>3 DEF IInv, Kept, Flags, SameEnd
  <2>3. Kept(x)
    BY Zenon, <1>2, <1>3, <1>4, <2>2, SameKeeps DEF IInv, Kept, Bytes, SameEnd
  <2>4. IInv(x)
    BY Zenon, <1>3, <1>4, <2>3
       DEF IInv, Lossless, Unstuck, Watched, SameBytes, SameEnd
  <2> QED BY Zenon, <1>3, <1>4, <2>1, <2>4, CloseKeeps DEF SameEnd
<1>5. CASE ~ w.settled
  <2> DEFINE z == [x EXCEPT !.timer = FALSE]
             y == PumpSoon(z)
  <2>1. w' = y BY Zenon, <1>5 DEF Opened
  <2> HIDE DEF x
  <2>2. z \in Writer BY Zenon, <1>2 DEF Writer
  <2>3. (z.scheduled \/ ~ z.settled) \in BOOLEAN OBVIOUS
  <2>4. /\ SameBytes(x, z) /\ ~ z.timer
        /\ z.settled = x.settled /\ z.complete = x.complete /\ z.cleaned = x.cleaned
        /\ z.closing = x.closing /\ z.writing = x.writing /\ z.closed = x.closed
        /\ z.ending = x.ending /\ z.reason = x.reason /\ z.paused = x.paused
        /\ z.opening = x.opening
    BY Zenon, <1>2 DEF Writer, SameBytes
  <2> HIDE DEF z
  <2>5. y \in Writer BY Zenon, <2>2, <2>3 DEF Writer, PumpSoon
  <2>6. /\ SameBytes(z, y) /\ y.timer = z.timer
        /\ y.settled = z.settled /\ y.complete = z.complete /\ y.cleaned = z.cleaned
        /\ y.closing = z.closing /\ y.writing = z.writing /\ y.closed = z.closed
        /\ y.ending = z.ending /\ y.reason = z.reason /\ y.paused = z.paused
        /\ y.opening = z.opening
    BY Zenon, <2>2 DEF Writer, PumpSoon, SameBytes
  <2> HIDE DEF y
  <2>7. SameBytes(w, y) BY Zenon, <1>3, <2>4, <2>6 DEF SameBytes
  <2>8. /\ ~ y.timer /\ ~ y.opening /\ ~ y.writing /\ ~ y.closing
        /\ y.settled = w.settled /\ y.complete = w.complete /\ y.cleaned = w.cleaned
        /\ y.closed = w.closed /\ y.reason = w.reason /\ y.paused = w.paused
    BY Zenon, <1>1, <1>3, <2>4, <2>6 DEF SameEnd
  <2>9. Flags(y) BY Zenon, <1>1, <2>8 DEF IInv, Kept, Flags
  <2>10. Kept(y)
    BY Zenon, <1>1, <2>5, <2>7, <2>8, <2>9, SameKeeps DEF IInv, Kept, Bytes
  <2>11. Lossless(y) BY Zenon, <2>7, <2>8 DEF IInv, Lossless, SameBytes
  <2>12. Unstuck(y) BY Zenon, <2>7, <2>8 DEF IInv, Unstuck, Buffered, SameBytes
  <2>13. Watched(y) BY Zenon, <2>8 DEF Watched, Busy
  <2> QED BY Zenon, <2>1, <2>10, <2>11, <2>12, <2>13 DEF IInv
<1> QED BY <1>4, <1>5

\* The open that fails keeps the invariant.
LEMMA OpenFailedInv == ASSUME IInv(w), OpenFailed PROVE IInv(w')
<1>1. w \in Writer /\ w.opening /\ ~ w.writing /\ ~ w.closing /\ ~ w.cleaned
  BY Zenon DEF IInv, Kept, Flags, OpenFailed, Busy
<1> DEFINE x == [w EXCEPT !.opening = FALSE]
<1>2. x \in Writer BY Zenon, <1>1 DEF Writer
<1>3. /\ SameBytes(w, x) /\ SameEnd(w, x) /\ x.closing = w.closing
      /\ x.writing = w.writing /\ x.closed = w.closed /\ x.ending = w.ending
      /\ x.reason = w.reason /\ x.paused = w.paused /\ ~ x.opening
  BY Zenon, <1>1 DEF Writer, SameBytes, SameEnd
<1>4. w' = FinishCleanup(IF w.settled THEN x ELSE Settle(Fail(x)))
  BY Zenon DEF OpenFailed
<1> HIDE DEF x
<1>5. Flags(x) BY Zenon, <1>1, <1>3 DEF IInv, Kept, Flags, SameEnd
<1>6. Kept(x) /\ w.inflight = 0
  BY Zenon, <1>1, <1>2, <1>3, <1>5, SameKeeps DEF IInv, Kept, Bytes, SameEnd
<1>7. CASE w.settled
  <2>1. IInv(x)
    BY Zenon, <1>3, <1>6, <1>7
       DEF IInv, Lossless, Unstuck, Watched, SameBytes, SameEnd
  <2> QED BY Zenon, <1>4, <1>7, <2>1, CleanupKeeps
<1>8. CASE ~ w.settled
  <2>1. ~ x.settled /\ x.inflight = 0
    BY Zenon, <1>3, <1>6, <1>8 DEF SameBytes, SameEnd
  <2>2. IInv(Settle(Fail(x)))
    BY Zenon, <1>6, <2>1, FailKeeps, SettleKeeps
  <2> QED BY Zenon, <1>4, <1>8, <2>2, CleanupKeeps
<1> QED BY <1>7, <1>8

\* The close that returns keeps the invariant.
LEMMA CloseDoneInv ==
  ASSUME IInv(w), NEW failed \in BOOLEAN, CloseDone(failed) PROVE IInv(w')
<1>1. w \in Writer /\ w.closing /\ ~ w.writing /\ ~ w.opening /\ ~ w.cleaned
  BY Zenon DEF IInv, Kept, Flags, CloseDone, Busy
<1> DEFINE x == [w EXCEPT !.closing = FALSE, !.closed = TRUE,
                          !.reason = @ \/ failed]
<1>2. (w.reason \/ failed) \in BOOLEAN OBVIOUS
<1>3. x \in Writer BY Zenon, <1>1, <1>2 DEF Writer
<1>4. /\ SameBytes(w, x) /\ SameEnd(w, x) /\ ~ x.closing /\ x.closed
      /\ x.writing = w.writing /\ x.opening = w.opening
      /\ x.paused = w.paused /\ x.ending = w.ending
      /\ w.reason => x.reason
  BY Zenon, <1>1 DEF Writer, SameBytes, SameEnd
<1>5. w' = FinishCleanup(Settle(x)) BY Zenon DEF CloseDone
<1> HIDE DEF x
<1>6. Flags(x) BY Zenon, <1>1, <1>4 DEF IInv, Kept, Flags, SameEnd
<1>7. w.queue = <<>> /\ w.inflight = 0 /\ w.queued = 0
  BY Zenon, <1>1, Counters DEF IInv, Kept, Bytes
<1>8. Kept(x) BY Zenon, <1>1, <1>3, <1>4, <1>6, <1>7, SameKeeps DEF SameEnd
<1>9. Lossless(x) BY Zenon, <1>4 DEF IInv, Lossless, SameBytes
<1>10. CASE w.settled
  <2>1. Settle(x) = x BY Zenon, <1>4, <1>10 DEF Settle, SameEnd
  <2>2. IInv(x)
    BY Zenon, <1>4, <1>8, <1>9, <1>10 DEF IInv, Unstuck, Watched, SameEnd
  <2> QED BY Zenon, <1>5, <2>1, <2>2, CleanupKeeps
<1>11. CASE ~ w.settled
  <2>1. ~ w.paused
    <3>1. ~ (Buffered(w) > Low)
      BY <1>7, CaptureAssumption DEF Buffered, CaptureAssumption
    <3> QED BY Zenon, <3>1 DEF IInv, Unstuck
  <2>2. ~ x.settled /\ ~ x.paused /\ x.queue = <<>> /\ x.inflight = 0
    BY Zenon, <1>4, <1>7, <1>11, <2>1 DEF SameBytes, SameEnd
  <2>3. IInv(Settle(x)) BY Zenon, <1>8, <1>9, <2>2, SettleKeeps
  <2> QED BY Zenon, <1>5, <2>3, CleanupKeeps
<1> QED BY <1>10, <1>11

\* The pump keeps the invariant.
LEMMA PumpInv == ASSUME IInv(w), Pump PROVE IInv(w')
<1>1. w \in Writer BY Zenon DEF IInv, Kept
<1> DEFINE x == [w EXCEPT !.scheduled = FALSE]
<1>2. x \in Writer BY Zenon, <1>1 DEF Writer
<1>3. /\ SameBytes(w, x) /\ SameFile(w, x) /\ x.closing = w.closing
      /\ x.ending = w.ending /\ x.reason = w.reason /\ x.paused = w.paused
      /\ x.settled = w.settled /\ x.complete = w.complete
      /\ x.cleaned = w.cleaned /\ x.timer = w.timer
  BY Zenon, <1>1 DEF Writer, SameBytes, SameFile
<1>4. w' = IF w.settled \/ Busy(w) THEN x
           ELSE IF w.queue = <<>> THEN IF w.ending THEN Close(x) ELSE x
           ELSE [x EXCEPT !.queue = Tail(@), !.queued = @ - Head(w.queue),
                          !.inflight = Head(w.queue), !.writing = TRUE,
                          !.timer = TRUE]
  BY Zenon DEF Pump
<1> HIDE DEF x
<1>5. Flags(x) BY Zenon, <1>3 DEF IInv, Kept, Flags, Busy, SameFile
<1>6. x.writing \/ w.inflight = 0 BY Zenon, <1>3 DEF IInv, Kept, Bytes, SameFile
<1>7. Kept(x) BY Zenon, <1>2, <1>3, <1>5, <1>6, SameKeeps
<1>8. IInv(x)
  BY Zenon, <1>3, <1>7
     DEF IInv, Lossless, Unstuck, Watched, Buffered, Busy, SameBytes, SameFile
<1>9. CASE w.settled \/ Busy(w) BY Zenon, <1>4, <1>8, <1>9
<1>10. CASE ~ (w.settled \/ Busy(w)) /\ w.queue = <<>>
  <2>1. CASE ~ w.ending BY Zenon, <1>4, <1>8, <1>10, <2>1
  <2>2. CASE w.ending
    <3>1. x.ending /\ x.queue = <<>> /\ ~ x.writing
      BY Zenon, <1>3, <1>10, <2>2 DEF SameBytes, SameFile, Busy
    <3>2. w' = Close(x) BY Zenon, <1>4, <1>10, <2>2
    <3> QED BY Zenon, <1>8, <3>1, <3>2, CloseKeeps
  <2> QED BY <2>1, <2>2
<1>11. CASE ~ (w.settled \/ Busy(w)) /\ w.queue # <<>>
  <2> DEFINE h == Head(w.queue)
             y == [x EXCEPT !.queue = Tail(@), !.queued = @ - h,
                            !.inflight = h, !.writing = TRUE, !.timer = TRUE]
  <2>1. w' = y BY Zenon, <1>4, <1>11
  <2>2. /\ x.queue = w.queue /\ x.queued = w.queued /\ w.inflight = 0
        /\ w.queued \in Nat /\ w.queue \in Seq(1..MaxChunk)
        /\ Sums(w.queue, w.queued) /\ x.queued \in Int
        /\ w.committed \in Int /\ w.dropped \in Int
    BY Zenon, <1>2, <1>3, <1>11, Counters
       DEF IInv, Kept, Bytes, Busy, SameBytes, Writer
  <2>3. /\ Sums(Tail(w.queue), w.queued - h)
        /\ Tail(w.queue) \in Seq(1..MaxChunk) /\ h \in 1..MaxChunk
    BY Zenon, <1>11, <2>2, SumsTail
  <2>4. h \in Nat /\ h \in Int /\ h \in 0..MaxChunk BY <2>3, CaptureAssumption DEF CaptureAssumption
  <2> HIDE DEF h
  <2>5. w.queued - h \in Int BY <2>2, <2>4
  <2>6. y \in Writer BY Zenon, <1>2, <2>2, <2>3, <2>4, <2>5 DEF Writer
  <2>7. /\ y.queue = Tail(w.queue) /\ y.queued = w.queued - h /\ y.inflight = h
        /\ y.accepted = x.accepted /\ y.committed = x.committed
        /\ y.dropped = x.dropped /\ y.uncertain = x.uncertain
    BY Zenon, <1>2, <2>2 DEF Writer
  <2>8. /\ y.opening = x.opening /\ y.closing = x.closing /\ y.closed = x.closed
        /\ y.ending = x.ending /\ y.reason = x.reason /\ y.paused = x.paused
        /\ y.settled = x.settled /\ y.complete = x.complete
        /\ y.cleaned = x.cleaned /\ y.timer /\ y.writing
    BY Zenon, <1>2 DEF Writer
  <2> HIDE DEF y
  <2>9. /\ ~ y.opening /\ ~ y.closing /\ ~ y.settled /\ ~ y.complete /\ ~ y.cleaned
        /\ y.paused = w.paused /\ y.reason = w.reason
    BY Zenon, <1>3, <1>8, <1>11, <2>8 DEF IInv, Kept, Flags, Busy, SameFile
  <2>10. /\ y.accepted = w.accepted /\ y.committed = w.committed
         /\ y.dropped = w.dropped /\ y.uncertain = w.uncertain
    BY Zenon, <1>3, <2>7 DEF SameBytes
  <2>11. Buffered(y) = Buffered(w)
    <3>1. y.queued = w.queued - h /\ y.inflight = h BY Zenon, <2>7
    <3> QED BY <2>2, <2>4, <3>1 DEF Buffered
  <2>12. y.inflight \in 0..MaxChunk /\ Sums(y.queue, y.queued)
    BY Zenon, <2>3, <2>4, <2>7
  <2>13. Bytes(y)
    BY Zenon, <2>8, <2>9, <2>10, <2>11, <2>12 DEF IInv, Kept, Bytes
  <2>14. Flags(y) BY Zenon, <2>9 DEF Flags
  <2>15. Lossless(y) /\ Unstuck(y) /\ Watched(y)
    BY Zenon, <2>8, <2>9, <2>10, <2>11
       DEF IInv, Lossless, Unstuck, Watched, Busy
  <2> QED BY Zenon, <2>1, <2>6, <2>13, <2>14, <2>15 DEF IInv, Kept
<1> QED BY <1>9, <1>10, <1>11

\* A write that returns after the writer has settled only lets it close.
LEMMA LateInv ==
  ASSUME IInv(w), w.settled, w.writing,
         w' = Close([w EXCEPT !.writing = FALSE])
  PROVE  IInv(w')
<1> DEFINE x == [w EXCEPT !.writing = FALSE]
<1>1. x \in Writer BY Zenon DEF IInv, Kept, Writer
<1>2. /\ SameBytes(w, x) /\ SameEnd(w, x) /\ x.closing = w.closing
      /\ x.opening = w.opening /\ x.handle = w.handle /\ x.closed = w.closed
      /\ x.ending = w.ending /\ x.reason = w.reason /\ x.paused = w.paused
  BY Zenon DEF IInv, Kept, Writer, SameBytes, SameEnd
<1> HIDE DEF x
<1>3. ~ w.cleaned BY Zenon DEF IInv, Kept, Flags, Busy
<1>4. Flags(x) BY Zenon, <1>2, <1>3 DEF IInv, Kept, Flags, SameEnd
<1>5. Kept(x)
  BY Zenon, <1>1, <1>2, <1>4, SameKeeps DEF IInv, Kept, Bytes, SameEnd
<1>6. IInv(x)
  BY Zenon, <1>2, <1>5
     DEF IInv, Lossless, Unstuck, Watched, SameBytes, SameEnd
<1>7. x.settled BY Zenon, <1>2 DEF SameEnd
<1> QED BY Zenon, <1>6, <1>7, CloseKeeps DEF x

\* The write that fails keeps the invariant.
LEMMA WriteFailedInv == ASSUME IInv(w), WriteFailed PROVE IInv(w')
<1>1. w \in Writer /\ w.writing /\ ~ w.opening /\ ~ w.closing
  BY Zenon DEF IInv, Kept, Flags, WriteFailed
<1>2. CASE w.settled BY Zenon, <1>1, <1>2, LateInv DEF WriteFailed
<1>3. CASE ~ w.settled
  <2> DEFINE x == LoseInflight([[w EXCEPT !.writing = FALSE] EXCEPT !.timer = FALSE])
  <2>1. w' = Fail(x) BY Zenon, <1>3 DEF WriteFailed
  <2>2. /\ w.queued \in Nat /\ w.inflight \in Nat /\ w.accepted \in Int
        /\ w.committed \in Int /\ w.dropped \in Int /\ w.uncertain \in Int
    BY Zenon, Counters DEF IInv
  <2>3. /\ w.accepted = w.committed + (w.queued + w.inflight) + w.dropped
        /\ 0 <= w.uncertain /\ w.uncertain <= w.dropped
        /\ w.queued + w.inflight <= Hard
    BY Zenon, Ledger DEF IInv
  <2>4. w.dropped + w.inflight \in Int /\ w.uncertain + w.inflight \in Int /\ 0 \in Int
    BY <2>2
  <2>5. x \in Writer BY Zenon, <1>1, <2>4 DEF Writer, LoseInflight
  <2>6. /\ x.queue = w.queue /\ x.queued = w.queued /\ x.inflight = 0
        /\ x.accepted = w.accepted /\ x.committed = w.committed
        /\ x.dropped = w.dropped + w.inflight
        /\ x.uncertain = w.uncertain + w.inflight
    BY Zenon, <1>1 DEF Writer, LoseInflight
  <2>7. /\ SameEnd(w, x) /\ ~ x.writing /\ ~ x.timer /\ x.closing = w.closing
        /\ x.opening = w.opening
    BY Zenon, <1>1 DEF Writer, LoseInflight, SameEnd
  <2> HIDE DEF x
  <2>8. /\ x.accepted = x.committed + Buffered(x) + x.dropped
        /\ 0 <= x.uncertain /\ x.uncertain <= x.dropped
        /\ Buffered(x) <= Hard
    <3>1. x.accepted = x.committed + Buffered(x) + x.dropped
      BY <2>2, <2>3, <2>6 DEF Buffered
    <3>2. 0 <= x.uncertain /\ x.uncertain <= x.dropped BY <2>2, <2>3, <2>6
    <3>3. Buffered(x) <= Hard
      BY <2>2, <2>3, <2>6, CaptureAssumption DEF Buffered, CaptureAssumption
    <3> QED BY <3>1, <3>2, <3>3
  <2>9. /\ ~ x.settled /\ ~ x.closing /\ ~ x.opening /\ ~ x.complete /\ ~ x.cleaned
    BY Zenon, <1>1, <1>3, <2>7 DEF IInv, Kept, Flags, SameEnd
  <2>10. Bytes(x)
    <3>1. x.inflight \in 0..MaxChunk
      BY <2>6, CaptureAssumption DEF CaptureAssumption
    <3> QED BY Zenon, <2>6, <2>8, <2>9, <3>1 DEF IInv, Kept, Bytes
  <2>11. Flags(x) BY Zenon, <2>9 DEF Flags
  <2>12. Watched(x) BY Zenon, <2>7, <2>9 DEF Watched, Busy
  <2> QED BY Zenon, <2>1, <2>5, <2>9, <2>10, <2>11, <2>12, FailKeeps DEF Kept
<1> QED BY <1>2, <1>3

\* The write that returns, whole or partial, keeps the invariant.
LEMMA WroteInv ==
  ASSUME IInv(w), NEW n \in 1..MaxChunk, Wrote(n) PROVE IInv(w')
<1>1. w \in Writer /\ w.writing /\ ~ w.opening /\ ~ w.closing
  BY Zenon DEF IInv, Kept, Flags, Wrote
<1>2. CASE w.settled BY Zenon, <1>1, <1>2, LateInv DEF Wrote
<1>3. CASE ~ w.settled
  <2> DEFINE rest == w.inflight - n
             left == IF rest = 0 THEN w.queue ELSE <<rest>> \o w.queue
             x == [[w EXCEPT !.writing = FALSE]
                     EXCEPT !.timer = FALSE, !.inflight = 0, !.committed = @ + n,
                            !.queued = @ + rest,
                            !.queue = left]
             y == PumpSoon(Flow(x))
  <2>1. w' = y /\ n \in 1..w.inflight
    <3>1. [w EXCEPT !.writing = FALSE].queue = w.queue BY Zenon, <1>1 DEF Writer
    <3> QED BY Zenon, <1>3, <3>1 DEF Wrote
  <2>2. /\ w.queued \in Nat /\ w.inflight \in Nat /\ w.accepted \in Int
        /\ w.committed \in Int /\ w.dropped \in Int /\ w.uncertain \in Int
        /\ w.queue \in Seq(1..MaxChunk) /\ w.inflight \in 0..MaxChunk
        /\ Sums(w.queue, w.queued)
    BY Zenon, Counters DEF IInv, Kept, Bytes
  <2>3. /\ w.accepted = w.committed + (w.queued + w.inflight) + w.dropped
        /\ 0 <= w.uncertain /\ w.uncertain <= w.dropped
        /\ w.queued + w.inflight <= Hard
    BY Zenon, Ledger DEF IInv
  <2>4. /\ rest \in Nat /\ n \in Nat /\ n >= 1
        /\ rest # 0 => rest \in 1..MaxChunk
    BY <2>1, <2>2, CaptureAssumption DEF CaptureAssumption
  <2>5. left \in Seq(1..MaxChunk) /\ Sums(left, w.queued + rest)
    <3>1. CASE rest = 0
      <4>1. w.queued + rest = w.queued BY <2>2, <3>1
      <4> QED BY Zenon, <2>2, <3>1, <4>1
    <3>2. CASE rest # 0
      BY Zenon, <2>2, <2>4, <3>2, SumsPush
    <3> QED BY <3>1, <3>2
  <2>6. w.queued + rest \in Int /\ w.committed + n \in Int /\ 0 \in Int
        /\ 0 \in 0..MaxChunk
    BY <2>2, <2>4, CaptureAssumption DEF CaptureAssumption
  <2>7. rest + n = w.inflight BY <2>1, <2>2
  <2> HIDE DEF rest, left
  <2>8. x \in Writer BY Zenon, <1>1, <2>5, <2>6 DEF Writer
  <2>9. /\ x.queue = left /\ x.queued = w.queued + rest /\ x.inflight = 0
        /\ x.accepted = w.accepted /\ x.committed = w.committed + n
        /\ x.dropped = w.dropped /\ x.uncertain = w.uncertain
    BY Zenon, <1>1 DEF Writer
  <2>10. /\ SameEnd(w, x) /\ x.closing = w.closing /\ x.opening = w.opening
         /\ ~ x.writing /\ ~ x.timer /\ x.reason = w.reason
    BY Zenon, <1>1 DEF Writer, SameEnd
  <2> HIDE DEF x
  <2>11. ~ x.settled BY Zenon, <1>3, <2>10 DEF SameEnd
  <2>12. /\ y \in Writer /\ SameBytes(x, y) /\ SameFile(x, y)
         /\ y.closing = x.closing /\ y.ending = x.ending /\ y.reason = x.reason
         /\ y.settled = x.settled /\ y.complete = x.complete
         /\ y.cleaned = x.cleaned /\ y.timer = x.timer
         /\ y.paused => Buffered(x) > Low
    BY Zenon, <2>8, <2>11, FlowFrame
  <2> HIDE DEF y
  <2>13. /\ ~ y.settled /\ ~ y.closing /\ ~ y.opening /\ ~ y.writing
         /\ ~ y.timer /\ ~ y.complete /\ ~ y.cleaned /\ y.reason = w.reason
    BY Zenon, <1>1, <1>3, <2>10, <2>12
       DEF IInv, Kept, Flags, SameFile, SameEnd
  <2>14. /\ y.queue = left /\ y.queued = w.queued + rest /\ y.inflight = 0
         /\ y.accepted = w.accepted /\ y.committed = w.committed + n
         /\ y.dropped = w.dropped /\ y.uncertain = w.uncertain
    BY Zenon, <2>9, <2>12 DEF SameBytes
  <2>15. y.accepted = y.committed + Buffered(y) + y.dropped
    BY <2>2, <2>3, <2>4, <2>7, <2>14 DEF Buffered
  <2>16. Buffered(y) <= Hard
    BY <2>2, <2>3, <2>4, <2>7, <2>14, CaptureAssumption
       DEF Buffered, CaptureAssumption
  <2>17. Bytes(y)
    BY Zenon, <2>3, <2>5, <2>6, <2>13, <2>14, <2>15, <2>16 DEF Bytes
  <2>18. Flags(y) BY Zenon, <2>13 DEF Flags
  <2>19. Lossless(y) BY Zenon, <2>13, <2>14 DEF IInv, Lossless
  <2>20. Unstuck(y) BY Zenon, <2>12, <2>13 DEF Unstuck, Buffered, SameBytes
  <2>21. Watched(y) BY Zenon, <2>13 DEF Watched, Busy
  <2> QED
    BY Zenon, <2>1, <2>12, <2>17, <2>18, <2>19, <2>20, <2>21 DEF IInv, Kept
<1> QED BY <1>2, <1>3

-----------------------------------------------------------------------------
\* Every step keeps the invariant.
LEMMA NextInv == IInv(w) /\ [Next]_w => IInv(w')
<1> SUFFICES ASSUME IInv(w), [Next]_w PROVE IInv(w') OBVIOUS
<1>1. CASE \E n \in 1..MaxChunk : AppendChunk(n) \/ Wrote(n)
  BY Zenon, <1>1, AppendInv, WroteInv
<1>2. CASE Finish \/ Truncate BY Zenon, <1>2, EndInv
<1>3. CASE Abort \/ Stall BY Zenon, <1>3, AbortInv
<1>4. CASE Opened BY Zenon, <1>4, OpenedInv
<1>5. CASE OpenFailed BY Zenon, <1>5, OpenFailedInv
<1>6. CASE Pump BY Zenon, <1>6, PumpInv
<1>7. CASE WriteFailed BY Zenon, <1>7, WriteFailedInv
<1>8. CASE \E failed \in BOOLEAN : CloseDone(failed)
  BY Zenon, <1>8, CloseDoneInv
<1>9. CASE w' = w BY Zenon, <1>9
<1> QED
  BY Zenon, <1>1, <1>2, <1>3, <1>4, <1>5, <1>6, <1>7, <1>8, <1>9 DEF Next

\* The inductive invariant of the writer.
WInv == IInv(w)

\* The writer keeps its inductive invariant.
THEOREM WriterInvariant == Spec => []WInv
<1>1. Init => WInv BY InitInv DEF WInv
<1>2. WInv /\ [Next]_w => WInv' BY NextInv DEF WInv
<1> QED BY <1>1, <1>2, PTL DEF Spec

\* The writer is well typed.
THEOREM TypeCorrect == Spec => []TypeOK
<1>1. WInv => TypeOK BY Zenon DEF WInv, IInv, Kept, TypeOK
<1> QED BY <1>1, WriterInvariant, PTL

\* No byte is lost from the books, for every length of the chunks, every
\* watermark and every partial write.
THEOREM BytesAccounted == Spec => []Accounting
<1>1. WInv => Accounting BY Zenon DEF WInv, IInv, Kept, Bytes, Accounting
<1> QED BY <1>1, WriterInvariant, PTL

\* What the writer buffers stays within the hard limit.
THEOREM BufferBounded == Spec => []BoundedBuffer
<1>1. WInv => BoundedBuffer BY Zenon DEF WInv, IInv, Kept, Bytes, BoundedBuffer
<1> QED BY <1>1, WriterInvariant, PTL

\* The streams of the task are never left paused.
THEOREM StreamsResume == Spec => []NeverStuck
<1>1. WInv => NeverStuck BY Zenon DEF WInv, IInv, Unstuck, NeverStuck
<1> QED BY <1>1, WriterInvariant, PTL

\* A result that says complete is about a closed file with every byte in it.
THEOREM CompleteMeansWhole == Spec => []CompleteIsWhole
<1>1. WInv => CompleteIsWhole
  <2> SUFFICES ASSUME WInv, w.complete PROVE CompleteIsWhole
    BY Zenon DEF CompleteIsWhole
  <2> QED BY Zenon DEF WInv, IInv, Kept, Bytes, Flags, CompleteIsWhole
<1> QED BY <1>1, WriterInvariant, PTL

\* The stall timer is armed exactly while an operation is in flight.
THEOREM OperationsWatched == Spec => []IoIsWatched
<1>1. WInv => IoIsWatched BY Zenon DEF WInv, IInv, Watched, IoIsWatched
<1> QED BY <1>1, WriterInvariant, PTL

\* After cleanup() has resolved nothing touches the file.
THEOREM CleanupLast == Spec => []CleanupIsLast
<1>1. WInv => CleanupIsLast BY Zenon DEF WInv, IInv, Kept, Flags, CleanupIsLast
<1> QED BY <1>1, WriterInvariant, PTL

\* The writer is sound: types, books, limits, flow, timer and cleanup at once.
THEOREM WriterSound == Spec => []WriterInv
<1> QED
  BY TypeCorrect, BytesAccounted, BufferBounded, StreamsResume,
     CompleteMeansWhole, OperationsWatched, CleanupLast, PTL DEF WriterInv

\* The fields of a result.
SameResult(x, y) ==
  /\ y.accepted = x.accepted /\ y.committed = x.committed
  /\ y.dropped = x.dropped /\ y.complete = x.complete

\* No step changes the result of a settled writer.
LEMMA LateSteps ==
  ASSUME IInv(w), Next, w.settled PROVE SameResult(w, w')
<1>1. w \in Writer BY Zenon DEF IInv, Kept
<1>2. \A x \in Writer : SameResult(x, Close(x))
  BY Zenon, CloseFrame DEF SameResult, SameBytes, SameEnd
<1>3. \A x \in Writer : SameResult(x, FinishCleanup(x))
  BY Zenon, CleanupFrame DEF SameResult, SameBytes
<1>4. ~ Finish /\ ~ Truncate /\ ~ (\E n \in 1..MaxChunk : AppendChunk(n))
  BY Zenon DEF Finish, Truncate, AppendChunk
<1>5. CASE \E n \in 1..MaxChunk : Wrote(n)
  <2> DEFINE x == [w EXCEPT !.writing = FALSE]
  <2>1. x \in Writer /\ SameResult(w, x) BY Zenon, <1>1 DEF Writer, SameResult
  <2>2. w' = Close(x) BY Zenon, <1>5 DEF Wrote
  <2> QED BY Zenon, <1>2, <2>1, <2>2 DEF SameResult
<1>6. CASE WriteFailed
  <2> DEFINE x == [w EXCEPT !.writing = FALSE]
  <2>1. x \in Writer /\ SameResult(w, x) BY Zenon, <1>1 DEF Writer, SameResult
  <2>2. w' = Close(x) BY Zenon, <1>6 DEF WriteFailed
  <2> QED BY Zenon, <1>2, <2>1, <2>2 DEF SameResult
<1>7. CASE Abort BY Zenon, <1>7 DEF Abort, Aborted, SameResult
<1>8. CASE Stall
  <2> DEFINE x == [w EXCEPT !.timer = FALSE]
  <2>1. SameResult(w, x) /\ x.settled BY Zenon, <1>1 DEF Writer, SameResult
  <2>2. w' = x BY Zenon, <1>8, <2>1 DEF Stall, Aborted
  <2> QED BY Zenon, <2>1, <2>2
<1>9. CASE Opened
  <2> DEFINE x == [w EXCEPT !.opening = FALSE, !.handle = TRUE]
  <2>1. x \in Writer /\ SameResult(w, x) BY Zenon, <1>1 DEF Writer, SameResult
  <2>2. w' = Close(x) BY Zenon, <1>9 DEF Opened
  <2> QED BY Zenon, <1>2, <2>1, <2>2 DEF SameResult
<1>10. CASE OpenFailed
  <2> DEFINE x == [w EXCEPT !.opening = FALSE]
  <2>1. x \in Writer /\ SameResult(w, x) BY Zenon, <1>1 DEF Writer, SameResult
  <2>2. w' = FinishCleanup(x) BY Zenon, <1>10 DEF OpenFailed
  <2> QED BY Zenon, <1>3, <2>1, <2>2 DEF SameResult
<1>11. CASE Pump
  <2> DEFINE x == [w EXCEPT !.scheduled = FALSE]
  <2>1. SameResult(w, x) BY Zenon, <1>1 DEF Writer, SameResult
  <2>2. w' = x BY Zenon, <1>11 DEF Pump
  <2> QED BY Zenon, <2>1, <2>2
<1>12. CASE \E failed \in BOOLEAN : CloseDone(failed)
  <2>1. PICK failed \in BOOLEAN : CloseDone(failed) BY <1>12
  <2> DEFINE x == [w EXCEPT !.closing = FALSE, !.closed = TRUE,
                            !.reason = @ \/ failed]
  <2>2. (w.reason \/ failed) \in BOOLEAN OBVIOUS
  <2>3. x \in Writer /\ SameResult(w, x) /\ x.settled
    BY Zenon, <1>1, <2>2 DEF Writer, SameResult
  <2>4. w' = FinishCleanup(x) BY Zenon, <2>1, <2>3 DEF CloseDone, Settle
  <2> QED BY Zenon, <1>3, <2>3, <2>4 DEF SameResult
<1> QED
  BY Zenon, <1>4, <1>5, <1>6, <1>7, <1>8, <1>9, <1>10, <1>11, <1>12 DEF Next

\* A settled result never changes, whatever returns late.
THEOREM ResultFinal == Spec => ResultIsFinal
<1>1. WInv /\ [Next]_w =>
        [w.settled => /\ w'.accepted = w.accepted /\ w'.committed = w.committed
                      /\ w'.dropped = w.dropped /\ w'.complete = w.complete]_w
  BY Zenon, LateSteps DEF WInv, SameResult
<1> QED BY <1>1, WriterInvariant, PTL DEF Spec, ResultIsFinal
=============================================================================
