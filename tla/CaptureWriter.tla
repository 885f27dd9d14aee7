--------------------------- MODULE CaptureWriter ---------------------------
(***************************************************************************)
(* CaptureWriter of the Pi background tasks: it copies a task's output to  *)
(* a private file with one I/O operation at a time, tells the task's       *)
(* streams to pause when too much is buffered, and settles once, whatever  *)
(* its file system does.  The object is one record; its private methods    *)
(* are operators that map the object to the next, so that a method that    *)
(* calls others composes them in the order of the code.  A chunk is its    *)
(* length in bytes.  The caller (BackgroundTaskRunner) may append, finish, *)
(* truncate or abort at any time; an I/O operation returns late or never.  *)
(***************************************************************************)
EXTENDS Integers, Sequences

CONSTANTS
  Low, High, Hard,  \* watermarks, in bytes
  MaxChunk,         \* bound on the length of a chunk
  Budget            \* bound on the bytes a producer appends

ASSUME CaptureAssumption ==
  /\ Low \in Nat /\ High \in Nat /\ Hard \in Nat
  /\ Low < High /\ High <= Hard
  /\ MaxChunk \in Nat /\ Budget \in Nat

VARIABLE w  \* the writer

Writer ==
  [queue : Seq(1..MaxChunk),   \* chunks not yet given to the file
   queued : Int, inflight : Int, accepted : Int,
   committed : Int, dropped : Int, uncertain : Int,
   handle : BOOLEAN,           \* the file is open or was opened
   opening : BOOLEAN, writing : BOOLEAN, closing : BOOLEAN,
   closed : BOOLEAN,           \* the close of the handle has returned
   ending : BOOLEAN,           \* no more input is taken
   settled : BOOLEAN,          \* the result is out
   paused : BOOLEAN,           \* the task's streams were told to pause
   scheduled : BOOLEAN,        \* a pump is on the microtask queue
   reason : BOOLEAN,           \* a reason why the capture is incomplete
   timer : BOOLEAN,            \* the stall timer is armed
   cleaned : BOOLEAN,          \* cleanup() has resolved
   complete : BOOLEAN]         \* the "complete" of the settled result

TypeOK == w \in Writer

\* The constructor arms the stall timer and starts to open the file.
Init ==
  w = [queue |-> <<>>, queued |-> 0, inflight |-> 0, accepted |-> 0,
       committed |-> 0, dropped |-> 0, uncertain |-> 0, handle |-> FALSE,
       opening |-> TRUE, writing |-> FALSE, closing |-> FALSE,
       closed |-> FALSE, ending |-> FALSE, settled |-> FALSE,
       paused |-> FALSE, scheduled |-> FALSE, reason |-> FALSE,
       timer |-> TRUE, cleaned |-> FALSE, complete |-> FALSE]

-----------------------------------------------------------------------------
Busy(x) == x.opening \/ x.writing \/ x.closing
Buffered(x) == x.queued + x.inflight

Resume(x) == [x EXCEPT !.paused = FALSE]

Flow(x) ==
  [x EXCEPT !.paused = IF @ THEN Buffered(x) > Low ELSE Buffered(x) >= High]

PumpSoon(x) == [x EXCEPT !.scheduled = @ \/ ~ x.settled]

DropQueued(x) ==
  [x EXCEPT !.dropped = @ + x.queued, !.queue = <<>>, !.queued = 0]

\* Mutant of LoseInflight: the bytes of a failed write are not accounted for.
ForgetInflight(x) == [x EXCEPT !.inflight = 0]

LoseInflight(x) ==
  [x EXCEPT !.dropped = @ + x.inflight, !.uncertain = @ + x.inflight,
            !.inflight = 0]

Settle(x) ==
  IF x.settled THEN x
  ELSE [x EXCEPT !.settled = TRUE, !.timer = FALSE,
                 !.complete = ~ x.reason /\ x.closed]

\* Mutant of Close: the close is not watched by the stall timer.
CloseUnwatched(x) ==
  IF Busy(x) \/ x.closed \/ ~ x.handle THEN x ELSE [x EXCEPT !.closing = TRUE]

\* At most one close; it waits until no other operation is in flight.
Close(x) ==
  IF Busy(x) \/ x.closed \/ ~ x.handle THEN x
  ELSE [x EXCEPT !.closing = TRUE, !.timer = @ \/ ~ x.settled]

Fail(x) == Close([Resume(DropQueued(x)) EXCEPT !.reason = TRUE, !.ending = TRUE])

\* cleanup() resolves when nothing is in flight and the handle is closed.
FinishCleanup(x) ==
  IF ~ x.settled \/ Busy(x) \/ (x.handle /\ ~ x.closed) THEN x
  ELSE [x EXCEPT !.cleaned = TRUE]

\* abort: settles at once; the operation in flight keeps its ownership of
\* the handle until it returns.
Aborted(x) ==
  IF x.settled THEN x
  ELSE Close(Settle(Resume(LoseInflight(DropQueued([x EXCEPT !.reason = TRUE])))))

-----------------------------------------------------------------------------
\* append: refused (the caller keeps only its bounded tail) once the capture
\* is ending; an overflow of the hard limit fails the capture.
AppendChunk(n) ==
  /\ ~ w.ending /\ ~ w.settled
  /\ w.accepted + n <= Budget
  /\ w' = IF w.reason \/ Buffered(w) + n > Hard
          THEN Fail([w EXCEPT !.accepted = @ + n, !.dropped = @ + n])
          ELSE PumpSoon(Flow([w EXCEPT !.accepted = @ + n, !.queued = @ + n,
                                       !.queue = Append(@, n)]))

\* The output of the task has ended: flush what was accepted, then close.
Finish ==
  /\ ~ w.settled
  /\ w' = PumpSoon([w EXCEPT !.ending = TRUE])

\* It was cut off by the drain timer: flush, but never claim completeness.
Truncate ==
  /\ ~ w.settled
  /\ w' = PumpSoon([w EXCEPT !.reason = TRUE, !.ending = TRUE])

\* The finalize timer of the task, or its release at shutdown, where the
\* streams are resumed and detached first.
Abort == w' = Aborted(w)

\* The stall timer.
Stall ==
  /\ w.timer
  /\ w' = Aborted([w EXCEPT !.timer = FALSE])

Opened ==
  /\ w.opening
  /\ LET x == [w EXCEPT !.opening = FALSE, !.handle = TRUE] IN
     w' = IF w.settled THEN Close(x) ELSE PumpSoon([x EXCEPT !.timer = FALSE])

OpenFailed ==
  /\ w.opening
  /\ LET x == [w EXCEPT !.opening = FALSE] IN
     w' = FinishCleanup(IF w.settled THEN x ELSE Settle(Fail(x)))

\* The microtask: start the next write, or close after the last one.
Pump ==
  /\ w.scheduled
  /\ LET x == [w EXCEPT !.scheduled = FALSE] IN
     w' = IF w.settled \/ Busy(w) THEN x
          ELSE IF w.queue = <<>> THEN IF w.ending THEN Close(x) ELSE x
          ELSE [x EXCEPT !.queue = Tail(@), !.queued = @ - Head(w.queue),
                         !.inflight = Head(w.queue), !.writing = TRUE,
                         !.timer = TRUE]

\* Mutant of Wrote: a write that returns after the abort is counted.
WroteLate(n) ==
  /\ w.writing
  /\ LET rest == w.inflight - n
         x == [w EXCEPT !.writing = FALSE]
     IN
     IF w.settled THEN w' = Close([x EXCEPT !.committed = @ + n])
     ELSE /\ n \in 1..w.inflight
          /\ w' = PumpSoon(Flow(
               [x EXCEPT !.timer = FALSE, !.inflight = 0, !.committed = @ + n,
                         !.queued = @ + rest,
                         !.queue = IF rest = 0 THEN @ ELSE <<rest>> \o @]))

\* The file took the first n bytes of the chunk; the rest goes back in front.
Wrote(n) ==
  /\ w.writing
  /\ LET rest == w.inflight - n
         x == [w EXCEPT !.writing = FALSE]
     IN
     IF w.settled THEN w' = Close(x)
     ELSE /\ n \in 1..w.inflight
          /\ w' = PumpSoon(Flow(
               [x EXCEPT !.timer = FALSE, !.inflight = 0, !.committed = @ + n,
                         !.queued = @ + rest,
                         !.queue = IF rest = 0 THEN @ ELSE <<rest>> \o @]))

\* The write failed or claimed an impossible count.
WriteFailed ==
  /\ w.writing
  /\ LET x == [w EXCEPT !.writing = FALSE] IN
     w' = IF w.settled THEN Close(x)
          ELSE Fail(LoseInflight([x EXCEPT !.timer = FALSE]))

CloseDone(failed) ==
  /\ w.closing
  /\ w' = FinishCleanup(Settle(
       [w EXCEPT !.closing = FALSE, !.closed = TRUE, !.reason = @ \/ failed]))

Next ==
  \/ \E n \in 1..MaxChunk : AppendChunk(n) \/ Wrote(n)
  \/ Finish \/ Truncate \/ Abort \/ Stall
  \/ Opened \/ OpenFailed \/ Pump \/ WriteFailed
  \/ \E failed \in BOOLEAN : CloseDone(failed)

Spec == Init /\ [][Next]_w

\* Microtasks run and timers fire; an I/O operation need not ever return.
FairSpec == Spec /\ WF_w(Pump) /\ WF_w(Stall)

-----------------------------------------------------------------------------
\* Every byte the writer accepted is committed, buffered or dropped, and a
\* byte dropped with unknown fate is a dropped one, through partial writes,
\* failures and late returns.
Accounting ==
  /\ w.accepted = w.committed + Buffered(w) + w.dropped
  /\ 0 <= w.uncertain /\ w.uncertain <= w.dropped

\* The producer cannot make the writer buffer more than the hard limit.
BoundedBuffer == Buffered(w) <= Hard

\* The streams of the task are never left paused: not by a capture that has
\* settled, however it did, and not by one that has little left to write.
NeverStuck == w.paused => ~ w.settled /\ Buffered(w) > Low

\* A result that says complete is about a closed file with every byte in it.
CompleteIsWhole ==
  w.complete => /\ w.closed /\ w.committed = w.accepted
                /\ w.queue = <<>> /\ w.inflight = 0

\* Until the writer settles, the stall timer is armed exactly while an I/O
\* operation is in flight: no operation goes unwatched, and no timer that
\* was left armed aborts a capture whose operation returned.
IoIsWatched == ~ w.settled => (w.timer <=> Busy(w))

\* When cleanup() has resolved, the task's file may be removed: no operation
\* is in flight, or starts later.
CleanupIsLast == w.cleaned => ~ Busy(w) /\ (w.handle => w.closed)

\* All of them, at once: what CaptureProofs proves for every size.
WriterInv ==
  /\ TypeOK /\ Accounting /\ BoundedBuffer /\ NeverStuck
  /\ CompleteIsWhole /\ IoIsWatched /\ CleanupIsLast

\* The settled result is final.
ResultIsFinal ==
  [][w.settled => /\ w'.accepted = w.accepted /\ w'.committed = w.committed
                  /\ w'.dropped = w.dropped /\ w'.complete = w.complete]_w

\* A writer that was told to end settles, whatever the file system does, and
\* a settled writer gives the file back, unless an operation never returns.
Ends ==
  /\ w.ending ~> w.settled
  /\ ([]<> ~ Busy(w)) => (w.settled ~> w.cleaned)
=============================================================================
