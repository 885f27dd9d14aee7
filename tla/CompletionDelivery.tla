------------------------ MODULE CompletionDelivery ------------------------
(***************************************************************************)
(* CompletionDelivery of the Pi extension: it holds the follow-ups of      *)
(* finished background tasks while Pi compacts its session or is busy, and *)
(* submits them in bounded batches, in the order of arrival, each at most  *)
(* once.  Three timers drive it: the batch window, the flush poll and the  *)
(* hold watch.  Pi is modelled from the hooks the extension registers: a   *)
(* run starts and settles, a manual compaction sets Pi's guard, calls the  *)
(* two hooks in turn and clears the guard; a hook may be lost, because the *)
(* handler of another extension failed.  What is told to the user only     *)
(* (warnings, the report of submitted ids) is left out.                    *)
(***************************************************************************)
EXTENDS Integers, Sequences, FiniteSets

CONSTANTS
  N,       \* bound on the follow-ups submitted; the i-th one is i
  MaxTasks \* batchMaxTasks

ASSUME DeliveryAssumption == N \in Nat /\ MaxTasks \in Nat \ {0}

VARIABLES
  count,         \* follow-ups that submit was called for
  held, holding, closed, runActive, checkStranded,
  submitted,     \* some were submitted since the last report
  timers,        \* the timers that are armed
  attached,      \* the context can be asked whether Pi is idle
  compaction,    \* "no", or Pi's guard is set; "guard" is any busy Pi
  out,           \* follow-ups handed to Pi, whether it took them or threw
  freed          \* how often the runner was told to release each

pi == <<runActive, attached, compaction>>
deliveryVars == <<count, held, holding, closed, checkStranded, submitted, timers, pi,
          out, freed>>

DeliveryTypeOK ==
  /\ count \in 0..N
  /\ held \in Seq(1..N) /\ out \in Seq(1..N) /\ Len(out) <= N
  /\ holding \in BOOLEAN /\ closed \in BOOLEAN /\ runActive \in BOOLEAN
  /\ checkStranded \in BOOLEAN /\ submitted \in BOOLEAN
  /\ timers \subseteq {"batch", "flush", "watch"}
  /\ attached \in BOOLEAN
  /\ compaction \in {"no", "guard", "hooked", "ended"}
  /\ freed \in [1..N -> Nat]

DeliveryInit ==
  /\ count = 0 /\ held = <<>> /\ out = <<>> /\ freed = [i \in 1..N |-> 0]
  /\ holding = FALSE /\ closed = FALSE /\ runActive = FALSE
  /\ checkStranded = FALSE /\ submitted = FALSE /\ timers = {}
  /\ attached = FALSE /\ compaction = "no"

-----------------------------------------------------------------------------
\* ctx.isIdle(), when there is a context that answers.
IdleIs(b) == attached /\ b = (~ runActive /\ compaction = "no")

Ready == IdleIs(TRUE) \/ runActive

\* scheduleFlush, on the timers T.
WithFlush(T) == IF closed \/ "batch" \in T THEN T ELSE T \cup {"flush"}

Free(ids) == freed' = [i \in 1..N |-> freed[i] + IF i \in ids THEN 1 ELSE 0]

InSeq(s) == {s[i] : i \in 1..Len(s)}

-----------------------------------------------------------------------------
\* submit: the first one held opens the batch window; one that arrives while
\* Pi compacts, or is busy without a known run, is watched.
Submit ==
  /\ count < N /\ count' = count + 1
  /\ IF closed
     THEN Free({count'}) /\ UNCHANGED <<held, timers>>
     ELSE /\ held' = Append(held, count')
          /\ LET watch == IF holding \/ (~ runActive /\ IdleIs(FALSE))
                          THEN {"watch"} ELSE {}
             IN timers' = IF held = <<>> THEN {"batch"} \cup watch
                                              \cup (timers \ {"flush"})
                          ELSE timers \cup watch
          /\ UNCHANGED freed
  /\ UNCHANGED <<holding, closed, checkStranded, submitted, pi, out>>

\* The hooks session_start, agent_start and agent_settled.
Attach ==
  /\ ~ attached /\ attached' = TRUE
  /\ UNCHANGED <<count, held, holding, closed, checkStranded, submitted,
                 timers, runActive, compaction, out, freed>>

AgentStarted ==
  /\ ~ runActive /\ runActive' = TRUE /\ checkStranded' = FALSE
  /\ UNCHANGED <<count, held, holding, closed, submitted, timers, attached,
                 compaction, out, freed>>

AgentSettled ==
  /\ runActive /\ runActive' = FALSE
  /\ UNCHANGED <<count, held, holding, closed, checkStranded, submitted,
                 timers, attached, compaction, out, freed>>

\* The context of an old session no longer answers.
GoStale ==
  /\ attached /\ attached' = FALSE
  /\ UNCHANGED <<count, held, holding, closed, checkStranded, submitted,
                 timers, runActive, compaction, out, freed>>

\* Pi sets its guard, before any hook, and clears it, after the hooks or
\* without them.
Guard ==
  /\ compaction' = IF compaction = "no" THEN "guard" ELSE "no"
  /\ UNCHANGED <<count, held, holding, closed, checkStranded, submitted,
                 timers, runActive, attached, out, freed>>

\* session_before_compact: begin.
Begin ==
  /\ compaction = "guard" /\ compaction' = "hooked"
  /\ IF closed THEN UNCHANGED <<holding, checkStranded, timers, attached>>
     ELSE /\ attached' = TRUE /\ holding' = TRUE /\ checkStranded' = FALSE
          /\ timers' = (timers \ {"flush"})
                         \cup IF held = <<>> THEN {} ELSE {"watch"}
  /\ UNCHANGED <<count, held, closed, submitted, runActive, out, freed>>

\* session_compact or session_compact_failed: end.
End ==
  /\ compaction = "hooked" /\ compaction' = "ended"
  /\ IF closed \/ ~ holding
     THEN UNCHANGED <<holding, checkStranded, timers, attached>>
     ELSE /\ attached' = TRUE /\ holding' = FALSE /\ checkStranded' = TRUE
          /\ timers' = WithFlush(timers)
  /\ UNCHANGED <<count, held, closed, submitted, runActive, out, freed>>

\* Mutant: a batch that Pi refused stays at the head of the queue.
SendBatchAgain(T) ==
  \E k \in 1..MaxTasks, ok \in BOOLEAN :
    /\ k <= Len(held)
    /\ out' = out \o SubSeq(held, 1, k)
    /\ held' = IF ok THEN SubSeq(held, k + 1, Len(held)) ELSE held
    /\ Free(InSeq(SubSeq(held, 1, k)))
    /\ checkStranded' = FALSE
    /\ submitted' = (submitted \/ ok)
    /\ timers' = WithFlush(IF held' = <<>> THEN T \ {"watch"} ELSE T)

\* The body of flush once Pi can take a batch: up to MaxTasks entries, fewer
\* when their text is long, are handed to Pi, which may throw.
SendBatch(T) ==
  \E k \in 1..MaxTasks, ok \in BOOLEAN :
    /\ k <= Len(held)
    /\ out' = out \o SubSeq(held, 1, k)
    /\ held' = SubSeq(held, k + 1, Len(held))
    /\ Free(InSeq(SubSeq(held, 1, k)))
    /\ checkStranded' = FALSE
    /\ submitted' = (submitted \/ ok)
    /\ timers' = WithFlush(IF held' = <<>> THEN T \ {"watch"} ELSE T)

\* finishDrain.
FinishDrain(T) ==
  /\ checkStranded' = FALSE /\ submitted' = FALSE /\ timers' = T
  /\ UNCHANGED <<held, out, freed>>

\* flush, with the timers that are left once its own has fired.
Flush(T) ==
  LET blocked == closed \/ holding \/ "batch" \in T
                   \/ (held = <<>> /\ ~ submitted /\ ~ checkStranded)
      wait(S) == timers' = S
                   /\ UNCHANGED <<held, out, freed, checkStranded, submitted>>
  IN \/ blocked /\ wait(T)
     \/ ~ blocked /\ ~ Ready /\ wait(WithFlush(T))
     \/ ~ blocked /\ Ready /\ held = <<>> /\ FinishDrain(T)
     \/ ~ blocked /\ Ready /\ held # <<>> /\ SendBatch(T)

BatchTimer ==
  /\ "batch" \in timers /\ Flush(timers \ {"batch", "flush"})
  /\ UNCHANGED <<count, holding, closed, pi>>

FlushTimer ==
  /\ "flush" \in timers /\ Flush(timers \ {"flush"})
  /\ UNCHANGED <<count, holding, closed, pi>>

\* Mutant: the watch does not end a hold.
WatchWaits ==
  /\ "watch" \in timers
  /\ IF closed \/ held = <<>>
     THEN timers' = timers \ {"watch"} /\ UNCHANGED <<holding, checkStranded>>
     ELSE IF FALSE
          THEN /\ holding' = FALSE /\ checkStranded' = TRUE
               /\ timers' = WithFlush(timers)
          ELSE UNCHANGED <<holding, checkStranded, timers>>
  /\ UNCHANGED <<count, held, closed, submitted, pi, out, freed>>

\* Mutant: the watch ends a hold without asking whether Pi is idle.
WatchEnds ==
  /\ "watch" \in timers
  /\ IF closed \/ held = <<>>
     THEN timers' = timers \ {"watch"} /\ UNCHANGED <<holding, checkStranded>>
     ELSE IF holding
          THEN /\ holding' = FALSE /\ checkStranded' = TRUE
               /\ timers' = WithFlush(timers)
          ELSE UNCHANGED <<holding, checkStranded, timers>>
  /\ UNCHANGED <<count, held, closed, submitted, pi, out, freed>>

\* watch: an idle Pi that this object still holds back for has lost the hook.
WatchTimer ==
  /\ "watch" \in timers
  /\ IF closed \/ held = <<>>
     THEN timers' = timers \ {"watch"} /\ UNCHANGED <<holding, checkStranded>>
     ELSE IF holding /\ IdleIs(TRUE)
          THEN /\ holding' = FALSE /\ checkStranded' = TRUE
               /\ timers' = WithFlush(timers)
          ELSE UNCHANGED <<holding, checkStranded, timers>>
  /\ UNCHANGED <<count, held, closed, submitted, pi, out, freed>>

\* session_shutdown: shutdown drops what is held.
ShutdownDelivery ==
  /\ ~ closed /\ closed' = TRUE
  /\ timers' = {} /\ submitted' = FALSE
  /\ held' = <<>> /\ Free(InSeq(held))
  /\ UNCHANGED <<count, holding, checkStranded, pi, out>>

DeliveryNext ==
  \/ Submit \/ Attach \/ AgentStarted \/ AgentSettled \/ GoStale
  \/ Guard \/ Begin \/ End
  \/ BatchTimer \/ FlushTimer \/ WatchTimer \/ ShutdownDelivery

DeliverySpec == DeliveryInit /\ [][DeliveryNext]_deliveryVars

\* A timer that stays armed fires.
DeliveryFairSpec ==
  /\ DeliverySpec
  /\ WF_deliveryVars(BatchTimer) /\ WF_deliveryVars(FlushTimer)
  /\ WF_deliveryVars(WatchTimer)

-----------------------------------------------------------------------------
(* Properties *)

\* Follow-ups reach Pi in the order of their arrival, none of them twice, and
\* none is lost before the shutdown, however timers, hooks and refused sends
\* fall.
InOrder ==
  LET all == out \o held
  IN /\ \A i \in 1..Len(all) : all[i] = i
     /\ ~ closed => Len(all) = count

\* A finished task is pinned in the runner exactly as long as its follow-up
\* is held: it is released once, by the send, a refused send or the shutdown.
ReleasedOnce ==
  \A i \in 1..N :
    freed[i] = IF i <= count /\ i \notin InSeq(held) THEN 1 ELSE 0

\* While a follow-up is held some timer is armed that will look at it again.
\* Under a hold only the watch counts, because flush returns without a timer;
\* otherwise it is the batch window or the flush poll and never both: flush
\* forgets its timer's handle, and two would drain behind each other's back.
SomeTimerLooks ==
  held # <<>> =>
    IF holding THEN "watch" \in timers
    ELSE Cardinality(timers \cap {"batch", "flush"}) = 1

\* All of them, and the types.
DeliveryInv == DeliveryTypeOK /\ InOrder /\ ReleasedOnce /\ SomeTimerLooks

\* No follow-up is handed to Pi in a compaction this extension was told of,
\* not even during a run, nor in any other busy phase without a known run.
HeldWhileCompacting ==
  [][out' # out => \/ compaction = "no"
                   \/ runActive /\ compaction # "hooked"]_deliveryVars

\* Once Pi stays idle and its context answers, everything held is sent or
\* dropped by the shutdown, even when the hook that ends the hold was lost.
SentInTheEnd ==
  <>[](attached /\ ~ runActive /\ compaction = "no") => <>[](held = <<>>)

=============================================================================
