-------------------------- MODULE BackgroundTasks --------------------------
(***************************************************************************)
(* BackgroundTaskRunner of the Pi extension: it starts shell commands in   *)
(* process groups of their own, settles each task once, cancels with       *)
(* SIGTERM and SIGKILL under bounded waits, sends one follow-up for a      *)
(* natural end and keeps the newest finished tasks.  Node runs one handler *)
(* at a time; the interleaving is between handlers, timers, events of the  *)
(* child and the processes of its group.  The methods of the runner are    *)
(* operators on the table of tasks, so that one that calls others composes *)
(* them in the order of the code.  The capture file and the delivery of    *)
(* follow-ups are here only as far as the runner sees them: CaptureWriter  *)
(* and CompletionDelivery model what is behind.  Status "ended" is the     *)
(* natural end, "completed" or "failed" as the exit code says.             *)
(***************************************************************************)
EXTENDS Integers, FiniteSets

CONSTANTS
  Tasks,     \* the tasks that may be started
  Captured,  \* those whose caller wants a capture file
  Limit      \* finishedRetentionLimit

ASSUME RunnerAssumption ==
  IsFiniteSet(Tasks) /\ Captured \subseteq Tasks /\ Limit \in Nat \ {0}

VARIABLES
  task,   \* the BackgroundTask object of each task
  down    \* how far the shutdown is; shuttingDown is down # "no"

runnerVars == <<task, down>>

Task ==
  [status : {"none", "running", "cancelled", "ended"},
   phase : {"live", "cancelling", "unconfirmed"},
   attempt : {"none", "term", "kill"},    \* which wait of attempt() is on
   leader : {"alive", "absent", "dead"},  \* the shell; absent: spawn failed
   members : BOOLEAN,                     \* the group, without its leader
   leaderGone : BOOLEAN, outputDone : BOOLEAN,
   drainTimer : BOOLEAN, watch : BOOLEAN,
   capture : {"off", "open", "settled"},  \* captureWriter, captureResult
   notified : BOOLEAN, deliveryHeld : BOOLEAN, released : BOOLEAN,
   finishSeq : 0..Cardinality(Tasks),
   kept : BOOLEAN,                        \* in the map of tasks
   awaited : BOOLEAN,                     \* shutdown waits for the attempt
   answers : SUBSET {"cancelled", "already-ended"}] \* to callers of cancel

RunnerTypeOK ==
  /\ task \in [Tasks -> Task]
  /\ down \in {"no", "stopping", "released", "cleared"}

RunnerInit ==
  /\ task = [t \in Tasks |->
       [status |-> "none", phase |-> "live", attempt |-> "none",
        leader |-> "absent", members |-> FALSE,
        leaderGone |-> FALSE, outputDone |-> FALSE, drainTimer |-> FALSE,
        watch |-> FALSE, capture |-> "off", notified |-> FALSE,
        deliveryHeld |-> FALSE, released |-> FALSE, finishSeq |-> 0,
        kept |-> FALSE, awaited |-> FALSE, answers |-> {}]]
  /\ down = "no"

-----------------------------------------------------------------------------
\* The methods.  T is the table; quiet is shuttingDown.
Finished(T) ==
  {t \in Tasks : T[t].kept /\ T[t].status \in {"cancelled", "ended"}}

\* The finished tasks beyond the retention limit, oldest first.
Excess(T) ==
  {t \in Finished(T) :
     Cardinality({u \in Finished(T) : T[u].finishSeq <= T[t].finishSeq})
       <= Cardinality(Finished(T)) - Limit}

\* A capture result is out, or there is no capture.
CaptureDone(x) == x.capture # "open"

Evictable(x) == x.outputDone /\ ~ x.deliveryHeld /\ CaptureDone(x)

\* Mutant of EvictFinished: a held follow-up does not keep its task.
EvictHeld(T, quiet) ==
  [t \in Tasks |->
     IF ~ quiet /\ t \in Excess(T) /\ T[t].outputDone
     THEN [T[t] EXCEPT !.kept = FALSE] ELSE T[t]]

EvictFinished(T, quiet) ==
  [t \in Tasks |->
     IF ~ quiet /\ t \in Excess(T) /\ Evictable(T[t])
     THEN [T[t] EXCEPT !.kept = FALSE] ELSE T[t]]

\* Mutant of NotifyFinished: the follow-up does not wait for the capture.
NotifyEarly(T, t, quiet) ==
  IF T[t].notified \/ ~ T[t].outputDone \/ quiet \/ T[t].status # "ended"
  THEN T
  ELSE [T EXCEPT ![t].notified = TRUE, ![t].deliveryHeld = TRUE]

\* The listener of "finished" holds the task until its follow-up is sent.
NotifyFinished(T, t, quiet) ==
  IF \/ T[t].notified \/ ~ T[t].outputDone \/ ~ CaptureDone(T[t]) \/ quiet
     \/ T[t].status # "ended"
  THEN T
  ELSE [T EXCEPT ![t].notified = TRUE, ![t].deliveryHeld = TRUE]

SettleTask(T, t, status, quiet) ==
  IF T[t].status # "running" THEN T
  ELSE LET seq == Cardinality({u \in Tasks : T[u].finishSeq > 0}) + 1
           U == [T EXCEPT ![t] = [@ EXCEPT !.status = status, !.finishSeq = seq,
                                           !.watch = FALSE]]
       IN EvictFinished(NotifyFinished(U, t, quiet), quiet)

\* Mutant of CheckTermination: the reaped leader is enough.
CheckLeader(T, t, quiet) ==
  IF T[t].status # "running" \/ ~ T[t].leaderGone \/ T[t].phase = "live"
  THEN T
  ELSE SettleTask(T, t, IF T[t].phase = "cancelling" THEN "cancelled"
                    ELSE "ended", quiet)

CheckTermination(T, t, quiet) ==
  IF \/ T[t].status # "running" \/ ~ T[t].leaderGone \/ T[t].phase = "live"
     \/ T[t].members
  THEN T
  ELSE SettleTask(T, t, IF T[t].phase = "cancelling" THEN "cancelled"
                    ELSE "ended", quiet)

\* Mutant of LeaderGone: no bound on the wait for the output streams.
LeaderUndrained(T, t, quiet) ==
  IF T[t].leaderGone \/ T[t].released THEN T
  ELSE LET U == [T EXCEPT ![t].leaderGone = TRUE]
       IN IF T[t].phase = "live" THEN SettleTask(U, t, "ended", quiet)
          ELSE CheckTermination(U, t, quiet)

LeaderGone(T, t, quiet) ==
  IF T[t].leaderGone \/ T[t].released THEN T
  ELSE LET U == [T EXCEPT ![t].leaderGone = TRUE]
           V == IF T[t].phase = "live" THEN SettleTask(U, t, "ended", quiet)
                ELSE CheckTermination(U, t, quiet)
       IN [V EXCEPT ![t].drainTimer = @ \/ ~ V[t].outputDone]

FinishOutput(T, t, quiet) ==
  IF T[t].outputDone THEN T
  ELSE EvictFinished(
         NotifyFinished([T EXCEPT ![t].outputDone = TRUE, ![t].drainTimer = FALSE],
                        t, quiet), quiet)

Answer(T, t, a) == [T EXCEPT ![t].answers = @ \cup {a}]

\* Mutant of CancelTask: the watcher goes on under the attempt.
CancelWatched(T, t, quiet) ==
  IF T[t].status # "running" THEN Answer(T, t, "already-ended")
  ELSE IF T[t].attempt # "none" THEN T
  ELSE LET U == CheckTermination(T, t, quiet) IN
       IF U[t].status # "running" THEN Answer(U, t, "already-ended")
       ELSE [U EXCEPT ![t] = [@ EXCEPT !.phase = "cancelling",
                                       !.attempt = "term"]]

\* cancel: join the attempt in flight, or settle what ended on its own, or
\* start an attempt, which signals and waits.
CancelTask(T, t, quiet) ==
  IF T[t].status # "running" THEN Answer(T, t, "already-ended")
  ELSE IF T[t].attempt # "none" THEN T
  ELSE LET U == CheckTermination(T, t, quiet) IN
       IF U[t].status # "running" THEN Answer(U, t, "already-ended")
       ELSE [U EXCEPT ![t] = [@ EXCEPT !.watch = FALSE, !.phase = "cancelling",
                                       !.attempt = "term"]]

\* Mutant of ConcludeAttempt: an unconfirmed task is not watched again.
ConcludeUnwatched(T, t, quiet) ==
  LET U == CheckTermination([T EXCEPT ![t].attempt = "none",
                                      ![t].awaited = FALSE], t, quiet)
  IN IF U[t].status # "running" THEN Answer(U, t, "cancelled")
     ELSE [U EXCEPT ![t].phase = "unconfirmed"]

ConcludeAttempt(T, t, quiet) ==
  LET U == CheckTermination([T EXCEPT ![t].attempt = "none",
                                      ![t].awaited = FALSE], t, quiet)
  IN IF U[t].status # "running" THEN Answer(U, t, "cancelled")
     ELSE [U EXCEPT ![t].phase = "unconfirmed", ![t].watch = TRUE]

\* release: output is finalized, timers are cleared, later events ignored.
Release(x) ==
  IF ~ x.kept THEN x
  ELSE [x EXCEPT !.released = TRUE, !.watch = FALSE, !.drainTimer = FALSE,
                 !.outputDone = TRUE,
                 !.capture = IF @ = "off" THEN @ ELSE "settled"]

-----------------------------------------------------------------------------
Quiet == down # "no"

\* A process group is started; a spawn that fails says so in an event.
Start(t) ==
  /\ task[t].status = "none" /\ ~ Quiet
  /\ \E leader \in {"alive", "absent"} :
       task' = [task EXCEPT ![t] =
         [@ EXCEPT !.status = "running", !.kept = TRUE, !.leader = leader,
                   !.capture = IF t \in Captured THEN "open" ELSE "off"]]
  /\ UNCHANGED down

\* The shell exits on its own or by a signal; its children may live on.
LeaderDies(t) ==
  /\ task[t].leader = "alive"
  /\ \E members \in BOOLEAN :
       task' = [task EXCEPT ![t] = [@ EXCEPT !.leader = "dead",
                                             !.members = members]]
  /\ UNCHANGED down

MembersDie(t) ==
  /\ task[t].members
  /\ task' = [task EXCEPT ![t].members = FALSE]
  /\ UNCHANGED down

\* The events "exit" and "error" of the child.
ExitEvent(t) ==
  /\ task[t].status # "none" /\ task[t].leader # "alive" /\ ~ task[t].leaderGone
  /\ task' = LeaderGone(task, t, Quiet)
  /\ UNCHANGED down

\* The streams of the child have closed as well.
CloseEvent(t) ==
  /\ task[t].status # "none" /\ task[t].leader # "alive" /\ ~ task[t].outputDone
  /\ task' = FinishOutput(LeaderGone(task, t, Quiet), t, Quiet)
  /\ UNCHANGED down

DrainTimer(t) ==
  /\ task[t].drainTimer
  /\ task' = FinishOutput(task, t, Quiet)
  /\ UNCHANGED down

\* The callback of the CaptureWriter, in time, by failure or by a timer.
CaptureSettled(t) ==
  /\ task[t].capture = "open"
  /\ task' = EvictFinished(NotifyFinished([task EXCEPT ![t].capture = "settled"],
                                          t, Quiet), Quiet)
  /\ UNCHANGED down

\* The watcher's interval, or the poll of a wait.
Poll(t) ==
  /\ task[t].watch \/ task[t].attempt # "none"
  /\ task' = CheckTermination(task, t, Quiet)
  /\ UNCHANGED down

\* The tool or the command; it looks the task up in the map.
Cancel(t) ==
  /\ task[t].kept
  /\ task' = CancelTask(task, t, Quiet)
  /\ UNCHANGED down

\* Mutant of EndWait: a wait has no deadline.
EndWaitSettled(t) ==
  /\ task[t].attempt # "none" /\ task[t].status # "running"
  /\ task' = ConcludeAttempt(task, t, Quiet)
  /\ UNCHANGED down

\* A wait of the attempt ends, at its deadline or because the task settled.
EndWait(t) ==
  /\ task[t].attempt # "none"
  /\ task' = IF task[t].status = "running" /\ task[t].attempt = "term"
             THEN CheckTermination([task EXCEPT ![t].attempt = "kill"], t, Quiet)
             ELSE ConcludeAttempt(task, t, Quiet)
  /\ UNCHANGED down

\* releaseDelivery: the follow-up was sent, or could not be.
Delivered(t) ==
  /\ task[t].deliveryHeld /\ ~ Quiet
  /\ task' = EvictFinished([task EXCEPT ![t].deliveryHeld = FALSE], Quiet)
  /\ UNCHANGED down

\* session_shutdown: the delivery closes and releases what it held, while
\* the runner still evicts; then every running task is cancelled, together.
Shutdown ==
  /\ down = "no"
  /\ LET T == EvictFinished([t \in Tasks |->
                               [task[t] EXCEPT !.deliveryHeld = FALSE]], FALSE)
     IN task' = [t \in Tasks |->
          LET x == CancelTask(T, t, TRUE)[t] IN
          IF T[t].kept /\ T[t].status = "running"
          THEN [x EXCEPT !.awaited = x.attempt # "none"] ELSE T[t]]
  /\ down' = "stopping"

\* Every attempt it waited for has concluded.
ReleaseAll ==
  /\ down = "stopping" /\ \A t \in Tasks : ~ task[t].awaited
  /\ task' = [t \in Tasks |-> Release(task[t])]
  /\ down' = "released"

\* The bounded wait for the removal of the capture files is over.
Clear ==
  /\ down = "released"
  /\ task' = [t \in Tasks |-> [task[t] EXCEPT !.kept = FALSE]]
  /\ down' = "cleared"

RunnerNext ==
  \/ \E t \in Tasks :
       \/ Start(t) \/ LeaderDies(t) \/ MembersDie(t)
       \/ ExitEvent(t) \/ CloseEvent(t) \/ DrainTimer(t) \/ CaptureSettled(t)
       \/ Poll(t) \/ Cancel(t) \/ EndWait(t) \/ Delivered(t)
  \/ Shutdown \/ ReleaseAll \/ Clear

RunnerSpec == RunnerInit /\ [][RunnerNext]_runnerVars

\* Timers fire, a finishing capture settles (CaptureWriter!Ends) and the
\* continuation of an awaited promise runs.  Processes owe nothing.
RunnerFairSpec ==
  /\ RunnerSpec
  /\ \A t \in Tasks :
       /\ WF_runnerVars(DrainTimer(t)) /\ WF_runnerVars(Poll(t))
       /\ WF_runnerVars(EndWait(t))
       /\ WF_runnerVars(CaptureSettled(t) /\ task[t].outputDone)
  /\ WF_runnerVars(ReleaseAll)

-----------------------------------------------------------------------------
\* A task is "cancelled" only when its shell is reaped and its group empty,
\* however exit, polls and the two waits of the attempt interleave.
CancelledIsGone ==
  \A t \in Tasks : task[t].status = "cancelled" =>
    task[t].leader # "alive" /\ task[t].leaderGone /\ ~ task[t].members

\* What the callers of cancel were told stays true: "cancelled" of a task
\* that is cancelled and of no other, "already-ended" of one that has ended.
AnswersAreTrue ==
  \A t \in Tasks :
    /\ "cancelled" \in task[t].answers => task[t].status = "cancelled"
    /\ "already-ended" \in task[t].answers => task[t].status # "running"

\* A follow-up is about a natural end whose output and capture are final, and
\* outside a shutdown every such end has had one: none is lost between the
\* three events that may come last.
OneFollowUp ==
  \A t \in Tasks :
    LET final == /\ task[t].status = "ended" /\ task[t].outputDone
                 /\ CaptureDone(task[t])
    IN /\ task[t].notified => final
       /\ final /\ ~ Quiet => task[t].notified

\* The tasks beyond the retention limit are the ones that may not go yet.
RetentionKept == ~ Quiet => \A t \in Excess(task) : ~ Evictable(task[t])

\* A task leaves the map only when nothing more is to be said of it.
EvictedIsOver ==
  ~ Quiet => \A t \in Tasks :
    task[t].status # "none" /\ ~ task[t].kept =>
      /\ task[t].status = "cancelled" \/ task[t].notified
      /\ Evictable(task[t])

\* What is kept and what was told, together.
RecordsAreTrue == RunnerTypeOK /\ AnswersAreTrue /\ RetentionKept /\ EvictedIsOver

\* An unconfirmed task is always watched, until shutdown releases it, and
\* the watcher and an attempt never run together.
WatchedOrTried ==
  \A t \in Tasks :
    /\ task[t].watch => task[t].phase = "unconfirmed" /\ task[t].attempt = "none"
    /\ task[t].status = "running" /\ ~ task[t].released =>
         CASE task[t].phase = "live" -> task[t].attempt = "none"
           [] task[t].phase = "cancelling" -> task[t].attempt # "none"
           [] task[t].phase = "unconfirmed" -> task[t].watch

\* Every natural end is told, even if the output streams stay open and the
\* capture is slow, unless a shutdown comes first.
NaturalEndTold ==
  \A t \in Tasks :
    task[t].status = "ended" ~> (task[t].notified \/ Quiet)

\* A task that could not be confirmed settles once its group has emptied.
UnconfirmedSettles ==
  \A t \in Tasks :
    (/\ task[t].status = "running" /\ task[t].phase = "unconfirmed"
     /\ task[t].leaderGone /\ ~ task[t].members)
      ~> (task[t].status # "running" \/ task[t].released)

\* Shutdown ends, whatever the processes and the callers do.
ShutdownEnds == down = "stopping" ~> down = "released"
=============================================================================
