---------------------------- MODULE MCLiveHosts ----------------------------
(* What lives in the process beside an interactive agent, for TLC: the      *)
(* background tasks of a Pi host with their capture writer and the delivery *)
(* of their follow-ups, and the inbox of an AGY supervisor.  They share no  *)
(* state (a capture that settles reaches the delivery only through          *)
(* BackgroundTasks, which has an event for it), so a behaviour runs one of  *)
(* them and leaves the others as they began.                                *)
EXTENDS CaptureWriter, CompletionDelivery, BackgroundTasks, AgyInbox

VARIABLE side  \* the one that runs

host == <<side, w, deliveryVars, runnerVars, inboxVars>>

HostInit ==
  /\ side \in {"capture", "delivery", "runner", "inbox"}
  /\ Init /\ DeliveryInit /\ RunnerInit /\ InboxInit
  \* one initial state for each of the others
  /\ side # "inbox" => ~ observed

Captures(A) ==
  side = "capture" /\ A /\ UNCHANGED <<side, deliveryVars, runnerVars, inboxVars>>
Delivers(A) ==
  side = "delivery" /\ A /\ UNCHANGED <<side, w, runnerVars, inboxVars>>
Runs(A) == side = "runner" /\ A /\ UNCHANGED <<side, w, deliveryVars, inboxVars>>
Types(A) == side = "inbox" /\ A /\ UNCHANGED <<side, w, deliveryVars, runnerVars>>

HostNext ==
  Captures(Next) \/ Delivers(DeliveryNext) \/ Runs(RunnerNext) \/ Types(InboxNext)

\* The fairness of the four specifications.
HostSpec ==
  /\ HostInit /\ [][HostNext]_host
  /\ WF_host(Captures(Pump)) /\ WF_host(Captures(Stall))
  /\ WF_host(Delivers(BatchTimer)) /\ WF_host(Delivers(FlushTimer))
  /\ WF_host(Delivers(WatchTimer))
  /\ \A t \in Tasks :
       /\ WF_host(Runs(DrainTimer(t))) /\ WF_host(Runs(Poll(t)))
       /\ WF_host(Runs(EndWait(t)))
       /\ WF_host(Runs(CaptureSettled(t) /\ task[t].outputDone))
  /\ WF_host(Runs(ReleaseAll))
  /\ WF_host(Types(Accept)) /\ WF_host(Types(Take))
  /\ WF_host(Types(Type)) /\ WF_host(Types(Mark))
=============================================================================
