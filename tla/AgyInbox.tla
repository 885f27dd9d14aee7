------------------------------ MODULE AgyInbox ------------------------------
(***************************************************************************)
(* The supervisor of an interactive AGY session: its inbox of one file per *)
(* message, the control loop that accepts messages and events, the turn    *)
(* state that says when AGY may be typed to, and the loop that delivers.   *)
(* harnez-agy observes the requests of AGY through the meter, and starts   *)
(* with a new inbox every time; agent start -i and resume -i come without  *)
(* that observer, and a resume opens the inbox of its session again.  Both *)
(* leave QuietWindow and TypingGuard at zero, so keys do not matter here.  *)
(* A supervisor or its AGY may end or die at any step; AGY is modelled by  *)
(* the requests and the hooks that the supervisor is told of.  The meter   *)
(* reads every response beside AGY, in a goroutine of its own, and tells   *)
(* its end when that goroutine returns: before AGY has read the response,  *)
(* or after AGY has gone on to a tool or to another request.               *)
(***************************************************************************)
EXTENDS Integers, Sequences, FiniteSets

CONSTANTS
  Messages,  \* bound on the messages; the i-th that is sent is i
  MaxFaults, \* bound on the writes to disk or terminal that fail
  MaxOpen    \* bound on the requests and tools that are open at a time

ASSUME InboxAssumption == Messages \in Nat /\ MaxFaults \in Nat /\ MaxOpen \in Nat \ {0}

VARIABLES
  observed,  \* the meter tells the turn state of requests
  up,        \* "up"; "ending": AGY is gone; "down"
  disk,      \* state in the file of each message
  queue,     \* inbox.queue
  ctl,       \* the message that the control loop has written, or 0
  hand, step, \* the message that the delivery loop took, or 0, and what is next
  inflight, openTools, lastFunctionCall, \* TurnState
  request,   \* what became of each request that the meter has forwarded
  agy,       \* what AGY does: "free", "request", "call" of a tool, "tool"
  sent,      \* messages that were sent, accepted or not
  accepted,  \* those whose sender was given an ID
  life,      \* what this supervisor typed, in order
  typed,     \* what any supervisor typed
  refused,   \* what a terminal refused
  told,      \* no event of a tool of this AGY was lost
  faults

turn == <<inflight, openTools, lastFunctionCall, request, agy, told>>
box == <<disk, queue, ctl, hand, step, sent, accepted, life, typed, refused,
         faults>>
inboxVars == <<observed, up, turn, box>>

Msg == 1..Messages
Slot == 1..MaxOpen

\* A request of AGY's turn or one on the side, that AGY waits for; one whose end
\* was told already, "cut" before its tool call or after it; one that AGY has
\* read, with a call or not, and whose end was not told; a failed one.
Requests == {"none", "main", "side", "cut", "cutCall", "call", "text", "failed"}

InboxTypeOK ==
  /\ observed \in BOOLEAN /\ up \in {"up", "ending", "down"}
  /\ disk \in [Msg -> {"none", "queued", "delivered", "failed"}]
  /\ queue \in Seq(Msg) /\ ctl \in 0..Messages /\ hand \in 0..Messages
  /\ step \in {"type", "delivered", "failed", "queued"}
  /\ inflight \in 0..MaxOpen /\ openTools \in 0..MaxOpen
  /\ lastFunctionCall \in BOOLEAN /\ request \in [Slot -> Requests]
  /\ agy \in {"free", "request", "call", "tool"}
  /\ sent \in 0..Messages /\ accepted \subseteq Msg /\ life \in Seq(Msg)
  /\ typed \subseteq Msg /\ refused \subseteq Msg /\ told \in BOOLEAN
  /\ faults \in 0..MaxFaults

InboxInit ==
  /\ observed \in BOOLEAN /\ up = "up"
  /\ disk = [m \in Msg |-> "none"] /\ queue = <<>> /\ ctl = 0
  /\ hand = 0 /\ step = "type"
  /\ inflight = 0 /\ openTools = 0 /\ lastFunctionCall = FALSE
  /\ request = [r \in Slot |-> "none"] /\ agy = "free" /\ told = TRUE
  /\ sent = 0 /\ accepted = {} /\ life = <<>> /\ typed = {} /\ refused = {}
  /\ faults = 0

Fault == faults < MaxFaults /\ faults' = faults + 1

-----------------------------------------------------------------------------
\* The control loop serves one connection at a time, until its listener is
\* closed, which is after the delivery loop has ended.

\* "enqueue": the message is on the disk before it can be delivered.
Enqueue ==
  /\ up # "down" /\ ctl = 0 /\ sent < Messages /\ sent' = sent + 1
  /\ \/ disk' = [disk EXCEPT ![sent'] = "queued"] /\ ctl' = sent'
        /\ UNCHANGED faults
     \/ Fault /\ UNCHANGED <<disk, ctl>>
  /\ UNCHANGED <<observed, up, turn, queue, hand, step, accepted, life, typed,
                 refused>>

\* ... then it is queued, and the sender is given its ID.
Accept ==
  /\ ctl # 0 /\ ctl' = 0
  /\ queue' = Append(queue, ctl) /\ accepted' = accepted \cup {ctl}
  /\ UNCHANGED <<observed, up, turn, disk, hand, step, sent, life, typed,
                 refused, faults>>

-----------------------------------------------------------------------------
\* TurnState, told by the meter and by the tool hooks.
Dec(n) == IF n > 0 THEN n - 1 ELSE 0

\* Mutant: the count of the requests is a flag.
FinishedAll(functionCall) == inflight' = 0 /\ lastFunctionCall' = functionCall

ResponseFinished(functionCall) ==
  inflight' = Dec(inflight) /\ lastFunctionCall' = functionCall

\* forward: the request is counted before it goes upstream.
Forward(kind) ==
  IF observed
  THEN \E r \in Slot :
         /\ request[r] = "none" /\ \A q \in 1..(r - 1) : request[q] # "none"
         /\ request' = [request EXCEPT ![r] = kind] /\ inflight' = inflight + 1
  ELSE UNCHANGED <<request, inflight>>

\* A turn starts, or goes on after its tools.
Request ==
  /\ up = "up" /\ agy \in {"free", "call"} /\ agy' = "request" /\ Forward("main")
  /\ UNCHANGED <<observed, up, openTools, lastFunctionCall, told, box>>

\* One on the side, for the quota summary or a title, at any time.
SideRequest ==
  /\ observed /\ up = "up" /\ Forward("side")
  /\ UNCHANGED <<observed, up, openTools, lastFunctionCall, agy, told, box>>

\* AGY has read its response, which asks for a tool or does not.  The meter may
\* not have told its end yet.
Respond ==
  /\ up = "up" /\ agy = "request"
  /\ \E call \in BOOLEAN :
       /\ agy' = IF call THEN "call" ELSE "free"
       /\ IF observed
          THEN \E r \in Slot :
                 /\ request[r] \in {"main", "cut", "cutCall"}
                 /\ request[r] = "cutCall" => call
                 /\ request' = [request EXCEPT ![r] =
                      IF @ # "main" THEN "none" ELSE IF call THEN "call" ELSE "text"]
          ELSE UNCHANGED request
  /\ UNCHANGED <<observed, up, inflight, openTools, lastFunctionCall, told, box>>

\* parseResponse returns: behind the end of the response, or before it when the
\* reader on the side fell behind or cannot decode it; what it could not read it
\* reports as no call.
Parsed ==
  /\ up = "up"
  /\ \E r \in Slot, seen \in BOOLEAN :
       /\ request[r] \in {"main", "side", "call", "text"}
       /\ seen => request[r] \in {"main", "call"}
       /\ request' = [request EXCEPT ![r] =
            IF @ # "main" THEN "none" ELSE IF seen THEN "cutCall" ELSE "cut"]
       /\ ResponseFinished(seen)
  /\ UNCHANGED <<observed, up, openTools, agy, told, box>>

\* forward fails: ModifyResponse is not called, and so no ResponseFinished.
RequestFails ==
  /\ up = "up"
  /\ \E r \in Slot :
       /\ \/ request[r] = "main" /\ agy = "request" /\ agy' = "free"
          \/ request[r] = "side" /\ UNCHANGED agy
       /\ request' = [request EXCEPT ![r] = "failed"]
  /\ UNCHANGED <<observed, up, inflight, openTools, lastFunctionCall, told, box>>

-----------------------------------------------------------------------------
\* The tool hooks.  An event waits for the control loop; it is lost when the
\* socket does not take it within a tenth of a second.
Heard == up = "up" /\ ctl = 0

\* Mutant: the end of a tool does not count.
ToolEndLost ==
  /\ up = "up" /\ agy = "tool" /\ agy' = "call"
  /\ UNCHANGED <<observed, up, inflight, lastFunctionCall, request, box, openTools,
                 told>>

ToolStart ==
  /\ up = "up" /\ agy = "call" /\ agy' = "tool"
  /\ \/ Heard /\ openTools < MaxOpen /\ openTools' = openTools + 1 /\ UNCHANGED told
     \/ told' = FALSE /\ UNCHANGED openTools
  /\ UNCHANGED <<observed, up, inflight, lastFunctionCall, request, box>>

ToolEnd ==
  /\ up = "up" /\ agy = "tool" /\ agy' = "call"
  /\ \/ Heard /\ openTools' = Dec(openTools) /\ UNCHANGED told
     \/ told' = FALSE /\ UNCHANGED openTools
  /\ UNCHANGED <<observed, up, inflight, lastFunctionCall, request, box>>

\* A turn breaks off, by the person or by the upstream: the stream ends early for
\* AGY and for the meter, a tool that runs reports no end.
BreakOff ==
  /\ up = "up" /\ agy # "free" /\ agy' = "free" /\ told' = (told /\ agy # "tool")
  /\ IF observed /\ agy = "request"
     THEN \E r \in Slot, end \in {"call", "text"} :
            /\ request[r] \in {"main", "cut", "cutCall"}
            /\ request' = [request EXCEPT ![r] = IF @ = "main" THEN end ELSE "none"]
     ELSE UNCHANGED request
  /\ UNCHANGED <<observed, up, inflight, openTools, lastFunctionCall, box>>

Idle == inflight = 0 /\ openTools = 0 /\ ~ lastFunctionCall

-----------------------------------------------------------------------------
\* deliverInbox, woken by a message or by its ticker.
Take ==
  /\ up = "up" /\ hand = 0 /\ Idle /\ queue # <<>>
  /\ hand' = Head(queue) /\ queue' = Tail(queue) /\ step' = "type"
  /\ UNCHANGED <<observed, up, turn, disk, ctl, sent, accepted, life, typed,
                 refused, faults>>

\* The terminal takes the text, or fails; the one of a gone AGY may do either.
Type ==
  /\ hand # 0 /\ step = "type"
  /\ \/ /\ step' = "delivered" /\ life' = Append(life, hand)
        /\ typed' = typed \cup {hand} /\ UNCHANGED <<refused, faults>>
     \/ /\ step' = "failed" /\ refused' = refused \cup {hand}
        /\ IF up = "ending" THEN UNCHANGED faults ELSE Fault
        /\ UNCHANGED <<life, typed>>
  /\ UNCHANGED <<observed, up, turn, disk, queue, ctl, hand, sent, accepted>>

Ascending(s) == \A i, j \in 1..Len(s) : i < j => s[i] < s[j]

\* The messages of a set, sorted by the time they were queued at: exactly one
\* sequence.
Sorted(S) == {s \in [1..Cardinality(S) -> S] : Ascending(s)}

\* Mutant: a message that is put back goes to the end.
InsertLast(m) == {Append(queue, m)}

\* A message back in the queue, which is sorted then.
Insert(m) == Sorted({queue[i] : i \in 1..Len(queue)} \cup {m})

\* Mark: a failed mark of a failure puts the message back, if that mark works.
Mark ==
  /\ hand # 0 /\ step # "type"
  /\ \/ /\ disk' = [disk EXCEPT ![hand] = step] /\ hand' = 0 /\ step' = "type"
        /\ queue' \in IF step = "queued" THEN Insert(hand) ELSE {queue}
        /\ UNCHANGED faults
     \/ /\ Fault /\ UNCHANGED <<disk, queue>>
        /\ IF step = "failed" THEN step' = "queued" /\ UNCHANGED hand
           ELSE hand' = 0 /\ step' = "type"
  /\ UNCHANGED <<observed, up, turn, ctl, sent, accepted, life, typed, refused>>

\* Nobody asks for the turn state of an AGY that is gone.
Reset ==
  /\ inflight' = 0 /\ openTools' = 0 /\ lastFunctionCall' = FALSE
  /\ request' = [r \in Slot |-> "none"] /\ agy' = "free" /\ told' = TRUE

\* AGY ends; the delivery loop finishes what it holds, then the listener
\* closes and the control loop ends with the connection it serves.
AgyEnds ==
  /\ up = "up" /\ up' = "ending" /\ Reset /\ UNCHANGED <<observed, box>>

LoopsEnd ==
  /\ up = "ending" /\ hand = 0 /\ ctl = 0 /\ up' = "down"
  /\ UNCHANGED <<observed, turn, box>>

\* The supervisor is killed, between or inside two writes.
Crash ==
  /\ up # "down" /\ up' = "down" /\ Reset
  /\ hand' = 0 /\ step' = "type" /\ ctl' = 0
  /\ UNCHANGED <<observed, disk, queue, sent, accepted, life, typed, refused, faults>>

\* OpenInbox of a resume -i: what is queued on the disk, in order.
Open ==
  /\ up = "down" /\ ~ observed /\ up' = "up"
  /\ queue' \in Sorted({m \in Msg : disk[m] = "queued"})
  /\ life' = <<>>
  /\ UNCHANGED <<observed, turn, disk, ctl, hand, step, sent, accepted, typed,
                 refused, faults>>

InboxNext ==
  \/ Enqueue \/ Accept
  \/ Request \/ SideRequest \/ Respond \/ Parsed \/ RequestFails
  \/ ToolStart \/ ToolEnd \/ BreakOff
  \/ Take \/ Type \/ Mark \/ AgyEnds \/ LoopsEnd \/ Crash \/ Open

InboxSpec == InboxInit /\ [][InboxNext]_inboxVars

\* Both loops go on; nothing is assumed of AGY, of senders or of restarts.
InboxFairSpec ==
  /\ InboxSpec
  /\ WF_inboxVars(Accept) /\ WF_inboxVars(Take)
  /\ WF_inboxVars(Type) /\ WF_inboxVars(Mark)

-----------------------------------------------------------------------------
(* Properties *)

\* A message whose sender was told "queued" is on the disk to be delivered
\* until it was typed or a terminal refused it, wherever the supervisor dies
\* and whichever write fails.
AcceptedKept ==
  \A m \in accepted : disk[m] = "queued" \/ m \in typed \cup refused

\* One supervisor types each message at most once and none before an older
\* one that it types too, also after a failed mark put one back.
TypedInOrder == Ascending(life)

\* The requests whose end the meter has not told, and those that have none.
Unfinished == {r \in Slot : request[r] \in {"main", "side", "call", "text", "failed"}}

\* AGY is never taken for idle, and nothing is typed to it, while the meter has
\* not told the end of one of its requests, whichever other one ends meanwhile,
\* nor while a tool runs of which every event arrived.
BusyIsNotIdle ==
  up = "up" /\ (Unfinished # {} \/ (agy = "tool" /\ told)) => ~ Idle

InboxInv == InboxTypeOK /\ AcceptedKept /\ TypedInOrder /\ BusyIsNotIdle

\* What the turn state counts comes back to zero, in whatever order the ends of
\* responses were told, and writes that failed are made good: once AGY is free,
\* all its requests and tools were told of and the response whose end was told
\* last asked for no tool, the queue empties.
InboxDrained ==
  <>[](/\ up = "up" /\ agy = "free" /\ told /\ ~ lastFunctionCall
       /\ Unfinished = {})
    => <>[](queue = <<>>)
=============================================================================
