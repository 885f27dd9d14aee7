---------------------------- MODULE MessageProofs ----------------------------
(***************************************************************************)
(* Proofs about the two ways in which a message reaches an interactive     *)
(* session: the inbox of a supervised AGY (AgyInbox), for any number of    *)
(* messages, failed writes and restarts, and the channel of a Claude       *)
(* session (Channel), for any servers, messages and room for receipts.     *)
(***************************************************************************)
EXTENDS AgyInbox, Channel, FiniteSetTheorems, TLAPS

-----------------------------------------------------------------------------
(* The inbox.  Kept says what becomes of a message, Order where the        *)
(* messages that are in memory stand, Counts what the turn state counts:   *)
(* one for each request whose end was not told, whatever was told between. *)

\* A message may be taken from the disk by nobody but Open: it is still to be
\* delivered, or was typed or refused.
Kept(m) == disk[m] = "queued" \/ m \in typed \cup refused

\* The delivery loop marks only what became of the message that it holds.
Marks ==
  /\ ctl # 0 => Kept(ctl)
  /\ step = "delivered" => hand \in typed
  /\ step = "failed" => hand \in refused
  /\ AcceptedKept

\* What the control loop has written is newer than all that is queued, which
\* is newer than what the delivery loop holds, and that than what was typed.
Order ==
  /\ ctl <= sent /\ hand <= sent /\ (ctl # 0 => hand < ctl)
  /\ up = "down" => ctl = 0 /\ hand = 0
  /\ \A m \in Msg : disk[m] # "none" => m <= sent
  /\ \A i \in 1..Len(queue) :
       /\ queue[i] <= sent
       /\ ctl # 0 => queue[i] < ctl
       /\ hand # 0 => hand < queue[i]
  /\ \A i \in 1..Len(life) :
       /\ life[i] <= sent
       /\ ctl # 0 => life[i] < ctl
       /\ hand # 0 => life[i] <= hand
       /\ hand # 0 /\ step # "delivered" => life[i] < hand
       /\ \A j \in 1..Len(queue) : life[i] < queue[j]
  /\ Ascending(queue) /\ Ascending(life)

\* What the turn state counts.
Counts ==
  /\ inflight = Cardinality(Unfinished)
  /\ told => openTools = (IF agy = "tool" THEN 1 ELSE 0)

\* The inductive invariant, in two parts that no action couples.
BoxTypes ==
  /\ up \in {"up", "ending", "down"}
  /\ disk \in [Msg -> {"none", "queued", "delivered", "failed"}]
  /\ queue \in Seq(Msg) /\ ctl \in 0..Messages /\ hand \in 0..Messages
  /\ step \in {"type", "delivered", "failed", "queued"}
  /\ sent \in 0..Messages /\ accepted \subseteq Msg /\ life \in Seq(Msg)
  /\ typed \subseteq Msg /\ refused \subseteq Msg /\ faults \in 0..MaxFaults

TurnTypes ==
  /\ observed \in BOOLEAN /\ up \in {"up", "ending", "down"}
  /\ openTools \in 0..MaxOpen
  /\ lastFunctionCall \in BOOLEAN /\ request \in [Slot -> Requests]
  /\ agy \in {"free", "request", "call", "tool"} /\ told \in BOOLEAN

BoxInv == BoxTypes /\ Marks /\ Order
TurnInv == TurnTypes /\ Counts

\* What sorting returns.
LEMMA SortedSeq ==
  ASSUME NEW S \in SUBSET Msg, NEW s \in Sorted(S)
  PROVE  /\ s \in Seq(Msg) /\ Ascending(s)
         /\ \A i \in 1..Len(s) : s[i] \in S
<1> DEFINE n == Cardinality(S)
<1>1. IsFiniteSet(Msg) BY InboxAssumption, FS_Interval DEF InboxAssumption, Msg
<1>2. n \in Nat BY <1>1, FS_Subset, FS_CardinalityType
<1>3. s \in [1..n -> S] /\ Ascending(s) BY DEF Sorted
<1> HIDE DEF n
<1>4. s \in Seq(S) BY <1>2, <1>3
<1>5. \A i \in 1..Len(s) : s[i] \in S BY <1>4
<1>6. s \in Seq(Msg) BY <1>4
<1> QED BY <1>3, <1>5, <1>6

\* Nothing is on the disk or in memory at first.
LEMMA BoxStarts == ASSUME InboxInit PROVE BoxInv
BY InboxAssumption
   DEF InboxAssumption, InboxInit, BoxInv, BoxTypes, Marks, Order, AcceptedKept,
       Ascending, Msg

\* The control loop writes a message, then accepts it.
LEMMA ControlStep == ASSUME BoxInv, Enqueue \/ Accept PROVE BoxInv'
<1> USE InboxAssumption DEF InboxAssumption, BoxInv, BoxTypes
<1>1. CASE Enqueue
  <2>1. CASE /\ disk' = [disk EXCEPT ![sent'] = "queued"] /\ ctl' = sent'
             /\ UNCHANGED faults
    <3>1. sent' \in Msg BY <1>1 DEF Enqueue, Msg
    <3>2. BoxTypes' BY <1>1, <2>1, <3>1 DEF Enqueue, Msg
    <3>3. Marks' BY <1>1, <2>1, <3>1 DEF Enqueue, Marks, Kept, AcceptedKept
    <3>4. Order' BY <1>1, <2>1, <3>1 DEF Enqueue, Order, Ascending, Msg
    <3> QED BY <3>2, <3>3, <3>4
  <2>2. CASE Fault /\ UNCHANGED <<disk, ctl>>
    <3>1. BoxTypes' BY <1>1, <2>2 DEF Enqueue, Fault
    <3>2. Marks' BY <1>1, <2>2 DEF Enqueue, Marks, Kept, AcceptedKept
    <3>3. Order' BY <1>1, <2>2 DEF Enqueue, Order, Ascending, Msg
    <3> QED BY <3>1, <3>2, <3>3
  <2> QED BY <1>1, <2>1, <2>2 DEF Enqueue
<1>2. CASE Accept
  <2>1. /\ ctl \in Msg /\ queue' = Append(queue, ctl) /\ ctl' = 0
        /\ accepted' = accepted \cup {ctl}
        /\ UNCHANGED <<up, disk, hand, step, sent, life, typed, refused, faults>>
    BY <1>2 DEF Accept, Msg
  <2>2. /\ queue' \in Seq(Msg) /\ Len(queue') = Len(queue) + 1 /\ Len(queue) \in Nat
        /\ queue'[Len(queue) + 1] = ctl
        /\ \A i \in 1..Len(queue) : queue'[i] = queue[i]
    BY <2>1
  <2>3. BoxTypes' BY <2>1, <2>2 DEF Msg
  <2>4. Marks'
    <3>1. Kept(ctl) BY <2>1 DEF Marks, Msg
    <3>2. AcceptedKept' BY <2>1, <3>1 DEF Marks, Kept, AcceptedKept
    <3> QED BY <2>1, <3>2 DEF Marks
  <2>5. ctl # 0 /\ \A i \in 1..Len(queue) : queue[i] < ctl
    BY <2>1 DEF Order, Msg
  <2>6. Ascending(queue')
    <3>1. Ascending(queue) BY DEF Order
    <3> QED BY <2>2, <2>5, <3>1 DEF Ascending
  <2>7. \A j \in 1..Len(queue') :
          /\ queue'[j] <= sent
          /\ hand # 0 => hand < queue'[j]
          /\ \A i \in 1..Len(life) : life[i] < queue'[j]
    <3> TAKE j \in 1..Len(queue')
    <3>1. CASE j \in 1..Len(queue) BY <2>2, <3>1 DEF Order
    <3>2. CASE j = Len(queue) + 1 BY <2>2, <2>5, <3>2 DEF Order
    <3> QED BY <2>2, <3>1, <3>2
  <2>8. Order' BY <2>1, <2>6, <2>7 DEF Order, Ascending
  <2> QED BY <2>3, <2>4, <2>8
<1> QED BY <1>1, <1>2

\* The delivery loop takes a message, types it and marks what became of it.
LEMMA DeliveryStep == ASSUME BoxInv, Take \/ Type \/ Mark PROVE BoxInv'
<1> USE InboxAssumption DEF InboxAssumption, BoxInv, BoxTypes
<1>1. CASE Take
  <2>1. /\ queue # <<>> /\ hand' = Head(queue) /\ queue' = Tail(queue)
        /\ hand = 0 /\ step' = "type" /\ up = "up"
        /\ UNCHANGED <<up, disk, ctl, sent, accepted, life, typed, refused, faults>>
    BY <1>1 DEF Take
  <2>2. /\ queue' \in Seq(Msg) /\ Len(queue') = Len(queue) - 1
        /\ Len(queue) \in Nat \ {0} /\ hand' = queue[1] /\ hand' \in Msg
        /\ \A i \in 1..Len(queue') : queue'[i] = queue[i + 1]
    BY <2>1
  <2>3. BoxTypes' BY <2>1, <2>2 DEF Msg
  <2>4. Marks' BY <2>1 DEF Marks, Kept, AcceptedKept
  <2>5. Ascending(queue') BY <2>1, <2>2 DEF Order, Ascending, Msg
  <2>6. Order' BY <2>1, <2>2, <2>5 DEF Order, Ascending, Msg
  <2> QED BY <2>3, <2>4, <2>6
<1>2. CASE Type
  <2>1. /\ hand \in Msg /\ step = "type"
        /\ UNCHANGED <<up, disk, queue, ctl, hand, sent, accepted>>
    BY <1>2 DEF Type, Msg
  <2>2. CASE /\ step' = "delivered" /\ life' = Append(life, hand)
             /\ typed' = typed \cup {hand} /\ UNCHANGED <<refused, faults>>
    <3>1. /\ life' \in Seq(Msg) /\ Len(life') = Len(life) + 1 /\ Len(life) \in Nat
          /\ life'[Len(life) + 1] = hand
          /\ \A i \in 1..Len(life) : life'[i] = life[i]
      BY <2>1, <2>2
    <3>2. BoxTypes' BY <2>1, <2>2, <3>1 DEF Msg
    <3>3. Marks' BY <2>1, <2>2 DEF Marks, Kept, AcceptedKept
    <3>4. Ascending(life')
      <4>1. Ascending(life) /\ \A i \in 1..Len(life) : life[i] < hand
        BY <2>1 DEF Order, Msg
      <4> QED BY <3>1, <4>1 DEF Ascending
    <3>5. Order' BY <2>1, <2>2, <3>1, <3>4 DEF Order, Ascending, Msg
    <3> QED BY <3>2, <3>3, <3>5
  <2>3. CASE /\ step' = "failed" /\ refused' = refused \cup {hand}
             /\ IF up = "ending" THEN UNCHANGED faults ELSE Fault
             /\ UNCHANGED <<life, typed>>
    <3>1. BoxTypes' BY <2>1, <2>3 DEF Fault
    <3>2. Marks' BY <2>1, <2>3 DEF Marks, Kept, AcceptedKept
    <3>3. Order' BY <2>1, <2>3 DEF Order, Ascending, Msg
    <3> QED BY <3>1, <3>2, <3>3
  <2> QED BY <1>2, <2>2, <2>3 DEF Type
<1>3. CASE Mark
  <2>1. /\ hand \in Msg /\ step # "type"
        /\ UNCHANGED <<up, ctl, sent, accepted, life, typed, refused>>
    BY <1>3 DEF Mark, Msg
  <2>2. CASE /\ disk' = [disk EXCEPT ![hand] = step] /\ hand' = 0 /\ step' = "type"
             /\ queue' \in IF step = "queued" THEN Insert(hand) ELSE {queue}
             /\ UNCHANGED faults
    <3> DEFINE S == {queue[i] : i \in 1..Len(queue)} \cup {hand}
    <3>1. /\ queue' \in Seq(Msg) /\ Ascending(queue')
          /\ \A j \in 1..Len(queue') :
               \/ queue'[j] = hand /\ step = "queued"
               \/ \E i \in 1..Len(queue) : queue'[j] = queue[i]
      <4>1. CASE step = "queued"
        <5>1. S \in SUBSET Msg BY <2>1
        <5>2. queue' \in Sorted(S) BY <2>2, <4>1 DEF Insert
        <5> HIDE DEF S
        <5>3. /\ queue' \in Seq(Msg) /\ Ascending(queue')
              /\ \A j \in 1..Len(queue') : queue'[j] \in S
          BY <5>1, <5>2, SortedSeq
        <5> QED BY <4>1, <5>3 DEF S
      <4>2. CASE step # "queued"
        BY <2>2, <4>2 DEF Order
      <4> QED BY <4>1, <4>2
    <3>2. BoxTypes' BY <2>1, <2>2, <3>1
    <3>3. Marks' BY <2>1, <2>2 DEF Marks, Kept, AcceptedKept
    <3>4. \A j \in 1..Len(queue') :
            /\ queue'[j] <= sent /\ (ctl # 0 => queue'[j] < ctl)
            /\ \A i \in 1..Len(life) : life[i] < queue'[j]
      <4> TAKE j \in 1..Len(queue')
      <4>1. CASE queue'[j] = hand /\ step = "queued" BY <2>1, <4>1 DEF Order, Msg
      <4>2. CASE \E i \in 1..Len(queue) : queue'[j] = queue[i] BY <4>2 DEF Order
      <4> QED BY <3>1, <4>1, <4>2
    <3>5. \A m \in Msg : disk'[m] # "none" => m <= sent
      BY <2>1, <2>2 DEF Order, Msg
    <3>6. hand' = 0 /\ Ascending(life) /\ \A i \in 1..Len(life) :
            life[i] <= sent /\ (ctl # 0 => life[i] < ctl)
      BY <2>2 DEF Order
    <3>7. Order' BY <2>1, <3>1, <3>4, <3>5, <3>6 DEF Order, Ascending
    <3> QED BY <3>2, <3>3, <3>7
  <2>3. CASE /\ Fault /\ UNCHANGED <<disk, queue>>
             /\ IF step = "failed" THEN step' = "queued" /\ UNCHANGED hand
                ELSE hand' = 0 /\ step' = "type"
    <3>1. BoxTypes' BY <2>1, <2>3 DEF Fault
    <3>2. Marks' BY <2>1, <2>3 DEF Marks, Kept, AcceptedKept
    <3>3. Order' BY <2>1, <2>3 DEF Order, Ascending, Msg
    <3> QED BY <3>1, <3>2, <3>3
  <2> QED BY <1>3, <2>2, <2>3 DEF Mark
<1> QED BY <1>1, <1>2, <1>3

\* A supervisor dies, and another opens its inbox.
LEMMA RestartStep ==
  ASSUME BoxInv, AgyEnds \/ LoopsEnd \/ Crash \/ Open PROVE BoxInv'
<1> USE InboxAssumption DEF InboxAssumption, BoxInv, BoxTypes
<1>1. CASE AgyEnds \/ LoopsEnd
  BY <1>1 DEF AgyEnds, LoopsEnd, box, Marks, Kept, AcceptedKept, Order, Ascending
<1>2. CASE Crash
  <2>1. BoxTypes' /\ Marks' BY <1>2 DEF Crash, Marks, Kept, AcceptedKept
  <2>2. Order' BY <1>2 DEF Crash, Order, Ascending
  <2> QED BY <2>1, <2>2
<1>3. CASE Open
  <2> DEFINE S == {m \in Msg : disk[m] = "queued"}
  <2>1. /\ up = "down" /\ up' = "up" /\ queue' \in Sorted(S) /\ life' = <<>>
        /\ UNCHANGED <<disk, ctl, hand, step, sent, accepted, typed, refused, faults>>
    BY <1>3 DEF Open
  <2>2. /\ queue' \in Seq(Msg) /\ Ascending(queue')
        /\ \A j \in 1..Len(queue') : queue'[j] \in S
    BY <2>1, SortedSeq
  <2>3. \A j \in 1..Len(queue') : queue'[j] <= sent BY <2>2 DEF Order
  <2>4. BoxTypes' BY <2>1, <2>2
  <2>5. Marks' BY <2>1 DEF Marks, Kept, AcceptedKept
  <2>6. Order' BY <2>1, <2>2, <2>3 DEF Order, Ascending
  <2> QED BY <2>4, <2>5, <2>6
<1> QED BY <1>1, <1>2, <1>3

\* What AGY does is nothing to the inbox.
LEMMA BoxStep == ASSUME BoxInv, [InboxNext]_inboxVars PROVE BoxInv'
<1>1. ASSUME UNCHANGED <<up, box>> PROVE BoxInv'
  BY <1>1 DEF BoxInv, BoxTypes, Marks, Kept, AcceptedKept, Order, Ascending, box
<1>2. CASE \/ Request \/ SideRequest \/ Respond \/ Parsed \/ RequestFails
           \/ ToolStart \/ ToolEnd \/ BreakOff \/ UNCHANGED inboxVars
  BY <1>1, <1>2 DEF Request, SideRequest, Respond, Parsed, RequestFails, ToolStart,
                    ToolEnd, BreakOff, inboxVars
<1> QED BY <1>2, ControlStep, DeliveryStep, RestartStep DEF InboxNext

\* There are no more unfinished requests than slots.
LEMMA UnfinishedFew ==
  IsFiniteSet(Unfinished) /\ Cardinality(Unfinished) \in 0..MaxOpen
<1>1. IsFiniteSet(Slot) /\ Cardinality(Slot) = MaxOpen
  BY InboxAssumption, FS_Interval DEF InboxAssumption, Slot
<1>2. Unfinished \subseteq Slot BY DEF Unfinished
<1>3. IsFiniteSet(Unfinished) /\ Cardinality(Unfinished) <= MaxOpen
  BY <1>1, <1>2, FS_Subset
<1>4. Cardinality(Unfinished) \in Nat BY <1>3, FS_CardinalityType
<1> QED BY <1>3, <1>4, InboxAssumption DEF InboxAssumption

\* A request that is forwarded is one more to be finished.
LEMMA Forwarded ==
  ASSUME TurnInv, NEW kind \in {"main", "side"}, Forward(kind)
  PROVE  request' \in [Slot -> Requests] /\ inflight' = Cardinality(Unfinished)'
<1> USE DEF TurnInv, TurnTypes, Counts
<1>1. CASE ~ observed
  <2>1. UNCHANGED <<request, inflight>> BY <1>1 DEF Forward
  <2> QED BY <2>1 DEF Unfinished
<1>2. CASE observed
  <2>1. PICK r \in Slot :
          /\ request[r] = "none" /\ request' = [request EXCEPT ![r] = kind]
          /\ inflight' = inflight + 1
    BY <1>2 DEF Forward
  <2>2. request' \in [Slot -> Requests] BY <2>1 DEF Requests
  <2>3. Unfinished' = Unfinished \cup {r} /\ r \notin Unfinished
    BY <2>1 DEF Unfinished
  <2>4. Cardinality(Unfinished \cup {r}) = Cardinality(Unfinished) + 1
    BY <2>3, UnfinishedFew, FS_AddElement
  <2> QED BY <2>1, <2>2, <2>3, <2>4
<1> QED BY <1>1, <1>2

\* The turn state follows what it is told of AGY's requests and tools.
LEMMA TurnStep == ASSUME TurnInv, [InboxNext]_inboxVars PROVE TurnInv'
<1> USE InboxAssumption DEF InboxAssumption, TurnInv, TurnTypes
<1>1. CASE \/ Enqueue \/ Accept \/ Take \/ Type \/ Mark \/ LoopsEnd \/ Open
           \/ UNCHANGED inboxVars
  <2>1. UNCHANGED <<observed, turn>> /\ up' \in {"up", "ending", "down"}
    BY <1>1 DEF Enqueue, Accept, Take, Type, Mark, LoopsEnd, Open, inboxVars
  <2> QED BY <2>1 DEF turn, Counts, Unfinished
<1>2. CASE Request
  <2>1. request' \in [Slot -> Requests] /\ inflight' = Cardinality(Unfinished)'
    BY <1>2, Forwarded DEF Request
  <2> QED BY <1>2, <2>1 DEF Request, Counts
<1>3. CASE SideRequest
  <2>1. request' \in [Slot -> Requests] /\ inflight' = Cardinality(Unfinished)'
    BY <1>3, Forwarded DEF SideRequest
  <2> QED BY <1>3, <2>1 DEF SideRequest, Counts
<1>4. CASE Respond
  <2>1. agy = "request" /\ agy' \in {"call", "free"}
        /\ UNCHANGED <<observed, up, inflight, openTools, lastFunctionCall, told>>
    BY <1>4 DEF Respond
  <2>2. request' \in [Slot -> Requests] /\ Unfinished' = Unfinished
    <3>1. PICK call \in BOOLEAN :
            IF observed
            THEN \E r \in Slot :
                   /\ request[r] \in {"main", "cut", "cutCall"}
                   /\ request[r] = "cutCall" => call
                   /\ request' = [request EXCEPT ![r] =
                        IF @ # "main" THEN "none"
                        ELSE IF call THEN "call" ELSE "text"]
            ELSE UNCHANGED request
      BY <1>4 DEF Respond
    <3>2. CASE observed
      <4>1. PICK r \in Slot :
              /\ request[r] \in {"main", "cut", "cutCall"}
              /\ request' = [request EXCEPT ![r] =
                   IF @ # "main" THEN "none" ELSE IF call THEN "call" ELSE "text"]
        BY <3>1, <3>2
      <4> QED BY <4>1 DEF Unfinished, Requests
    <3>3. CASE ~ observed BY <3>1, <3>3 DEF Unfinished
    <3> QED BY <3>2, <3>3
  <2> QED BY <2>1, <2>2 DEF Counts
<1>5. CASE Parsed
  <2>1. PICK r \in Slot, seen \in BOOLEAN :
          /\ request[r] \in {"main", "side", "call", "text"}
          /\ request' = [request EXCEPT ![r] =
               IF @ # "main" THEN "none" ELSE IF seen THEN "cutCall" ELSE "cut"]
          /\ ResponseFinished(seen)
    BY <1>5 DEF Parsed
  <2>2. request' \in [Slot -> Requests] /\ lastFunctionCall' \in BOOLEAN
    BY <2>1 DEF Requests, ResponseFinished
  <2>3. Unfinished' = Unfinished \ {r} /\ r \in Unfinished
    BY <2>1 DEF Unfinished
  <2>4. Cardinality(Unfinished \ {r}) = Cardinality(Unfinished) - 1
    BY <2>3, UnfinishedFew, FS_RemoveElement
  <2>5. Cardinality(Unfinished) # 0 BY <2>3, UnfinishedFew, FS_EmptySet
  <2>6. inflight' = Cardinality(Unfinished)'
    BY <2>1, <2>3, <2>4, <2>5, UnfinishedFew DEF Counts, ResponseFinished, Dec
  <2> QED BY <1>5, <2>2, <2>6 DEF Parsed, Counts
<1>6. CASE RequestFails
  <2>1. PICK r \in Slot :
          /\ \/ request[r] = "main" /\ agy = "request" /\ agy' = "free"
             \/ request[r] = "side" /\ UNCHANGED agy
          /\ request' = [request EXCEPT ![r] = "failed"]
    BY <1>6 DEF RequestFails
  <2>2. request' \in [Slot -> Requests] /\ Unfinished' = Unfinished
    BY <2>1 DEF Unfinished, Requests
  <2>3. /\ agy' = "tool" <=> agy = "tool"
        /\ UNCHANGED <<observed, up, inflight, openTools, lastFunctionCall, told>>
        /\ agy' \in {"free", agy}
    BY <1>6, <2>1 DEF RequestFails
  <2> QED BY <2>2, <2>3 DEF Counts
<1>7. CASE ToolStart
  <2>1. /\ agy = "call" /\ agy' = "tool" /\ Unfinished' = Unfinished
        /\ UNCHANGED <<observed, up, inflight, lastFunctionCall, request>>
    BY <1>7 DEF ToolStart, Unfinished
  <2>2. \/ openTools < MaxOpen /\ openTools' = openTools + 1 /\ UNCHANGED told
        \/ told' = FALSE /\ UNCHANGED openTools
    BY <1>7 DEF ToolStart
  <2>3. ASSUME told' PROVE told /\ openTools' = openTools + 1
    <3>1. told' # FALSE BY <2>3
    <3>2. openTools' = openTools + 1 /\ told' = told BY <2>2, <3>1
    <3> QED BY <2>3, <3>2
  <2>6. told' \in BOOLEAN /\ lastFunctionCall' \in BOOLEAN BY <2>1, <2>2
  <2>7. openTools' \in 0..MaxOpen BY <2>2
  <2>8. TurnTypes' BY <2>1, <2>6, <2>7
  <2>4. inflight' = Cardinality(Unfinished)' BY <2>1 DEF Counts
  <2>5. told' => openTools' = (IF agy' = "tool" THEN 1 ELSE 0)
    BY <2>1, <2>3 DEF Counts
  <2> QED BY <2>8, <2>4, <2>5 DEF Counts
<1>8. CASE ToolEnd
  <2>1. /\ agy = "tool" /\ agy' = "call" /\ Unfinished' = Unfinished
        /\ UNCHANGED <<observed, up, inflight, lastFunctionCall, request>>
    BY <1>8 DEF ToolEnd, Unfinished
  <2>2. \/ openTools' = Dec(openTools) /\ UNCHANGED told
        \/ told' = FALSE /\ UNCHANGED openTools
    BY <1>8 DEF ToolEnd
  <2>3. ASSUME told' PROVE told /\ openTools' = Dec(openTools)
    <3>1. told' # FALSE BY <2>3
    <3>2. openTools' = Dec(openTools) /\ told' = told BY <2>2, <3>1
    <3> QED BY <2>3, <3>2
  <2>6. told' \in BOOLEAN /\ lastFunctionCall' \in BOOLEAN BY <2>1, <2>2
  <2>7. openTools' \in 0..MaxOpen BY <2>2 DEF Dec
  <2>8. TurnTypes' BY <2>1, <2>6, <2>7
  <2>4. inflight' = Cardinality(Unfinished)' BY <2>1 DEF Counts
  <2>5. told' => openTools' = (IF agy' = "tool" THEN 1 ELSE 0)
    BY <2>1, <2>3 DEF Counts, Dec
  <2> QED BY <2>8, <2>4, <2>5 DEF Counts
<1>9. CASE BreakOff
  <2>1. /\ agy' = "free" /\ told' = (told /\ agy # "tool")
        /\ UNCHANGED <<observed, up, inflight, openTools, lastFunctionCall>>
    BY <1>9 DEF BreakOff
  <2>2. request' \in [Slot -> Requests] /\ Unfinished' = Unfinished
    <3>1. CASE observed /\ agy = "request"
      <4>1. PICK r \in Slot, end \in {"call", "text"} :
              /\ request[r] \in {"main", "cut", "cutCall"}
              /\ request' = [request EXCEPT ![r] = IF @ = "main" THEN end ELSE "none"]
        BY <1>9, <3>1 DEF BreakOff
      <4> QED BY <4>1 DEF Unfinished, Requests
    <3>2. CASE ~ (observed /\ agy = "request")
      BY <1>9, <3>2 DEF BreakOff, Unfinished
    <3> QED BY <3>1, <3>2
  <2> QED BY <2>1, <2>2 DEF Counts
<1>10. CASE AgyEnds \/ Crash
  <2>1. Reset /\ up' \in {"ending", "down"} /\ UNCHANGED observed
    BY <1>10 DEF AgyEnds, Crash
  <2>2. request' \in [Slot -> Requests] /\ Unfinished' = {}
    BY <2>1 DEF Reset, Unfinished, Requests
  <2>3. Cardinality({}) = 0 BY FS_EmptySet
  <2>5. openTools' \in 0..MaxOpen BY <2>1 DEF Reset
  <2>6. told' \in BOOLEAN /\ lastFunctionCall' \in BOOLEAN BY <2>1 DEF Reset
  <2>4. TurnTypes' BY <2>1, <2>2, <2>5, <2>6 DEF Reset
  <2> QED BY <2>1, <2>2, <2>3, <2>4 DEF Reset, Counts
<1> QED BY <1>1, <1>2, <1>3, <1>4, <1>5, <1>6, <1>7, <1>8, <1>9, <1>10 DEF InboxNext

\* A message whose sender was told "queued" stays on the disk as queued until
\* it was typed or refused, also through crashes and failed writes; one
\* supervisor types messages in the order they were queued in, each once, also
\* when a failed mark puts one back; AGY is never taken for idle while the end of
\* one of its requests was not told, however many there are and in whatever order
\* their ends are told, nor in a tool of which every event arrived.
THEOREM InboxIsSound == InboxSpec => []InboxInv
<1>1. InboxInit => BoxInv /\ TurnInv
  <2>1. InboxInit => BoxInv BY BoxStarts
  <2>2. InboxInit => TurnInv
    <3>1. 0 \in 0..MaxOpen BY InboxAssumption DEF InboxAssumption
    <3>2. ASSUME InboxInit PROVE Unfinished = {} BY <3>2 DEF InboxInit, Unfinished
    <3>3. Cardinality({}) = 0 BY FS_EmptySet
    <3> QED BY <3>1, <3>2, <3>3 DEF InboxInit, TurnInv, TurnTypes, Counts, Requests
  <2> QED BY <2>1, <2>2
<1>2. BoxInv /\ TurnInv /\ [InboxNext]_inboxVars => BoxInv' /\ TurnInv'
  BY BoxStep, TurnStep
<1>3. BoxInv /\ TurnInv => InboxInv
  <2> SUFFICES ASSUME BoxInv, TurnInv PROVE InboxInv OBVIOUS
  <2>1. InboxTypeOK
    <3>1. inflight \in 0..MaxOpen BY UnfinishedFew DEF TurnInv, Counts
    <3> QED BY <3>1 DEF BoxInv, TurnInv, BoxTypes, TurnTypes, InboxTypeOK
  <2>2. AcceptedKept /\ TypedInOrder
    BY DEF BoxInv, Marks, Order, TypedInOrder
  <2>3. BusyIsNotIdle
    <3>1. Unfinished # {} => inflight # 0
      BY UnfinishedFew, FS_EmptySet DEF TurnInv, Counts
    <3> QED BY <3>1 DEF TurnInv, Counts, BusyIsNotIdle, Idle
  <2> QED BY <2>1, <2>2, <2>3 DEF InboxInv
<1> QED BY <1>1, <1>2, <1>3, PTL DEF InboxSpec

-----------------------------------------------------------------------------
(* The channel: as long as no server that answers misses its health check  *)
(* and no remove takes another entry than the one compared, the only       *)
(* server that passes messages on is the registered one.                   *)

\* Servers that have been registered, and those of them that are done.
Done(s) == at[s] \in {"gone", "killed"} \/ s \in closing
Past(s) == at[s] = "ready" \/ Done(s)

\* A server that unregisters because it ends does nothing else any more.
Closing ==
  \A s \in closing :
    /\ at[s] \in {"compare", "remove", "gone", "killed"}
    /\ at[s] \in {"compare", "remove"} => read[s] = s

\* Whatever is published, or was read, is of a server that got that far.
Registered ==
  /\ published # Nobody => Past(published)
  /\ \A a \in Actor :
       /\ read[a] # Nobody => Past(read[a])
       /\ at[a] \in {"check", "compare", "remove"} => read[a] # Nobody

\* Without a mistake only the entry of a server that is done is removed.
Removing ==
  ~ mistaken =>
    \A a \in Actor : at[a] \in {"compare", "remove"} => Done(read[a])

\* A sender that goes on has found a server.
Targets ==
  \A m \in Message :
    sending[m] \in {"found", "posted", "accepted", "waiting"} => target[m] # Nobody

\* A receipt stands for a reply.
Receipts ==
  \A s \in Server, m \in Message : entries[s][m] = "received" => m \in replied

\* The inductive invariant of the channel.
CInv ==
  /\ ChannelTypeOK /\ Closing /\ Registered /\ Removing /\ Targets /\ Receipts
  /\ ReadyIsRegistered /\ CleanExit /\ ReceiptsTrue

\* No server has been started at first.
LEMMA ChannelStarts == ASSUME ChannelInit PROVE CInv
BY ChannelAssumption
   DEF ChannelAssumption, ChannelInit, CInv, ChannelTypeOK, Closing, Registered,
       Removing, Targets, Receipts, ReadyIsRegistered, CleanExit, ReceiptsTrue,
       Actor, Lister, Past, Done

\* What the registry's invariant is made of, without the mail.
RegistryInv ==
  /\ ChannelTypeOK /\ Closing /\ Registered /\ Removing
  /\ ReadyIsRegistered /\ CleanExit

\* Steps of the registry keep the mail and its invariants.
LEMMA MailKept ==
  ASSUME CInv, RegistryInv', UNCHANGED mail PROVE CInv'
BY DEF CInv, RegistryInv, Targets, Receipts, ReceiptsTrue, mail

\* ... and steps of the mail the registry.
LEMMA RegistryKept ==
  ASSUME CInv, ChannelTypeOK', UNCHANGED registry PROVE RegistryInv'
BY DEF CInv, RegistryInv, Closing, Registered, Removing, ReadyIsRegistered, CleanExit,
       Past, Done, registry

\* Servers start, register, unregister, end or die; a lister prunes.
LEMMA RegistrySteps ==
  ASSUME CInv,
         \/ \E s \in Server : \/ Start(s) \/ Register(s) \/ CheckPrevious(s)
                              \/ Link(s) \/ Stop(s) \/ Kill(s)
         \/ \E a \in Actor : Compare(a) \/ RemovePath(a)
         \/ Prune
  PROVE  CInv'
<1> USE ChannelAssumption
        DEF ChannelAssumption, CInv, RegistryInv, ChannelTypeOK, Closing,
            Registered, Removing, ReadyIsRegistered, CleanExit, Past, Done,
            Goto, Actor, Lister, Alive, Answers
<1>1. ASSUME NEW s \in Server, Start(s) PROVE CInv'
  <2>1. RegistryInv' BY <1>1 DEF Start, mail
  <2> QED BY <1>1, <2>1, MailKept DEF Start
<1>2. ASSUME NEW s \in Server, Register(s) PROVE CInv'
  <2>1. RegistryInv' BY <1>2 DEF Register, mail
  <2> QED BY <1>2, <2>1, MailKept DEF Register
<1>3. ASSUME NEW s \in Server, CheckPrevious(s) PROVE CInv'
  <2>1. CASE Answers(read[s]) /\ Goto(s, "gone") /\ UNCHANGED mistaken
    <3>1. RegistryInv' BY <1>3, <2>1 DEF CheckPrevious, mail
    <3> QED BY <1>3, <3>1, MailKept DEF CheckPrevious
  <2>2. CASE Goto(s, "compare") /\ Answers(read[s])
    <3>1. mistaken' BY <1>3, <2>2 DEF CheckPrevious
    <3>2. RegistryInv' BY <1>3, <2>2, <3>1 DEF CheckPrevious, mail
    <3> QED BY <1>3, <3>2, MailKept DEF CheckPrevious
  <2>3. CASE Goto(s, "compare") /\ ~ Answers(read[s])
    <3>1. mistaken' = mistaken BY <1>3, <2>3 DEF CheckPrevious
    <3>2. read[s] \in Server /\ Done(read[s])
      BY <1>3, <2>3 DEF CheckPrevious
    <3>3. RegistryInv' BY <1>3, <2>3, <3>1, <3>2 DEF CheckPrevious, mail
    <3> QED BY <1>3, <3>3, MailKept DEF CheckPrevious
  <2> QED BY <1>3, <2>1, <2>2, <2>3 DEF CheckPrevious
<1>4. ASSUME NEW s \in Server, Link(s) PROVE CInv'
  <2>1. RegistryInv' BY <1>4 DEF Link, mail
  <2> QED BY <1>4, <2>1, MailKept DEF Link
<1>5. ASSUME NEW s \in Server, Stop(s) PROVE CInv'
  <2>1. RegistryInv' BY <1>5 DEF Stop, Leave, mail
  <2> QED BY <1>5, <2>1, MailKept DEF Stop
<1>6. ASSUME NEW s \in Server, Kill(s) PROVE CInv'
  <2>1. RegistryInv' BY <1>6 DEF Kill, mail
  <2> QED BY <1>6, <2>1, MailKept DEF Kill
<1>7. ASSUME NEW a \in Actor, Compare(a) PROVE CInv'
  <2>1. RegistryInv' BY <1>7 DEF Compare, Unregistered, mail
  <2> QED BY <1>7, <2>1, MailKept DEF Compare
<1>8. ASSUME NEW a \in Actor, RemovePath(a) PROVE CInv'
  <2>1. ChannelTypeOK' BY <1>8 DEF RemovePath, Unregistered, mail
  <2>2. /\ published' = Nobody /\ UNCHANGED <<read, closing>>
        /\ \E l \in {"gone", "idle", "link"} :
             at' = [at EXCEPT ![a] = l] /\ (a \in closing => l = "gone")
    BY <1>8 DEF RemovePath, Unregistered
  <2>3. at[a] = "remove" /\ (mistaken => mistaken') BY <1>8 DEF RemovePath
  <2>4. Closing' /\ CleanExit' BY <2>2
  <2>5. \A s \in Server : Done(s) => Done(s)' BY <2>2, <2>3
  <2>6. Registered' BY <2>2, <2>3, <2>5
  <2>7. Removing' BY <2>2, <2>3, <2>5
  <2>8. ReadyIsRegistered'
    <3> SUFFICES ASSUME ~ mistaken', NEW s \in Server, at'[s] = "ready"
                 PROVE  FALSE
      BY DEF ReadyIsRegistered
    <3>1. ~ mistaken /\ published \in {Nobody, read[a]} BY <1>8 DEF RemovePath
    <3>2. at[s] = "ready" /\ published = s BY <2>2, <3>1
    <3> QED BY <2>3, <3>1, <3>2
  <2>9. RegistryInv' BY <2>1, <2>4, <2>6, <2>7, <2>8
  <2> QED BY <1>8, <2>9, MailKept DEF RemovePath
<1>9. ASSUME Prune PROVE CInv'
  <2>1. RegistryInv' BY <1>9 DEF Prune, mail
  <2> QED BY <1>9, <2>1, MailKept DEF Prune
<1> QED BY <1>1, <1>2, <1>3, <1>4, <1>5, <1>6, <1>7, <1>8, <1>9

\* A sender's, a recipient's or an expiring receipt's step.
LEMMA MailSteps ==
  ASSUME CInv, NEW m \in Message,
         \/ Find(m) \/ Post(m) \/ Write(m) \/ WriteFails(m) \/ Break(m)
         \/ Await(m) \/ Poll(m)
         \/ \E s \in Server : Reply(s, m) \/ Expire(s, m)
  PROVE  CInv'
<1> DEFINE MInv == Targets /\ Receipts /\ ReceiptsTrue
<1>1. ASSUME UNCHANGED registry, ChannelTypeOK', MInv' PROVE CInv'
  BY <1>1, RegistryKept DEF CInv, RegistryInv
<1> USE DEF CInv, ChannelTypeOK, Targets, Receipts, ReceiptsTrue
<1>2. CASE Find(m)
  <2>1. ChannelTypeOK'
    <3>1. target' \in [Message -> Server \cup {Nobody}]
      BY <1>2 DEF Find
    <3>2. sending' \in [Message -> {"new", "found", "posted", "accepted", "waiting",
                                   "received", "unknown", "failed"}]
      BY <1>2 DEF Find
    <3> QED BY <1>2, <3>1, <3>2 DEF Find, registry
  <2>2. MInv' BY <1>2 DEF Find
  <2> QED BY <1>2, <2>1, <2>2, <1>1 DEF Find
<1>3. CASE Post(m)
  <2>1. target[m] \in Server BY <1>3 DEF Post
  <2>2. ChannelTypeOK' /\ MInv'
    <3>1. CASE sending' = [sending EXCEPT ![m] = "failed"] /\ UNCHANGED entries
      BY <1>3, <3>1 DEF Post, registry
    <3>2. CASE /\ entries' = [entries EXCEPT ![target[m]][m] = "unconfirmed"]
               /\ sending' = [sending EXCEPT ![m] = "posted"]
      BY <1>3, <2>1, <3>2 DEF Post, registry
    <3> QED BY <1>3, <3>1, <3>2 DEF Post
  <2> QED BY <1>3, <2>2, <1>1 DEF Post
<1>4. CASE Write(m)
  <2>1. ChannelTypeOK' BY <1>4 DEF Write, registry
  <2>2. MInv' BY <1>4 DEF Write
  <2> QED BY <1>4, <2>1, <2>2, <1>1 DEF Write
<1>5. CASE WriteFails(m)
  <2> DEFINE s == target[m]
  <2>1. /\ s \in Server /\ s \in Actor /\ at[s] = "ready"
        /\ closing' = closing \cup {s} /\ Goto(s, "compare")
        /\ read' = [read EXCEPT ![s] = s]
    BY <1>5 DEF WriteFails, Leave, Actor
  <2> HIDE DEF s
  <2>2. ChannelTypeOK' BY <1>5, <2>1 DEF WriteFails, Goto
  <2>3. RegistryInv'
    BY <1>5, <2>1, <2>2, ChannelAssumption
       DEF ChannelAssumption, WriteFails, Leave, RegistryInv, Closing, Registered,
           Removing, ReadyIsRegistered, CleanExit, Past, Done, Goto, Actor, Lister
  <2>4. MInv' BY <1>5 DEF WriteFails
  <2> QED BY <2>3, <2>4 DEF RegistryInv
<1>6. CASE Break(m)
  <2>1. ChannelTypeOK' BY <1>6 DEF Break, registry
  <2>2. MInv' BY <1>6 DEF Break
  <2> QED BY <1>6, <2>1, <2>2, <1>1 DEF Break
<1>7. CASE Await(m)
  <2>1. ChannelTypeOK' BY <1>7 DEF Await, registry
  <2>2. MInv' BY <1>7 DEF Await
  <2> QED BY <1>7, <2>1, <2>2, <1>1 DEF Await
<1>8. CASE Poll(m)
  <2>1. ChannelTypeOK' BY <1>8 DEF Poll, registry
  <2>2. MInv' BY <1>8 DEF Poll
  <2> QED BY <1>8, <2>1, <2>2, <1>1 DEF Poll
<1>9. ASSUME NEW s \in Server, Reply(s, m) PROVE CInv'
  <2>1. ChannelTypeOK' BY <1>9 DEF Reply, registry
  <2>2. MInv' BY <1>9 DEF Reply
  <2> QED BY <1>9, <2>1, <2>2, <1>1 DEF Reply
<1>10. ASSUME NEW s \in Server, Expire(s, m) PROVE CInv'
  <2>1. ChannelTypeOK' BY <1>10 DEF Expire, registry
  <2>2. MInv' BY <1>10 DEF Expire
  <2> QED BY <1>10, <2>1, <2>2, <1>1 DEF Expire
<1> QED BY <1>2, <1>3, <1>4, <1>5, <1>6, <1>7, <1>8, <1>9, <1>10

\* Every step of the channel preserves the invariant.
LEMMA ChannelStep ==
  ASSUME CInv, [ChannelNext]_channelVars PROVE CInv'
<1>1. CASE UNCHANGED channelVars
  BY <1>1 DEF CInv, ChannelTypeOK, Closing, Registered, Removing, Targets, Receipts,
     ReadyIsRegistered, CleanExit, ReceiptsTrue, Past, Done, channelVars, registry, mail
<1> QED BY <1>1, RegistrySteps, MailSteps DEF ChannelNext

\* A server that passes messages on is the registered one, none leaves its
\* entry behind, "accepted" is a write to Claude and "received" a reply.
THEOREM ChannelIsSound == ChannelSpec => []ChannelInv
<1>1. ChannelInit => CInv BY ChannelStarts
<1>2. CInv /\ [ChannelNext]_channelVars => CInv' BY ChannelStep
<1>3. CInv => ChannelInv BY DEF CInv, ChannelInv
<1> QED BY <1>1, <1>2, <1>3, PTL DEF ChannelSpec
=============================================================================
