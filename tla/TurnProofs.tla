----------------------------- MODULE TurnProofs -----------------------------
(***************************************************************************)
(* Theorems about AgentTurns, for any processes, sessions, names, messages *)
(* and allowed commands.                                                   *)
(*                                                                         *)
(*   AckedWereTold   a message is acknowledged only if a successful turn   *)
(*                   of its session was told it                            *)
(*   NameIsKept      a name stays in the registry while starts swap IDs,   *)
(*                   or its failed session is set aside, still stored      *)
(*   TurnRecorded    types; and the record leads to the process at work    *)
(*   OutcomeIsKept   no older copy replaces the outcome of a turn          *)
(*   TurnsGoOn       no older copy takes back a recorded turn              *)
(*   TurnsUseRegistry, QueuesAreExact, RemovedAreArchived, SavesAreKnown   *)
(*                   each step is one of the registry's, and what follows  *)
(*                                                                         *)
(* The first needs only what a turn about to be reported holds (MInv). The *)
(* next ones rest on KInv: types (TInv), which places go with which        *)
(* commands and which worker with which launcher (Kin), which processes a  *)
(* record may name (Started), that the process a wait saw last is gone     *)
(* (Confirmed). NameIsKept adds the names: an ID has one, and the one it   *)
(* is set aside under (NameFixed), what a start holds has a name that was  *)
(* asked for and no provider session (Newborn), and the second record of a *)
(* start that swaps IDs will not be set aside (Settled). TurnRecorded,     *)
(* OutcomeIsKept and TurnsGoOn are about one turn and its waits; OInv      *)
(* says, place by place, what a process of the turn shares with the stored *)
(* record (Follows) and a wait with the turn (Awaits). The last four are   *)
(* about the registry: RInv says that what is held was stored, and what    *)
(* the queues contain.                                                     *)
(***************************************************************************)
EXTENDS AgentTurns, FiniteSetTheorems, TLAPS

(* What is acknowledged was told. *)

Fun(f, S) == f = [x \in S |-> f[x]]

\* The queue snapshot of a turn that succeeded and is about to be reported
\* was told to its session.
Ready(p) == pc[p] = "report" /\ out[p] = "completed"
SnapTold ==
  \A p \in Procs : Ready(p) => \A i \in Ids : sess[p].id = i => snap[p] \subseteq told[i]

Funs ==
  /\ Fun(pc, Procs) /\ Fun(sess, Procs) /\ Fun(snap, Procs) /\ Fun(out, Procs)
  /\ Fun(acked, Ids) /\ Fun(told, Ids)

MInv == Funs /\ SnapTold /\ AckedWasTold

\* A step after which no other turn is ready, and which acknowledges and tells
\* nothing, keeps all that.
NoneReadied ==
  \A p \in Procs : Ready(p)' =>
    Ready(p) /\ sess'[p] = sess[p] /\ snap'[p] = snap[p]

LEMMA Plain ==
  ASSUME MInv, Funs', NoneReadied, acked' = acked, told' = told PROVE MInv'
BY DEF MInv, SnapTold, AckedWasTold, NoneReadied

\* Saves other than the one of a successful resume acknowledge nothing.
LEMMA PutKeepsAcked ==
  ASSUME Fun(acked, Ids), NEW i, NEW r, Put(i, r) PROVE acked' = acked
BY DEF Put, Rewrite, Revive, Fun

LEMMA LeaveReadiesNone ==
  ASSUME Funs, NEW S, LeaveAll(S), acked' = acked, told' = told
  PROVE  Funs' /\ NoneReadied
BY DEF LeaveAll, Funs, NoneReadied, Ready, Fun

\* A step of one process p that does not end a turn with success.
OneSteps(p) ==
  /\ \A q \in Procs \ {p} : /\ pc'[q] = pc[q] /\ sess'[q] = sess[q]
                            /\ snap'[q] = snap[q] /\ out'[q] = out[q]
  /\ ~ Ready(p)'

LEMMA StepReadiesNone ==
  ASSUME MInv, NEW p \in Procs, OneSteps(p), Funs', acked' = acked, told' = told
  PROVE  MInv'
<1>1. NoneReadied BY DEF OneSteps, NoneReadied, Ready
<1> QED BY <1>1, Plain

-----------------------------------------------------------------------------
(* One lemma per command. *)

LEMMA OpenStep ==
  ASSUME MInv, NEW p \in Procs, NEW c, NEW i, NEW l,
         Open(p, c, i, l), l # "report"
  PROVE  MInv'
<1> USE DEF MInv, Funs, Fun, OneSteps, Ready
<1>1. acked' = acked /\ told' = told BY DEF Open, Begin, store, hist
<1>2. Funs' /\ OneSteps(p) BY <1>1 DEF Open, Go
<1> QED BY <1>1, <1>2, StepReadiesNone

LEMMA LeaveStep ==
  ASSUME MInv, NEW S, LeaveAll(S), acked' = acked, told' = told PROVE MInv'
BY LeaveReadiesNone, Plain DEF MInv

LEMMA StartSteps ==
  ASSUME MInv, NEW p \in Procs, NEW c, NEW n,
         StartRefused(p, c, n) \/ \E i \in Ids : Start(p, c, i, n)
  PROVE  MInv'
<1>1. CASE StartRefused(p, c, n)
  BY <1>1, LeaveStep DEF StartRefused, Begin, Leave, store, hist
<1>2. ASSUME NEW i \in Ids, Start(p, c, i, n) PROVE MInv'
  <2> USE DEF MInv, Funs, Fun, OneSteps, Ready
  <2>1. acked' = acked /\ told' = told BY <1>2 DEF Start, Enter, Begin, Create, hist
  <2>2. Funs' /\ OneSteps(p) BY <1>2, <2>1 DEF Start, Enter, Go
  <2> QED BY <2>1, <2>2, StepReadiesNone
<1> QED BY <1>1, <1>2

\* A start that takes over the name of a failed one.
LEMMA ReleaseSteps ==
  ASSUME MInv, NEW p \in Procs,
         Release(p) \/ ReleaseFails(p) \/ \E i \in Ids : Reserve(p, i)
  PROVE  MInv'
<1> USE DEF MInv, Funs, Fun, OneSteps, Ready, Go
<1>1. CASE Release(p)
  <2>1. acked' = acked /\ told' = told BY <1>1, PutKeepsAcked DEF Release, hist
  <2>2. Funs' /\ OneSteps(p) BY <1>1, <2>1 DEF Release, priv
  <2> QED BY <2>1, <2>2, StepReadiesNone
<1>2. CASE ReleaseFails(p)
  BY <1>2, LeaveStep DEF ReleaseFails, Leave, store, hist
<1>3. ASSUME NEW i \in Ids, Reserve(p, i) PROVE MInv'
  <2>1. acked' = acked /\ told' = told BY <1>3 DEF Reserve, Enter, Create, hist
  <2>2. Funs' /\ OneSteps(p) BY <1>3, <2>1 DEF Reserve, Enter
  <2> QED BY <2>1, <2>2, StepReadiesNone
<1> QED BY <1>1, <1>2, <1>3

LEMMA ResumeSteps ==
  ASSUME MInv, NEW p \in Procs,
         \/ ResumeRefused(p) \/ ResumeChecked(p)
         \/ Snapshot(p) \/ SnapshotFails(p) \/ Claim(p)
  PROVE  MInv'
<1> USE DEF MInv, Funs, Fun, OneSteps, Ready, Go
<1>1. CASE ResumeRefused(p)
  BY <1>1, LeaveStep DEF ResumeRefused, Leave, store, hist
<1>2. CASE ResumeChecked(p)
  <2>1. acked' = acked /\ told' = told
    BY <1>2, PutKeepsAcked DEF ResumeChecked, SaveOn, Save, store, hist
  <2>2. Funs' /\ OneSteps(p) BY <1>2, <2>1 DEF ResumeChecked, SaveOn
  <2> QED BY <2>1, <2>2, StepReadiesNone
<1>3. CASE Snapshot(p)
  <2>1. acked' = acked /\ told' = told BY <1>3 DEF Snapshot, store, hist
  <2>2. Funs' /\ OneSteps(p) BY <1>3, <2>1 DEF Snapshot
  <2> QED BY <2>1, <2>2, StepReadiesNone
<1>4. CASE SnapshotFails(p) /\ IsWorker(p)
  <2>1. acked' = acked /\ told' = told BY <1>4 DEF SnapshotFails, store, hist
  <2>2. Funs' /\ OneSteps(p) BY <1>4, <2>1 DEF SnapshotFails
  <2> QED BY <2>1, <2>2, StepReadiesNone
<1>5. CASE SnapshotFails(p) /\ ~ IsWorker(p)
  BY <1>5, LeaveStep DEF SnapshotFails, Leave, store, hist
<1>6. CASE Claim(p)
  <2>1. acked' = acked /\ told' = told
    BY <1>6, PutKeepsAcked DEF Claim, SaveOn, Save
  <2>2. Funs' /\ OneSteps(p) BY <1>6, <2>1 DEF Claim, SaveOn
  <2> QED BY <2>1, <2>2, StepReadiesNone
<1> QED BY <1>1, <1>2, <1>3, <1>4, <1>5, <1>6

LEMMA LaunchSteps ==
  ASSUME MInv, NEW p \in Procs, NEW w \in Procs,
         Launch(p, w) \/ Register(p, w) \/ RegisterFails(p, w)
  PROVE  MInv'
<1> USE DEF MInv, Funs, Fun, Ready, Go
<1>1. CASE Launch(p, w)
  <2>1. acked' = acked /\ told' = told BY <1>1 DEF Launch, store, hist
  <2>2. Funs' BY <1>1, <2>1 DEF Launch
  <2>3. NoneReadied BY <1>1 DEF Launch, NoneReadied
  <2> QED BY <2>1, <2>2, <2>3, Plain
<1>2. CASE Register(p, w)
  <2>1. acked' = acked /\ told' = told
    BY <1>2, PutKeepsAcked DEF Register, SaveOn, Save, hist
  <2>2. Funs' /\ OneSteps(p) BY <1>2, <2>1 DEF Register, SaveOn, OneSteps
  <2> QED BY <2>1, <2>2, StepReadiesNone
<1>3. CASE RegisterFails(p, w)
  BY <1>3, LeaveStep DEF RegisterFails, store, hist
<1> QED BY <1>1, <1>2, <1>3

LEMMA WorkerSteps ==
  ASSUME MInv, NEW p \in Procs,
         \/ LaunchFails(p) \/ Watch(p) \/ Poll(p) \/ PollFails(p) \/ Reread(p)
  PROVE  MInv'
<1> USE DEF MInv, Funs, Fun, OneSteps, Ready, Go
<1>1. CASE LaunchFails(p)
  <2>1. acked' = acked /\ told' = told
    BY <1>1, PutKeepsAcked DEF LaunchFails, Save, hist
  <2> QED BY <1>1, <2>1, LeaveStep DEF LaunchFails, Leave
<1>2. CASE Watch(p)
  BY <1>2, LeaveStep DEF Watch, Leave, store, hist
<1>3. CASE Poll(p)
  <2>1. acked' = acked /\ told' = told BY <1>3 DEF Poll, store, hist
  <2>2. Funs' /\ OneSteps(p) BY <1>3, <2>1 DEF Poll, priv
  <2> QED BY <2>1, <2>2, StepReadiesNone
<1>4. CASE PollFails(p)
  BY <1>4, LeaveStep DEF PollFails, Leave, store, hist
<1>5. CASE Reread(p)
  <2>1. acked' = acked /\ told' = told BY <1>5 DEF Reread, store, hist
  <2>2. Funs' /\ OneSteps(p) BY <1>5, <2>1 DEF Reread
  <2> QED BY <2>1, <2>2, StepReadiesNone
<1> QED BY <1>1, <1>2, <1>3, <1>4, <1>5

\* What a provider does during the turn.
LEMMA ProviderSteps ==
  ASSUME MInv, NEW p \in Procs,
         \/ Spawn(p) \/ SpawnFails(p) \/ Observe(p) \/ ReadEvent(p) \/ SaveEvent(p)
  PROVE  MInv'
<1> USE DEF MInv, Funs, Fun, OneSteps, Ready, Go
<1>1. CASE Spawn(p)
  <2>1. acked' = acked /\ told' = told BY <1>1 DEF Spawn, store, hist
  <2>2. Funs' /\ OneSteps(p) BY <1>1, <2>1 DEF Spawn
  <2> QED BY <2>1, <2>2, StepReadiesNone
<1>2. CASE SpawnFails(p)
  <2>1. acked' = acked /\ told' = told BY <1>2 DEF SpawnFails, store, hist
  <2>2. Funs' /\ OneSteps(p) BY <1>2, <2>1 DEF SpawnFails
  <2> QED BY <2>1, <2>2, StepReadiesNone
<1>3. CASE Observe(p)
  <2>1. acked' = acked /\ told' = told BY <1>3, PutKeepsAcked DEF Observe, hist
  <2>2. Funs' /\ OneSteps(p) BY <1>3, <2>1 DEF Observe
  <2> QED BY <2>1, <2>2, StepReadiesNone
<1>4. CASE ReadEvent(p)
  <2>1. acked' = acked /\ told' = told BY <1>4 DEF ReadEvent, store, hist
  <2>2. Funs' /\ OneSteps(p) BY <1>4, <2>1 DEF ReadEvent
  <2> QED BY <2>1, <2>2, StepReadiesNone
<1>5. CASE SaveEvent(p)
  <2>1. acked' = acked /\ told' = told BY <1>5, PutKeepsAcked DEF SaveEvent, hist
  <2>2. Funs' /\ OneSteps(p) BY <1>5, <2>1 DEF SaveEvent
  <2> QED BY <2>1, <2>2, StepReadiesNone
<1> QED BY <1>1, <1>2, <1>3, <1>4, <1>5

\* A turn that ends with success has told its session the snapshot.
LEMMA EndTurnStep ==
  ASSUME MInv, NEW p \in Procs, NEW o, EndTurn(p, o) PROVE MInv'
<1> USE DEF MInv, Funs, Fun, EndTurn, Go
<1>1. Funs' BY DEF store
<1>2. \A i \in Ids : told[i] \subseteq told'[i] BY DEF Id
<1>3. acked' = acked BY DEF store
<1>4. AckedWasTold' BY <1>2, <1>3 DEF AckedWasTold
<1>5. SnapTold'
  <2> SUFFICES ASSUME NEW q \in Procs, Ready(q)', NEW i \in Ids, sess'[q].id = i
               PROVE  snap'[q] \subseteq told'[i]
    BY DEF SnapTold
  <2>1. CASE q = p
    <3>1. o = "completed" BY <2>1 DEF Ready
    <3> QED BY <2>1, <3>1 DEF Id
  <2>2. CASE q # p
    <3>1. Ready(q) BY <2>2 DEF Ready
    <3> QED BY <2>2, <3>1, <1>2 DEF SnapTold
  <2> QED BY <2>1, <2>2
<1> QED BY <1>1, <1>4, <1>5

\* ... and a resume acknowledges just that.
LEMMA FinishResumeStep ==
  ASSUME MInv, NEW p \in Procs, FinishResume(p) PROVE MInv'
<1> USE DEF MInv, Funs, Fun, FinishResume, Go
<1>1. told' = told OBVIOUS
<1>2. Funs' BY <1>1 DEF Rewrite, store
<1>3. NoneReadied BY DEF NoneReadied, Ready
<1>4. AckedWasTold'
  <2>1. CASE file[Id(p)] = None
    BY <2>1, <1>1 DEF AckedWasTold, store
  <2>2. CASE file[Id(p)] # None
    <3>1. acked' = [acked EXCEPT ![Id(p)] = @ \cup (file[Id(p)].pending \cap snap[p])]
      BY <2>2 DEF Rewrite
    <3>2. \A i \in Ids : Id(p) = i => snap[p] \subseteq told[i]
      BY DEF SnapTold, Ready, Id, At
    <3> QED BY <1>1, <3>1, <3>2 DEF AckedWasTold
  <2> QED BY <2>1, <2>2
<1>5. SnapTold' BY <1>1, <1>3 DEF SnapTold, NoneReadied
<1> QED BY <1>2, <1>4, <1>5

LEMMA ReportSteps ==
  ASSUME MInv, NEW p \in Procs,
         \/ \E j \in Ids : FinishStart(p, j)
         \/ DropReserved(p) \/ FailStart(p) \/ FailResume(p)
         \/ Wrap(p) \/ WrapUp(p) \/ Exit(p)
  PROVE  MInv'
<1> USE DEF MInv, Funs, Fun, OneSteps, Ready, Go
<1>1. ASSUME NEW j \in Ids, FinishStart(p, j) PROVE MInv'
  <2>1. acked' = acked /\ told' = told BY <1>1, PutKeepsAcked DEF FinishStart
  <2>2. Funs' /\ OneSteps(p) BY <1>1, <2>1 DEF FinishStart, priv
  <2> QED BY <2>1, <2>2, StepReadiesNone
<1>2. CASE DropReserved(p)
  <2>1. acked' = acked /\ told' = told BY <1>2 DEF DropReserved, Delete, store, hist
  <2>2. Funs' /\ OneSteps(p) BY <1>2, <2>1 DEF DropReserved, priv
  <2> QED BY <2>1, <2>2, StepReadiesNone
<1>3. CASE FailStart(p)
  <2>1. acked' = acked /\ told' = told BY <1>3, PutKeepsAcked DEF FailStart, store
  <2>2. Funs' /\ OneSteps(p) BY <1>3, <2>1 DEF FailStart, priv
  <2> QED BY <2>1, <2>2, StepReadiesNone
<1>4. CASE FailResume(p)
  <2>1. acked' = acked /\ told' = told BY <1>4, PutKeepsAcked DEF FailResume, Save
  <2>2. Funs' /\ OneSteps(p) BY <1>4, <2>1 DEF FailResume, priv
  <2> QED BY <2>1, <2>2, StepReadiesNone
<1>5. CASE Wrap(p)
  <2>1. acked' = acked /\ told' = told BY <1>5 DEF Wrap, store, hist
  <2>2. Funs' /\ OneSteps(p) BY <1>5, <2>1 DEF Wrap
  <2> QED BY <2>1, <2>2, StepReadiesNone
<1>6. CASE WrapUp(p)
  <2>1. acked' = acked /\ told' = told BY <1>6, PutKeepsAcked DEF WrapUp
  <2>2. Funs' /\ OneSteps(p) BY <1>6, <2>1 DEF WrapUp, priv
  <2> QED BY <2>1, <2>2, StepReadiesNone
<1>7. CASE Exit(p)
  BY <1>7, LeaveStep DEF Exit, Leave, store, hist
<1> QED BY <1>1, <1>2, <1>3, <1>4, <1>5, <1>6, <1>7

LEMMA WaitSteps == ASSUME MInv, NEW p \in Procs, WaitStep(p) PROVE MInv'
<1> USE DEF MInv, Funs, Fun, OneSteps, Ready, Go
<1>1. ASSUME NEW i \in Ids, WaitFind(p, i) PROVE MInv'
  <2>1. acked' = acked /\ told' = told BY <1>1 DEF WaitFind, store, hist
  <2>2. Funs' /\ OneSteps(p) BY <1>1, <2>1 DEF WaitFind
  <2> QED BY <2>1, <2>2, StepReadiesNone
<1>2. CASE WaitScan(p)
  <2>1. acked' = acked /\ told' = told BY <1>2 DEF WaitScan, store, hist
  <2>2. Funs' /\ OneSteps(p) BY <1>2, <2>1 DEF WaitScan, priv
  <2> QED BY <2>1, <2>2, StepReadiesNone
<1>3. CASE WaitAgain(p) \/ WaitCondemns(p)
  <2>1. acked' = acked /\ told' = told BY <1>3 DEF WaitAgain, WaitCondemns, store, hist
  <2>2. Funs' /\ OneSteps(p) BY <1>3, <2>1 DEF WaitAgain, WaitCondemns, priv
  <2> QED BY <2>1, <2>2, StepReadiesNone
<1>4. CASE WaitReturns(p) \/ WaitLost(p)
  BY <1>4, LeaveStep DEF WaitReturns, WaitLost, Leave, store, hist
<1>5. CASE Condemn(p)
  <2>1. acked' = acked /\ told' = told BY <1>5, PutKeepsAcked DEF Condemn, Save, hist
  <2> QED BY <1>5, <2>1, LeaveStep DEF Condemn, Leave
<1> QED BY <1>1, <1>2, <1>3, <1>4, <1>5 DEF WaitStep

\* stop, rate and delete.
LEMMA CommandSteps ==
  ASSUME MInv, NEW p \in Procs,
         \/ StopTerm(p) \/ StopKill(p) \/ StopDone(p) \/ StopGivesUp(p)
         \/ RateSave(p) \/ DeleteDone(p) \/ DeleteRefused(p)
  PROVE  MInv'
<1>1. CASE StopTerm(p)
  BY <1>1, Plain DEF MInv, Funs, NoneReadied, Ready, StopTerm, store, hist
<1>2. CASE StopKill(p)
  BY <1>2, LeaveStep DEF StopKill, store, hist
<1>3. CASE StopDone(p) \/ RateSave(p) \/ DeleteRefused(p)
  <2>1. acked' = acked /\ told' = told
    BY <1>3, PutKeepsAcked
       DEF MInv, Funs, StopDone, RateSave, DeleteRefused, Save, hist
  <2> QED BY <1>3, <2>1, LeaveStep DEF StopDone, RateSave, DeleteRefused, Leave
<1>4. CASE StopGivesUp(p)
  BY <1>4, LeaveStep DEF StopGivesUp, Leave, store, hist
<1>5. CASE DeleteDone(p)
  BY <1>5, LeaveStep DEF DeleteDone, Delete, Leave, store, hist
<1> QED BY <1>1, <1>2, <1>3, <1>4, <1>5

LEMMA OutsideSteps ==
  ASSUME MInv, NEW p \in Procs, Interrupt(p) \/ Kill(p) \/ ProviderExits(p)
  PROVE  MInv'
<1>1. CASE Kill(p)
  BY <1>1, LeaveStep DEF Kill, Leave, store, hist
<1>2. CASE Interrupt(p) \/ ProviderExits(p)
  BY <1>2, Plain
     DEF MInv, Funs, NoneReadied, Ready, Interrupt, ProviderExits, store, priv, hist
<1> QED BY <1>1, <1>2

LEMMA SendStep ==
  ASSUME MInv, NEW i \in Ids, NEW m \in Msgs, Send(i, m) PROVE MInv'
BY Plain DEF MInv, Funs, NoneReadied, Ready, Send, Enqueue, priv, hist

LEMMA MInvStep == ASSUME MInv, [Next]_vars PROVE MInv'
<1>1. CASE UNCHANGED vars
  BY <1>1 DEF vars, MInv, Funs, SnapTold, AckedWasTold, Ready
<1>2. ASSUME NEW p \in Procs, NEW i \in Ids,
             \/ \E c \in Commands : StartFinds(p, c, i) \/ Resume(p, c, i)
             \/ Wait(p, i) \/ Stop(p, i) \/ Rate(p, i) \/ DeleteCmd(p, i)
      PROVE  MInv'
  BY <1>2, OpenStep DEF StartFinds, Resume, Wait, Stop, Rate, DeleteCmd
<1>3. ASSUME NEW p \in Procs, TurnStep(p) PROVE MInv'
  BY <1>3, ProviderSteps, EndTurnStep, FinishResumeStep, ReportSteps DEF TurnStep
<1> QED
  BY <1>1, <1>2, <1>3, StartSteps, ReleaseSteps, ResumeSteps, LaunchSteps, WorkerSteps, WaitSteps,
     CommandSteps, OutsideSteps, SendStep
  DEF Next

LEMMA InitMInv == Init => MInv
BY DEF Init, MInv, Funs, Fun, SnapTold, Ready, AckedWasTold

\* A queued message is acknowledged only if a turn that was told it, on this
\* session, succeeded, whatever other commands run at once.
THEOREM AckedWereTold == Spec => []AckedWasTold
<1>1. MInv => AckedWasTold BY DEF MInv
<1> QED BY InitMInv, MInvStep, <1>1, PTL DEF Spec

-----------------------------------------------------------------------------
(* Types, and what a process holds where. *)

PrivOK ==
  /\ pc \in [Procs -> Location]
  /\ sess \in [Procs -> [id : Ids, rec : Record] \cup {None}]
  /\ cur \in [Procs -> Record \cup {None}]
  /\ carried \in [Procs -> SUBSET Msgs]
  /\ snap \in [Procs -> SUBSET Msgs]
  /\ out \in [Procs -> {"completed", "failed", "stopped", None}]
  /\ known \in [Procs -> SUBSET Procs]
OsOK ==
  /\ cmd \in [Procs -> Commands \cup {"startw", "resumew", None}]
  /\ boss \in [Procs -> Pid]
  /\ child \subseteq Procs /\ sig \subseteq Procs
HistOK == told \in [Ids -> SUBSET Msgs] /\ outcome \in [Ids -> Status \cup {None}]

Held ==
  \A p \in Procs :
    /\ pc[p] \notin {"new", "gone"} => sess[p] # None
    /\ pc[p] \in {"release", "reserve"} => cmd[p] \in {"start", "startd"}
    /\ pc[p] \in {"observe", "event", "wrapup"} => cur[p] # None
    /\ pc[p] = "launch" /\ cmd[p] # "startd" => cur[p] # None
    /\ pc[p] \in {"report", "wrap", "wrapup"} => out[p] # None

\* What Put, the Save of a record, does to the registry.
LEMMA PutSets ==
  ASSUME RegistryTypeOK, NEW i \in Ids, NEW r \in Record, Put(i, r)
  PROVE  /\ RegistryTypeOK' /\ archive' = archive
         /\ file'[i] \in Record /\ file'[i].name = r.name /\ file'[i].meta = r.meta
         /\ \A j \in Ids \ {i} : file'[j] = file[j]
<1> USE NoneAssumption DEF RegistryTypeOK
<1>1. CASE file[i] # None
  <2>1. Rewrite(i, r.name, r.meta, {}) BY <1>1 DEF Put
  <2>2. file[i].pending \subseteq Msgs BY <1>1 DEF Record
  <2>3. [name |-> r.name, meta |-> r.meta, pending |-> file[i].pending \ {}] \in Record
    BY <2>2 DEF Record
  <2>4. file' = [file EXCEPT ![i] = [name |-> r.name, meta |-> r.meta,
                                     pending |-> file[i].pending \ {}]]
    BY <2>1 DEF Rewrite
  <2>5. acked' \in [Ids -> SUBSET Msgs]
    BY <2>1, <2>2 DEF Rewrite
  <2> QED BY <2>1, <2>3, <2>4, <2>5 DEF Rewrite
<1>2. CASE file[i] = None
  BY <1>2 DEF Put, Revive
<1> QED BY <1>1, <1>2

LEMMA MetaIn ==
  ASSUME NEW r \in Record, NEW x \in Meta
  PROVE  /\ [r EXCEPT !.meta = x] \in Record
         /\ [r EXCEPT !.meta = x].name = r.name /\ [r EXCEPT !.meta = x].meta = x
         /\ [r EXCEPT !.meta = x].pending = r.pending
BY DEF Record

LEMMA MetaEdits ==
  ASSUME NEW x \in Meta, NEW s \in Status, NEW p \in Pid, NEW w \in Pid
  PROVE /\ [x EXCEPT !.status = s] \in Meta
        /\ [x EXCEPT !.status = s, !.proc = p] \in Meta
        /\ [x EXCEPT !.status = s, !.proc = p, !.worker = w] \in Meta
        /\ [x EXCEPT !.status = s, !.proc = p, !.prov = w] \in Meta
        /\ [x EXCEPT !.prov = p] \in Meta
<1>1. [x EXCEPT !.status = s] \in Meta BY DEF Meta
<1>2. [x EXCEPT !.status = s, !.proc = p] \in Meta BY DEF Meta
<1>3. [x EXCEPT !.status = s, !.proc = p, !.worker = w] \in Meta BY DEF Meta
<1>4. [x EXCEPT !.status = s, !.proc = p, !.prov = w] \in Meta BY DEF Meta
<1>5. [x EXCEPT !.prov = p] \in Meta BY DEF Meta
<1> QED BY <1>1, <1>2, <1>3, <1>4, <1>5

\* The fields that a resume saves at its end.
LEMMA TurnDoneIn ==
  ASSUME NEW x \in Meta, NEW s \in BOOLEAN
  PROVE  /\ TurnDone(x, s) \in Meta
         /\ TurnDone(x, s).status = "completed" /\ TurnDone(x, s).proc = None
         /\ TurnDone(x, s).turn = x.turn + 1 /\ TurnDone(x, s).worker = x.worker
         /\ TurnDone(x, s).psid = (x.psid \/ s)
<1>1. x.turn \in Nat /\ x.turn + 1 \in Nat /\ (x.psid \/ s) \in BOOLEAN
      /\ "completed" \in Status /\ None \in Pid
  BY DEF Meta, Status, Pid
<1> DEFINE b == x.psid \/ s
           y == [x EXCEPT !.status = "completed", !.proc = None, !.turn = @ + 1, !.psid = b]
<1>2. TurnDone(x, s) = y BY DEF TurnDone
<1>3. b \in BOOLEAN BY <1>1
<1> HIDE DEF b
<1>4. /\ y \in Meta /\ y.status = "completed" /\ y.proc = None
      /\ y.turn = x.turn + 1 /\ y.worker = x.worker /\ y.psid = b
  BY <1>1, <1>3 DEF Meta
<1> HIDE DEF y
<1> QED BY <1>2, <1>4 DEF b

LEMMA TurnLostIn ==
  ASSUME NEW x \in Meta, NEW o \in Status, NEW s \in BOOLEAN
  PROVE  /\ TurnLost(x, o, s) \in Meta
         /\ TurnLost(x, o, s).status = o /\ TurnLost(x, o, s).proc = None
         /\ TurnLost(x, o, s).turn = x.turn /\ TurnLost(x, o, s).worker = x.worker
         /\ TurnLost(x, o, s).psid = (x.psid \/ s)
<1> DEFINE b == x.psid \/ s
           v == IF o = "stopped" THEN None ELSE x.prov
           y == [x EXCEPT !.status = o, !.proc = None, !.prov = v, !.psid = b]
<1>1. TurnLost(x, o, s) = y BY DEF TurnLost
<1>2. b \in BOOLEAN /\ v \in Pid /\ None \in Pid BY DEF Meta, Pid
<1> HIDE DEF b, v
<1>3. /\ y \in Meta /\ y.status = o /\ y.proc = None
      /\ y.turn = x.turn /\ y.worker = x.worker /\ y.psid = b
  BY <1>2 DEF Meta
<1> HIDE DEF y
<1> QED BY <1>1, <1>3 DEF b

-----------------------------------------------------------------------------
(* What the actions have in common. *)

\* Steps that end processes.
Ends(p) ==
  \/ \E c \in Commands, n \in Names : StartRefused(p, c, n)
  \/ ReleaseFails(p) \/ ResumeRefused(p) \/ (SnapshotFails(p) /\ ~ IsWorker(p)) \/ LaunchFails(p)
  \/ \E w \in Procs : RegisterFails(p, w)
  \/ Watch(p) \/ PollFails(p) \/ Exit(p) \/ WaitReturns(p) \/ WaitLost(p) \/ Condemn(p)
  \/ StopKill(p) \/ StopDone(p) \/ StopGivesUp(p) \/ RateSave(p) \/ DeleteDone(p)
  \/ DeleteRefused(p) \/ Kill(p)

\* Steps that begin with the record of a session.
Opens(p) ==
  \E i \in Ids : \/ \E c \in Commands : StartFinds(p, c, i) \/ Resume(p, c, i)
                 \/ Wait(p, i) \/ Stop(p, i) \/ Rate(p, i) \/ DeleteCmd(p, i)

\* Steps that write nothing to the registry.
Reads(p) ==
  \/ \E c \in Commands, n \in Names : StartRefused(p, c, n)
  \/ Opens(p)
  \/ ReleaseFails(p) \/ ResumeRefused(p) \/ Snapshot(p) \/ SnapshotFails(p)
  \/ \E w \in Procs : Launch(p, w) \/ RegisterFails(p, w)
  \/ Watch(p) \/ Poll(p) \/ PollFails(p) \/ Reread(p)
  \/ Spawn(p) \/ SpawnFails(p) \/ ReadEvent(p)
  \/ \E o \in {"completed", "failed", "stopped"} : EndTurn(p, o)
  \/ Wrap(p) \/ Exit(p)
  \/ \E i \in Ids : WaitFind(p, i)
  \/ WaitScan(p) \/ WaitAgain(p) \/ WaitCondemns(p) \/ WaitReturns(p) \/ WaitLost(p)
  \/ StopTerm(p) \/ StopKill(p) \/ StopGivesUp(p)
  \/ Interrupt(p) \/ Kill(p) \/ ProviderExits(p)

LEMMA ReadsFrame == ASSUME NEW p \in Procs, Reads(p) PROVE UNCHANGED store
<1>1. CASE (\E c \in Commands, n \in Names : StartRefused(p, c, n)) \/ Opens(p)
  BY <1>1 DEF Opens, StartRefused, StartFinds, Resume, Wait, Stop, Rate, DeleteCmd, Open
<1>2. CASE \/ ReleaseFails(p) \/ ResumeRefused(p) \/ Snapshot(p) \/ SnapshotFails(p)
           \/ \E w \in Procs : Launch(p, w) \/ RegisterFails(p, w)
           \/ Watch(p) \/ Poll(p) \/ PollFails(p) \/ Reread(p)
  BY <1>2 DEF ReleaseFails, ResumeRefused, Snapshot, SnapshotFails, Launch, RegisterFails,
              Watch, Poll, PollFails, Reread
<1>3. CASE \/ Spawn(p) \/ SpawnFails(p) \/ ReadEvent(p)
           \/ \E o \in {"completed", "failed", "stopped"} : EndTurn(p, o)
           \/ Wrap(p) \/ Exit(p)
  BY <1>3 DEF Spawn, SpawnFails, ReadEvent, EndTurn, Wrap, Exit
<1>4. CASE \/ \E i \in Ids : WaitFind(p, i)
           \/ WaitScan(p) \/ WaitAgain(p) \/ WaitCondemns(p) \/ WaitReturns(p)
           \/ WaitLost(p) \/ StopTerm(p) \/ StopKill(p) \/ StopGivesUp(p)
           \/ Interrupt(p) \/ Kill(p) \/ ProviderExits(p)
  BY <1>4 DEF WaitFind, WaitScan, WaitAgain, WaitCondemns, WaitReturns, WaitLost,
              StopTerm, StopKill, StopGivesUp, Interrupt, Kill, ProviderExits
<1> QED BY <1>1, <1>2, <1>3, <1>4 DEF Reads

\* Steps that save a record under the ID of the process, or under j.
Saves(p) ==
  \/ Release(p) \/ ResumeChecked(p) \/ Claim(p) \/ LaunchFails(p)
  \/ \E w \in Procs : Register(p, w)
  \/ Observe(p) \/ SaveEvent(p) \/ \E j \in Ids : FinishStart(p, j)
  \/ FailStart(p) \/ FailResume(p) \/ WrapUp(p) \/ Condemn(p) \/ StopDone(p)
  \/ RateSave(p) \/ DeleteRefused(p)

LEMMA NextSplit ==
  ASSUME [Next]_vars
  PROVE  \/ UNCHANGED vars
         \/ \E p \in Procs :
              \/ Reads(p) \/ Saves(p)
              \/ \E c \in Commands, n \in Names, i \in Ids : Start(p, c, i, n)
              \/ \E i \in Ids : Reserve(p, i)
              \/ FinishResume(p) \/ DropReserved(p) \/ DeleteDone(p)
         \/ \E i \in Ids, m \in Msgs : Send(i, m)
BY DEF Next, TurnStep, WaitStep, Reads, Saves, Opens

-----------------------------------------------------------------------------
(* Types. *)

TInv == RegistryTypeOK /\ PrivOK /\ OsOK /\ HistOK /\ Held

LEMMA SessIn ==
  ASSUME TInv, NEW p \in Procs, pc[p] \notin {"new", "gone"}
  PROVE  /\ sess[p] \in [id : Ids, rec : Record] /\ Id(p) \in Ids
         /\ sess[p].rec \in Record /\ MetaOf(p) \in Meta
         /\ sess[p].rec.name \in AllNames /\ p \in Pid /\ None \in Pid
BY NoneAssumption DEF TInv, PrivOK, Held, Id, MetaOf, Record, Pid

LEMMA InitialIn ==
  ASSUME TInv, NEW p \in Procs, pc[p] \notin {"new", "gone"}
  PROVE  InitialSession(p) \in Record
BY SessIn DEF InitialSession, Record, Meta, Status

LEMMA FileIn ==
  ASSUME TInv, NEW i \in Ids, file[i] # None
  PROVE  file[i] \in Record /\ file[i].meta \in Meta /\ file[i].name \in AllNames
BY NoneAssumption DEF TInv, RegistryTypeOK, Record

LEMMA CurIn ==
  ASSUME TInv, NEW p \in Procs, cur[p] # None
  PROVE  cur[p] \in Record /\ cur[p].meta \in Meta
BY DEF TInv, PrivOK, Record

\* What replacing the record that a process holds does.
LEMMA RecSet ==
  ASSUME NEW p, sess[p] \in [id : Ids, rec : Record], NEW v
  PROVE  [sess EXCEPT ![p].rec = v] = [sess EXCEPT ![p] = [id |-> Id(p), rec |-> v]]
<1>1. [sess[p] EXCEPT !.rec = v] = [id |-> Id(p), rec |-> v]
  BY DEF Id
<1> QED BY <1>1

\* Some copy of session i says that it has no provider session.
Bare(i) ==
  \/ file[i] # None /\ ~ file[i].meta.psid
  \/ \E p \in Procs : sess[p] # None /\ Id(p) = i /\ ~ MetaOf(p).psid
  \/ \E p \in Procs : cur[p] # None /\ Id(p) = i /\ ~ cur[p].meta.psid

\* Whose name, whose process and whose provider session the record r has that
\* p saves under ID i.
NameFrom(p, i, r) ==
  \/ /\ i = Id(p)
     /\ \/ r.name = sess[p].rec.name
        \/ At(p, "release") /\ r.name = Aside(i)
        \/ cur[p] # None /\ r.name = cur[p].name
        \/ file[i] # None /\ r.name = file[i].name
  \/ Fresh(i) /\ r.name = sess[p].rec.name /\ At(p, "report") /\ cmd[p] = "start"
ProcFrom(p, r) ==
  \/ r.meta.proc \in {None, MetaOf(p).proc}
  \/ cur[p] # None /\ r.meta.proc = cur[p].meta.proc
  \/ file[Id(p)] # None /\ r.meta.proc = file[Id(p)].meta.proc
  \/ cmd[p] = "resume" /\ r.meta.proc = p
  \/ \E w \in Procs : r.meta.proc = w /\ boss[w] = p /\ Register(p, w)
PsidFrom(p, i, r) == r.meta.psid \/ Fresh(i) \/ (i = Id(p) /\ (IsStart(p) \/ Bare(i)))
Saved(p) ==
  \E i \in Ids, r \in Record :
    Put(i, r) /\ NameFrom(p, i, r) /\ ProcFrom(p, r) /\ PsidFrom(p, i, r)

LEMMA CopiesBare ==
  ASSUME TInv, NEW p \in Procs, pc[p] \notin {"new", "gone"}
  PROVE  /\ ~ MetaOf(p).psid => Bare(Id(p))
         /\ cur[p] # None /\ ~ cur[p].meta.psid => Bare(Id(p))
         /\ file[Id(p)] # None /\ ~ file[Id(p)].meta.psid => Bare(Id(p))
<1>1. sess[p] # None BY DEF TInv, Held
<1> QED BY <1>1 DEF Bare

LEMMA SavesAtWork ==
  ASSUME NEW p \in Procs, Saves(p) PROVE pc[p] \notin {"new", "gone"}
<1>1. CASE Release(p) \/ LaunchFails(p) BY <1>1 DEF Release, LaunchFails, At
<1>5. ASSUME NEW w \in Procs, Register(p, w) PROVE pc[p] = "register"
  BY <1>5 DEF Register, At
<1>4. CASE ResumeChecked(p) \/ Claim(p)
  BY <1>4 DEF ResumeChecked, Claim, At
<1>2. CASE \/ Observe(p) \/ SaveEvent(p) \/ \E j \in Ids : FinishStart(p, j)
           \/ FailStart(p) \/ FailResume(p) \/ WrapUp(p)
  BY <1>2 DEF Observe, SaveEvent, FinishStart, FailStart, FailResume, WrapUp, At
<1>3. CASE Condemn(p) \/ StopDone(p) \/ RateSave(p) \/ DeleteRefused(p)
  BY <1>3 DEF Condemn, StopDone, RateSave, DeleteRefused, At
<1> QED BY <1>1, <1>2, <1>3, <1>4, <1>5 DEF Saves

\* Every save writes a record of that kind.
LEMMA SavesRecord ==
  ASSUME TInv, NEW p \in Procs, Saves(p)
  PROVE  UNCHANGED store \/ Saved(p)
<1>1. pc[p] \notin {"new", "gone"}
  BY SavesAtWork
<1>2. /\ Id(p) \in Ids /\ sess[p].rec \in Record /\ MetaOf(p) \in Meta
      /\ p \in Pid /\ None \in Pid /\ sess[p].rec.name \in AllNames
  BY <1>1, SessIn
<1>3. ASSUME NEW x \in Meta, Save(p, x),
             \/ x.proc \in {None, MetaOf(p).proc} \/ (cmd[p] = "resume" /\ x.proc = p)
             \/ \E w \in Procs : x.proc = w /\ boss[w] = p /\ Register(p, w),
             x.psid \/ ~ MetaOf(p).psid
      PROVE  Saved(p)
  <2> DEFINE r == [sess[p].rec EXCEPT !.meta = x]
  <2>1. r \in Record /\ r.name = sess[p].rec.name /\ r.meta = x BY <1>2, <1>3, MetaIn
  <2>2. Put(Id(p), r) BY <1>3 DEF Save
  <2> HIDE DEF r
  <2>3. NameFrom(p, Id(p), r) BY <2>1 DEF NameFrom
  <2>4. ProcFrom(p, r) BY <1>3, <2>1 DEF ProcFrom
  <2>5. PsidFrom(p, Id(p), r) BY <1>1, <1>3, <2>1, CopiesBare DEF PsidFrom
  <2> QED BY <1>2, <2>1, <2>2, <2>3, <2>4, <2>5 DEF Saved
<1>4. {"running", "failed", "stopped", "delete-failed"} \subseteq Status BY DEF Status
<1>5. CASE DeleteRefused(p)
  <2> DEFINE x == [MetaOf(p) EXCEPT !.status = "delete-failed"]
  <2>1. x \in Meta /\ x.proc = MetaOf(p).proc /\ x.psid = MetaOf(p).psid BY <1>2, <1>4 DEF Meta
  <2>2. Save(p, x) BY <1>5 DEF DeleteRefused
  <2> HIDE DEF x
  <2> QED BY <1>3, <2>1, <2>2
<1>6. CASE Condemn(p)
  <2> DEFINE x == [MetaOf(p) EXCEPT !.status = "failed", !.proc = None]
  <2>1. x \in Meta /\ x.proc = None /\ x.psid = MetaOf(p).psid BY <1>2, <1>4 DEF Meta
  <2>2. Save(p, x) BY <1>6 DEF Condemn
  <2> HIDE DEF x
  <2> QED BY <1>3, <2>1, <2>2
<1>7. CASE StopDone(p)
  <2> DEFINE x == [MetaOf(p) EXCEPT !.status = "stopped", !.proc = None, !.prov = None]
  <2>1. x \in Meta /\ x.proc = None /\ x.psid = MetaOf(p).psid BY <1>2, <1>4 DEF Meta
  <2>2. Save(p, x) BY <1>7 DEF StopDone
  <2> HIDE DEF x
  <2> QED BY <1>3, <2>1, <2>2
<1>0. CASE Release(p)
  <2> DEFINE r == [sess[p].rec EXCEPT !.name = Aside(Id(p))]
  <2>1. r \in Record /\ r.name = Aside(Id(p)) /\ r.meta = MetaOf(p)
    BY <1>2 DEF Record, AllNames, MetaOf
  <2>2. Put(Id(p), r) /\ At(p, "release") BY <1>0 DEF Release
  <2> HIDE DEF r
  <2>3. PsidFrom(p, Id(p), r) BY <1>1, <2>1, CopiesBare DEF PsidFrom
  <2> QED BY <1>2, <2>1, <2>2, <2>3 DEF Saved, NameFrom, ProcFrom
<1>8. CASE ResumeChecked(p) \/ Claim(p)
  <2>0. CASE UNCHANGED store BY <2>0
  <2>1. CASE ResumeChecked(p) /\ ~ UNCHANGED store
    <3> DEFINE x == [MetaOf(p) EXCEPT !.status = "failed", !.proc = None]
    <3>1. x \in Meta /\ x.proc = None /\ x.psid = MetaOf(p).psid BY <1>2, <1>4 DEF Meta
    <3>2. Save(p, x) BY <2>1 DEF ResumeChecked, SaveOn
    <3> HIDE DEF x
    <3> QED BY <1>3, <3>1, <3>2
  <2>2. CASE Claim(p) /\ cmd[p] = "resume"
    <3> DEFINE x == [MetaOf(p) EXCEPT !.status = "running", !.proc = p]
    <3>1. x \in Meta /\ x.proc = p /\ x.psid = MetaOf(p).psid BY <1>2, <1>4 DEF Meta
    <3>2. Save(p, x) BY <2>2 DEF Claim, SaveOn
    <3> HIDE DEF x
    <3> QED BY <1>3, <2>2, <3>1, <3>2
  <2>3. CASE Claim(p) /\ cmd[p] # "resume"
    <3> DEFINE x == [MetaOf(p) EXCEPT !.status = "running"]
    <3>1. x \in Meta /\ x.proc = MetaOf(p).proc /\ x.psid = MetaOf(p).psid BY <1>2, <1>4 DEF Meta
    <3>2. Save(p, x) BY <2>3 DEF Claim, SaveOn
    <3> HIDE DEF x
    <3> QED BY <1>3, <3>1, <3>2
  <2> QED BY <1>8, <2>0, <2>1, <2>2, <2>3
<1>9. ASSUME NEW w \in Procs, Register(p, w) PROVE Saved(p)
  <2> DEFINE x == [MetaOf(p) EXCEPT !.status = "running", !.proc = w, !.worker = w]
  <2>1. w \in Pid BY DEF Pid
  <2>2. x \in Meta /\ x.proc = w /\ x.psid = MetaOf(p).psid BY <1>2, <1>4, <2>1 DEF Meta
  <2>3. Save(p, x) /\ boss[w] = p BY <1>9 DEF Register, SaveOn
  <2> HIDE DEF x
  <2> QED BY <1>3, <1>9, <2>2, <2>3
<1>14. CASE RateSave(p) BY <1>2, <1>3, <1>14 DEF RateSave
<1>10. CASE LaunchFails(p)
  <2>1. cmd[p] # "startd" => cur[p] \in Record /\ cur[p] # None
    BY <1>10, CurIn DEF TInv, Held, LaunchFails, At
  <2>2. CASE cmd[p] = "startd"
    <3> DEFINE x == [MetaOf(p) EXCEPT !.status = "failed"]
    <3>1. x \in Meta /\ x.proc = MetaOf(p).proc /\ x.psid = MetaOf(p).psid
      BY <1>2, <1>4 DEF Meta
    <3>2. Save(p, x) BY <1>10, <2>2 DEF LaunchFails
    <3> HIDE DEF x
    <3> QED BY <1>3, <3>1, <3>2
  <2>3. CASE cmd[p] # "startd"
    <3>1. PsidFrom(p, Id(p), cur[p]) BY <1>1, <2>1, <2>3, CopiesBare DEF PsidFrom
    <3> QED BY <1>2, <1>10, <2>1, <2>3, <3>1 DEF LaunchFails, Saved, NameFrom, ProcFrom
  <2> QED BY <2>2, <2>3
<1>11. CASE SaveEvent(p) \/ Observe(p)
  <2>1. cur[p] \in Record /\ cur[p].meta \in Meta /\ cur[p] # None
    BY <1>11, CurIn DEF TInv, Held, SaveEvent, Observe, At
  <2>2. ASSUME NEW r \in Record, Put(Id(p), r), r.name = cur[p].name,
               r.meta.proc = cur[p].meta.proc, r.meta.psid \/ ~ cur[p].meta.psid
        PROVE  Saved(p)
    <3>1. PsidFrom(p, Id(p), r) BY <1>1, <2>1, <2>2, CopiesBare DEF PsidFrom
    <3> QED BY <1>2, <2>1, <2>2, <3>1 DEF Saved, NameFrom, ProcFrom
  <2>3. CASE Observe(p)
    <3> DEFINE r == [cur[p] EXCEPT !.meta.prov = p]
    <3>1. /\ r \in Record /\ r.name = cur[p].name /\ r.meta.proc = cur[p].meta.proc
          /\ r.meta.psid = cur[p].meta.psid
      BY <1>2, <2>1 DEF Record, Meta
    <3>2. Put(Id(p), r) BY <2>3 DEF Observe
    <3> HIDE DEF r
    <3> QED BY <2>2, <3>1, <3>2
  <2>4. CASE SaveEvent(p)
    <3> DEFINE r == [cur[p] EXCEPT !.meta.psid = TRUE]
    <3>1. /\ r \in Record /\ r.name = cur[p].name /\ r.meta.proc = cur[p].meta.proc
          /\ r.meta.psid = TRUE
      BY <1>2, <2>1 DEF Record, Meta
    <3>2. Put(Id(p), r) BY <2>4 DEF SaveEvent
    <3> HIDE DEF r
    <3> QED BY <2>2, <3>1, <3>2
  <2> QED BY <1>11, <2>3, <2>4
<1>12. CASE WrapUp(p) \/ FailResume(p) \/ FailStart(p)
  <2>1. out[p] \in Status
    BY <1>12 DEF WrapUp, FailResume, FailStart, At, TInv, Held, PrivOK, Status
  <2>2. CASE WrapUp(p)
    <3> DEFINE r == [cur[p] EXCEPT !.meta.proc = None, !.meta.status = out[p]]
    <3>1. cur[p] \in Record /\ cur[p] # None
      BY <2>2, CurIn DEF WrapUp, At, TInv, Held
    <3>2. /\ r \in Record /\ r.name = cur[p].name /\ r.meta.proc = None
          /\ r.meta.psid = cur[p].meta.psid
      BY <1>2, <2>1, <3>1 DEF Record, Meta
    <3>3. Put(Id(p), r) BY <2>2 DEF WrapUp
    <3> HIDE DEF r
    <3>4. PsidFrom(p, Id(p), r) BY <1>1, <3>1, <3>2, CopiesBare DEF PsidFrom
    <3> QED BY <1>2, <3>1, <3>2, <3>3, <3>4 DEF Saved, NameFrom, ProcFrom
  <2>3. CASE FailResume(p)
    <3>1. PICK b \in BOOLEAN : Save(p, TurnLost(MetaOf(p), out[p], b))
      BY <2>3 DEF FailResume
    <3> DEFINE x == TurnLost(MetaOf(p), out[p], b)
    <3>2. x \in Meta /\ x.proc = None /\ x.psid = (MetaOf(p).psid \/ b)
      BY <1>2, <2>1, TurnLostIn
    <3>3. Save(p, x) BY <3>1
    <3> HIDE DEF x
    <3> QED BY <1>3, <3>2, <3>3
  <2>4. CASE FailStart(p)
    <3> DEFINE r == IF file[Id(p)] # None THEN file[Id(p)] ELSE InitialSession(p)
    <3>1. r \in Record BY <1>1, <1>2, FileIn, InitialIn
    <3>2. r.name = sess[p].rec.name \/ (file[Id(p)] # None /\ r.name = file[Id(p)].name)
      BY DEF InitialSession
    <3>3. CASE UNCHANGED store BY <3>3
    <3>4. ASSUME NEW b \in BOOLEAN, Put(Id(p), [r EXCEPT !.meta = TurnLost(r.meta, out[p], b)])
          PROVE  Saved(p)
      <4> DEFINE x == TurnLost(r.meta, out[p], b)
                 q == [r EXCEPT !.meta = x]
      <4>1. Put(Id(p), q) BY <3>4
      <4> HIDE DEF r
      <4>2. r.meta \in Meta BY <3>1 DEF Record
      <4>3. x \in Meta /\ x.proc = None BY <2>1, <4>2, TurnLostIn
      <4> HIDE DEF x
      <4>4. q \in Record /\ q.name = r.name /\ q.meta.proc = None BY <3>1, <4>3, MetaIn
      <4>5. IsStart(p) BY <2>4 DEF FailStart
      <4> HIDE DEF q
      <4> QED BY <1>2, <3>2, <4>1, <4>4, <4>5 DEF Saved, NameFrom, ProcFrom, PsidFrom
    <3> HIDE DEF r
    <3>5. \/ UNCHANGED store
          \/ \E b \in BOOLEAN : Put(Id(p), [r EXCEPT !.meta = TurnLost(r.meta, out[p], b)])
      BY <2>4 DEF FailStart, Observed, r
    <3> QED BY <3>3, <3>4, <3>5
  <2> QED BY <1>12, <2>2, <2>3, <2>4
<1>13. ASSUME NEW j \in Ids, FinishStart(p, j) PROVE Saved(p)
  <2> DEFINE old == IF file[Id(p)] # None THEN file[Id(p)].meta ELSE InitialSession(p).meta
  <2>1. old \in Meta BY <1>1, <1>2, FileIn, InitialIn DEF Record
  <2>2. old.proc = None \/ (file[Id(p)] # None /\ old.proc = file[Id(p)].meta.proc)
    BY DEF InitialSession
  <2> DEFINE done(b) ==
               [status |-> "completed", prov |-> old.prov, worker |-> None, turn |-> 1,
                psid |-> b,
                proc |-> IF IsWorker(p) THEN old.proc ELSE None,
                caller |-> IF IsWorker(p) THEN old.caller ELSE p]
             r(b) == [name |-> sess[p].rec.name, meta |-> done(b), pending |-> {}]
  <2>3. PICK b \in BOOLEAN : Put(j, r(b)) BY <1>13 DEF FinishStart
  <2>4. done(b) \in Meta BY <1>2, <2>1 DEF Meta, Status
  <2>5. r(b) \in Record /\ r(b).name = sess[p].rec.name /\ r(b).meta.proc \in {None, old.proc}
    BY <1>2, <2>4 DEF Record
  <2>6. /\ IsStart(p)
        /\ j = Id(p) \/ (Fresh(j) /\ At(p, "report") /\ cmd[p] = "start")
    BY <1>13 DEF FinishStart, IsStart, IsWorker
  <2> HIDE DEF r, old
  <2>7. PsidFrom(p, j, r(b)) BY <2>6 DEF PsidFrom
  <2> QED BY <1>2, <2>2, <2>3, <2>5, <2>6, <2>7 DEF Saved, NameFrom, ProcFrom
<1> QED
  BY <1>0, <1>5, <1>6, <1>7, <1>8, <1>9, <1>10, <1>11, <1>12, <1>13, <1>14 DEF Saves

\* The record that a start creates.
LEMMA ReservationIn ==
  ASSUME NEW p \in Procs, NEW c, NEW n \in AllNames
  PROVE  /\ Reservation(p, c) \in Meta
         /\ [name |-> n, meta |-> Reservation(p, c), pending |-> {}] \in Record
<1>1. Reservation(p, c) \in Meta BY DEF Reservation, Meta, Status, Pid
<1> QED BY <1>1 DEF Record

LEMMA EnterSets ==
  ASSUME TInv, NEW p \in Procs, NEW c, NEW i \in Ids, NEW n \in AllNames, Enter(p, c, i, n)
  PROVE  /\ RegistryTypeOK' /\ file[i] = None /\ archive' = archive
         /\ file'[i] \in Record /\ file'[i].name = n /\ file'[i].meta = Reservation(p, c)
         /\ file'[i].pending = {}
         /\ \A j \in Ids \ {i} : file'[j] = file[j]
<1> DEFINE r == [name |-> n, meta |-> Reservation(p, c), pending |-> {}]
<1>1. r \in Record /\ r.name = n /\ r.meta = Reservation(p, c) /\ r.pending = {}
  BY ReservationIn
<1>2. Create(i, n, Reservation(p, c)) BY DEF Enter
<1>4. file[i] = None BY DEF Enter, Fresh
<1>3. file' = [file EXCEPT ![i] = r] /\ UNCHANGED <<archive, sent, acked>> BY <1>2 DEF Create
<1> HIDE DEF r
<1> QED BY <1>1, <1>3, <1>4 DEF TInv, RegistryTypeOK

LEMMA RegistryStep == ASSUME TInv, [Next]_vars PROVE RegistryTypeOK'
<1>1. ASSUME UNCHANGED store PROVE RegistryTypeOK'
  BY <1>1 DEF store, TInv, RegistryTypeOK
<1>2. ASSUME NEW i \in Ids, NEW r \in Record, Put(i, r) PROVE RegistryTypeOK'
  BY <1>2, PutSets DEF TInv
<1>3. ASSUME NEW p \in Procs, Reads(p) \/ Saves(p) PROVE RegistryTypeOK'
  BY <1>1, <1>2, <1>3, ReadsFrame, SavesRecord DEF Saved
<1>4. ASSUME NEW p \in Procs, NEW c, NEW n \in Names, NEW i \in Ids, Start(p, c, i, n)
      PROVE  RegistryTypeOK'
  BY <1>4, EnterSets DEF Start, AllNames
<1>9. ASSUME NEW p \in Procs, NEW i \in Ids, Reserve(p, i) PROVE RegistryTypeOK'
  <2>1. sess[p].rec.name \in AllNames BY <1>9, SessIn DEF Reserve, At
  <2> QED BY <1>9, <2>1, EnterSets DEF Reserve
<1>5. ASSUME NEW p \in Procs, FinishResume(p) PROVE RegistryTypeOK'
  <2>1. CASE file[Id(p)] = None
    BY <1>1, <1>5, <2>1 DEF FinishResume
  <2>2. CASE file[Id(p)] # None
    <3>0. PICK b \in BOOLEAN : Rewrite(Id(p), sess[p].rec.name, TurnDone(MetaOf(p), b), snap[p])
      BY <1>5, <2>2 DEF FinishResume
    <3> DEFINE x == TurnDone(MetaOf(p), b)
               r == [name |-> sess[p].rec.name, meta |-> x,
                     pending |-> file[Id(p)].pending \ snap[p]]
    <3>1. Rewrite(Id(p), sess[p].rec.name, x, snap[p]) BY <3>0
    <3>2. /\ Id(p) \in Ids /\ MetaOf(p) \in Meta /\ sess[p].rec.name \in AllNames
      BY <1>5, SessIn DEF FinishResume, At
    <3>3. x \in Meta BY <3>2, TurnDoneIn
    <3> HIDE DEF x
    <3>4. file[Id(p)].pending \subseteq Msgs
      BY <2>2, <3>2, FileIn DEF Record
    <3>5. r \in Record BY <3>2, <3>3, <3>4 DEF Record
    <3>6. file' = [file EXCEPT ![Id(p)] = r] BY <3>1 DEF Rewrite
    <3>7. acked' \in [Ids -> SUBSET Msgs]
      BY <3>1, <3>2, <3>4 DEF Rewrite, TInv, RegistryTypeOK
    <3> HIDE DEF r
    <3> QED BY <3>1, <3>2, <3>5, <3>6, <3>7 DEF Rewrite, TInv, RegistryTypeOK
  <2> QED BY <2>1, <2>2
<1>6. ASSUME NEW p \in Procs, DropReserved(p) \/ DeleteDone(p) PROVE RegistryTypeOK'
  <2>1. Id(p) \in Ids BY <1>6, SessIn DEF DropReserved, DeleteDone, At
  <2>2. CASE UNCHANGED store BY <1>1, <2>2
  <2>3. CASE Delete(Id(p)) /\ file[Id(p)] # None
    BY <2>1, <2>3, FileIn DEF Delete, TInv, RegistryTypeOK
  <2> QED BY <1>6, <2>2, <2>3 DEF DropReserved, DeleteDone
<1>7. ASSUME NEW i \in Ids, NEW m \in Msgs, Send(i, m) PROVE RegistryTypeOK'
  <2>1. Enqueue(i, m) /\ file[i] # None BY <1>7 DEF Send, Enqueue
  <2>2. [file[i] EXCEPT !.pending = @ \cup {m}] \in Record
    BY <2>1, FileIn DEF Record
  <2> QED BY <2>1, <2>2 DEF Enqueue, TInv, RegistryTypeOK
<1>8. CASE UNCHANGED vars BY <1>1, <1>8 DEF vars, store
<1> QED BY <1>3, <1>4, <1>5, <1>6, <1>7, <1>8, <1>9, NextSplit DEF Commands

LEMMA EndsFrame ==
  ASSUME NEW p \in Procs, Ends(p)
  PROVE  /\ \E S \in SUBSET Procs : LeaveAll(S)
         /\ UNCHANGED <<boss, told, outcome>>
         /\ \/ UNCHANGED cmd
            \/ /\ \E c \in Commands : cmd' = [cmd EXCEPT ![p] = c]
               /\ LeaveAll({p}) /\ At(p, "new")
         /\ child' \subseteq child /\ sig' = sig
<1>1. CASE \E c \in Commands, n \in Names : StartRefused(p, c, n)
  BY <1>1 DEF StartRefused, Begin, Leave, hist
<1>2. CASE ReleaseFails(p) \/ ResumeRefused(p) \/ (SnapshotFails(p) /\ ~ IsWorker(p))
           \/ LaunchFails(p)
           \/ Watch(p) \/ PollFails(p) \/ Exit(p) \/ WaitReturns(p) \/ WaitLost(p)
  BY <1>2 DEF ReleaseFails, ResumeRefused, SnapshotFails, LaunchFails, Watch, PollFails, Exit,
              WaitReturns, WaitLost, Leave, os, hist
<1>3. CASE Condemn(p) \/ StopDone(p) \/ StopGivesUp(p) \/ RateSave(p) \/ DeleteDone(p)
           \/ DeleteRefused(p) \/ Kill(p)
  BY <1>3 DEF Condemn, StopDone, StopGivesUp, RateSave, DeleteDone, DeleteRefused, Kill,
              Leave, os, hist
<1>4. ASSUME NEW w \in Procs, RegisterFails(p, w) PROVE
         /\ LeaveAll({p, w}) /\ UNCHANGED <<cmd, boss, child, sig, told, outcome>>
  BY <1>4 DEF RegisterFails, os, hist
<1>5. CASE StopKill(p)
  <2>1. LeaveAll(known[p] \cap Alive) /\ known[p] \cap Alive \in SUBSET Procs
    BY <1>5 DEF StopKill, Alive
  <2>2. child' \subseteq child BY <1>5 DEF StopKill
  <2> QED BY <1>5, <2>1, <2>2 DEF StopKill, hist
<1> QED BY <1>1, <1>2, <1>3, <1>4, <1>5 DEF Ends

LEMMA EndsTypes ==
  ASSUME TInv, NEW p \in Procs, Ends(p)
  PROVE  PrivOK' /\ OsOK' /\ HistOK' /\ Held'
<1>1. PICK S \in SUBSET Procs : LeaveAll(S) BY EndsFrame
<1>2. PrivOK' BY <1>1 DEF LeaveAll, TInv, PrivOK, Location
<1>3. OsOK'
  BY EndsFrame DEF TInv, OsOK
<1>4. HistOK' BY EndsFrame DEF TInv, HistOK
<1>5. Held'
  <2> SUFFICES ASSUME NEW q \in Procs, q \notin S
      PROVE /\ pc[q]' \notin {"new", "gone"} => sess[q]' # None
            /\ pc[q]' \in {"release", "reserve"} => cmd[q]' \in {"start", "startd"}
            /\ pc[q]' \in {"observe", "event", "wrapup"} => cur[q]' # None
            /\ pc[q]' = "launch" /\ cmd[q]' # "startd" => cur[q]' # None
            /\ pc[q]' \in {"report", "wrap", "wrapup"} => out[q]' # None
    <3>1. \A q \in S : pc'[q] = "gone" BY <1>1 DEF LeaveAll
    <3> QED BY <3>1 DEF Held
  <2>1. pc'[q] = pc[q] /\ sess'[q] = sess[q] /\ cur'[q] = cur[q] /\ out'[q] = out[q]
    BY <1>1 DEF LeaveAll
  <2>2. pc'[q] \in {"launch", "release", "reserve"} => cmd'[q] = cmd[q]
    <3>1. CASE UNCHANGED cmd BY <3>1
    <3>2. CASE LeaveAll({p})
      BY <2>1, <3>2, EndsFrame DEF LeaveAll, TInv, OsOK
    <3> QED BY <3>1, <3>2, EndsFrame
  <2> QED BY <2>1, <2>2 DEF TInv, Held
<1> QED BY <1>2, <1>3, <1>4, <1>5

All == PrivOK /\ OsOK /\ HistOK /\ Held

LEMMA EnterTypes ==
  ASSUME TInv, NEW p \in Procs, NEW c \in Commands, NEW i \in Ids, NEW n \in AllNames,
         Enter(p, c, i, n), cmd' = [cmd EXCEPT ![p] = c] \/ (cmd[p] = c /\ cmd' = cmd),
         UNCHANGED <<boss, child, sig, told, outcome>>, c \in {"start", "startd"}
  PROVE  All'
<1> USE DEF TInv, PrivOK, OsOK, HistOK, Held, Go, At
<1>1. file'[i] \in Record BY EnterSets
<1>2. PrivOK' BY <1>1 DEF Enter, Location
<1>3. OsOK' /\ HistOK' OBVIOUS
<1>4. Held'
  <2>1. sess'[p] # None /\ pc'[p] \in {"spawn", "launch"} /\ (pc'[p] = "launch" => c # "start")
    BY NoneAssumption, <1>1 DEF Enter
  <2>2. cmd'[p] = c /\ \A q \in Procs \ {p} : cmd'[q] = cmd[q] OBVIOUS
  <2>3. \A q \in Procs \ {p} : pc'[q] = pc[q] /\ sess'[q] = sess[q]
    BY DEF Enter
  <2> QED BY <2>1, <2>2, <2>3 DEF Enter
<1> QED BY <1>2, <1>3, <1>4 DEF All

LEMMA BeginTypes ==
  ASSUME TInv, RegistryTypeOK', NEW p \in Procs,
         Opens(p) \/ \E c \in Commands, n \in Names, i \in Ids : Start(p, c, i, n)
  PROVE  All'
<1>1. ASSUME NEW c \in Commands, NEW i \in Ids, NEW l \in Location, Open(p, c, i, l),
             l \in {"release", "check", "scan", "stop", "rate", "delete"},
             l = "release" => c \in {"start", "startd"}
      PROVE  All'
  <2> USE DEF TInv, PrivOK, OsOK, HistOK, Held, Begin, Go, At
  <2>1. file[i] \in Record /\ i \in Ids
    BY <1>1, FileIn DEF Open, Present
  <2>2. PrivOK' BY <1>1, <2>1 DEF Open
  <2>3. OsOK' /\ HistOK' BY <1>1 DEF Open, hist
  <2>4. Held' BY NoneAssumption, <1>1, <2>1 DEF Open
  <2> QED BY <2>2, <2>3, <2>4 DEF All
<1>2. CASE Opens(p)
  <2>1. {"release", "check", "scan", "stop", "rate", "delete"} \subseteq Location
        /\ {"wait", "stop", "rate", "delete"} \subseteq Commands
    BY DEF Location, Commands
  <2> QED BY <1>1, <1>2, <2>1 DEF Opens, StartFinds, Resume, Wait, Stop, Rate, DeleteCmd
<1>3. ASSUME NEW c \in Commands, NEW n \in Names, NEW i \in Ids, Start(p, c, i, n)
      PROVE  All'
  BY <1>3, EnterTypes DEF Start, Begin, AllNames, hist
<1> QED BY <1>2, <1>3

\* A start that takes over the name of a failed one.
LEMMA ReleaseTypes ==
  ASSUME TInv, NEW p \in Procs,
         Release(p) \/ \E i \in Ids : Reserve(p, i)
  PROVE  All'
<1>1. CASE Release(p)
  <2>1. PrivOK' BY <1>1 DEF Release, priv, TInv, PrivOK, Go, Location
  <2>2. OsOK' /\ HistOK' BY <1>1 DEF Release, os, hist, TInv, OsOK, HistOK
  <2>3. Held' BY <1>1 DEF Release, priv, os, TInv, PrivOK, Held, Go, At
  <2> QED BY <2>1, <2>2, <2>3 DEF All
<1>2. ASSUME NEW i \in Ids, Reserve(p, i) PROVE All'
  <2>1. sess[p].rec.name \in AllNames BY <1>2, SessIn DEF Reserve, At
  <2>2. cmd[p] \in {"start", "startd"} /\ cmd[p] \in Commands
    BY <1>2 DEF Reserve, At, TInv, Held, Commands
  <2> QED BY <1>2, <2>1, <2>2, EnterTypes DEF Reserve, os, hist
<1> QED BY <1>1, <1>2

LEMMA ResumeTypes ==
  ASSUME TInv, RegistryTypeOK', NEW p \in Procs,
         \/ ResumeChecked(p) \/ Snapshot(p) \/ (SnapshotFails(p) /\ IsWorker(p))
         \/ Claim(p)
  PROVE  All'
<1> USE DEF Go, At, TInv, PrivOK, OsOK, HistOK, Held
<1>1. pc[p] \notin {"new", "gone"}
  BY DEF ResumeChecked, Snapshot, SnapshotFails, Claim
<1>2. Id(p) \in Ids /\ sess[p] \in [id : Ids, rec : Record] /\ sess[p].rec \in Record
  BY <1>1, SessIn
<1>3. CASE Snapshot(p)
  <2>1. file[Id(p)].pending \subseteq Msgs
    BY <1>2, <1>3, FileIn DEF Snapshot, Record
  <2>2. PrivOK' BY <1>3, <2>1 DEF Snapshot, Location
  <2>3. OsOK' /\ HistOK' BY <1>3 DEF Snapshot, os, hist
  <2>4. Held' BY <1>3 DEF Snapshot, os
  <2> QED BY <2>2, <2>3, <2>4 DEF All
<1>4. CASE SnapshotFails(p) /\ IsWorker(p)
  <2>1. PrivOK' BY <1>4 DEF SnapshotFails, Location
  <2>2. OsOK' /\ HistOK' BY <1>4 DEF SnapshotFails, os, hist
  <2>3. Held' BY NoneAssumption, <1>4 DEF SnapshotFails, os, Status
  <2> QED BY <2>1, <2>2, <2>3 DEF All
<1>5. ASSUME NEW x, SaveOn(p, x), file'[Id(p)] # None
      PROVE  sess' = [sess EXCEPT ![p] = [id |-> Id(p), rec |-> file'[Id(p)]]]
             /\ file'[Id(p)] \in Record
  <2>1. file'[Id(p)] \in Record BY <1>2, <1>5 DEF RegistryTypeOK
  <2> QED BY <1>2, <1>5, <2>1, RecSet DEF SaveOn
<1>6. ASSUME NEW x \in Meta, SaveOn(p, x)
      PROVE  sess' = [sess EXCEPT ![p] = [id |-> Id(p), rec |-> file'[Id(p)]]]
             /\ file'[Id(p)] \in Record
  <2>1. [sess[p].rec EXCEPT !.meta = x] \in Record BY <1>2, MetaIn
  <2>2. file'[Id(p)] \in Record BY <1>2, <1>6, <2>1, PutSets DEF SaveOn, Save
  <2> QED BY <1>5, <1>6, <2>2, NoneAssumption
<1>7. MetaOf(p) \in Meta /\ p \in Pid /\ None \in Pid BY <1>1, SessIn
<1>8. {"failed", "running"} \subseteq Status BY DEF Status
<1>9. CASE ResumeChecked(p)
  <2>1. \/ UNCHANGED sess
        \/ /\ sess' = [sess EXCEPT ![p] = [id |-> Id(p), rec |-> file'[Id(p)]]]
           /\ file'[Id(p)] \in Record
    <3>1. [MetaOf(p) EXCEPT !.status = "failed", !.proc = None] \in Meta
      BY <1>7, <1>8 DEF Meta
    <3> QED BY <1>6, <1>9, <3>1 DEF ResumeChecked
  <2>5. sess' \in [Procs -> [id : Ids, rec : Record] \cup {None}]
    BY <1>2, <2>1
  <2>6. Go(p, "snapshot") /\ UNCHANGED <<cur, carried, snap, out, known>>
    BY <1>9 DEF ResumeChecked
  <2>2. PrivOK' BY <2>5, <2>6 DEF Location
  <2>3. OsOK' /\ HistOK' BY <1>9 DEF ResumeChecked, os, hist
  <2>4. Held' BY NoneAssumption, <1>2, <1>9, <2>1 DEF ResumeChecked, os
  <2> QED BY <2>2, <2>3, <2>4 DEF All
<1>10. CASE Claim(p)
  <2>1. /\ sess' = [sess EXCEPT ![p] = [id |-> Id(p), rec |-> file'[Id(p)]]]
        /\ file'[Id(p)] \in Record
    <3>1. /\ [MetaOf(p) EXCEPT !.status = "running", !.proc = p] \in Meta
          /\ [MetaOf(p) EXCEPT !.status = "running"] \in Meta
      BY <1>7, <1>8 DEF Meta
    <3> QED BY <1>6, <1>10, <3>1 DEF Claim
  <2>2. PrivOK' BY <1>2, <1>10, <2>1 DEF Claim, Location
  <2>3. OsOK' /\ HistOK' BY <1>2, <1>10 DEF Claim, os
  <2>4. Held'
    <3>1. pc'[p] = "launch" => cur'[p] # None
      BY NoneAssumption, <1>2, <1>10 DEF Claim
    <3> QED BY NoneAssumption, <1>2, <1>10, <2>1, <3>1 DEF Claim, os
  <2> QED BY <2>2, <2>3, <2>4 DEF All
<1> QED BY <1>3, <1>4, <1>9, <1>10

LEMMA LaunchTypes ==
  ASSUME TInv, RegistryTypeOK', NEW p \in Procs, NEW w \in Procs,
         Launch(p, w) \/ Register(p, w) \/ Poll(p) \/ Reread(p)
  PROVE  All'
<1> USE DEF Go, At, TInv, PrivOK, OsOK, HistOK, Held
<1>1. pc[p] \notin {"new", "gone"}
  BY DEF Launch, Register, Poll, Reread
<1>2. Id(p) \in Ids /\ sess[p] \in [id : Ids, rec : Record] /\ sess[p].rec \in Record
  BY <1>1, SessIn
<1>3. CASE Launch(p, w)
  <2>1. PrivOK' BY <1>2, <1>3 DEF Launch, Location
  <2>2. OsOK' /\ HistOK' BY <1>3 DEF Launch, hist, Pid
  <2>3. Held' BY NoneAssumption, <1>2, <1>3 DEF Launch
  <2> QED BY <2>1, <2>2, <2>3 DEF All
<1>4. CASE Register(p, w)
  <2>1. [MetaOf(p) EXCEPT !.status = "running", !.proc = w, !.worker = w] \in Meta
    <3>1. MetaOf(p) \in Meta /\ w \in Pid /\ "running" \in Status BY <1>1, SessIn DEF Status, Pid
    <3> QED BY <3>1 DEF Meta
  <2>2. file'[Id(p)] \in Record
    BY <1>2, <1>4, <2>1, MetaIn, PutSets DEF Register, SaveOn, Save
  <2>3. sess' = [sess EXCEPT ![p] = [id |-> Id(p), rec |-> file'[Id(p)]]]
    BY <1>2, <1>4, RecSet DEF Register, SaveOn
  <2>4. PrivOK' BY <1>2, <1>4, <2>2, <2>3 DEF Register, Location
  <2>5. OsOK' /\ HistOK' BY <1>4 DEF Register, os, hist
  <2>6. Held' BY NoneAssumption, <1>2, <1>4, <2>3, <2>2 DEF Register, os
  <2> QED BY <2>4, <2>5, <2>6 DEF All
<1>5. CASE Poll(p)
  <2>1. PrivOK' BY <1>5 DEF Poll, priv, Location
  <2>2. OsOK' /\ HistOK' BY <1>5 DEF Poll, os, hist
  <2>3. Held' BY <1>5 DEF Poll, priv, os
  <2> QED BY <2>1, <2>2, <2>3 DEF All
<1>6. CASE Reread(p)
  <2>1. file[Id(p)] \in Record BY <1>2, <1>6, FileIn DEF Reread
  <2>2. sess' = [sess EXCEPT ![p] = [id |-> Id(p), rec |-> file[Id(p)]]]
    BY <1>2, <1>6, RecSet DEF Reread
  <2>3. PrivOK' BY <1>2, <1>6, <2>1, <2>2 DEF Reread, Location
  <2>4. OsOK' /\ HistOK' BY <1>6 DEF Reread, os, hist
  <2>5. Held' BY NoneAssumption, <1>2, <1>6, <2>2, <2>1 DEF Reread, os
  <2> QED BY <2>3, <2>4, <2>5 DEF All
<1> QED BY <1>3, <1>4, <1>5, <1>6

LEMMA ProviderTypes ==
  ASSUME TInv, RegistryTypeOK', NEW p \in Procs,
         \/ Spawn(p) \/ SpawnFails(p) \/ Observe(p) \/ ReadEvent(p) \/ SaveEvent(p)
         \/ \E o \in {"completed", "failed", "stopped"} : EndTurn(p, o)
  PROVE  All'
<1> USE DEF Go, At, TInv, PrivOK, OsOK, HistOK, Held
<1>1. pc[p] \notin {"new", "gone"}
  BY DEF Spawn, SpawnFails, Observe, ReadEvent, SaveEvent, EndTurn
<1>2. Id(p) \in Ids /\ sess[p] \in [id : Ids, rec : Record] /\ sess[p].rec \in Record
  BY <1>1, SessIn
<1>3. CASE Spawn(p)
  <2>1. file[Id(p)] \in Record BY <1>2, <1>3, FileIn DEF Spawn
  <2>2. PrivOK' BY <1>3, <2>1 DEF Spawn, Location
  <2>3. OsOK' /\ HistOK' BY <1>3 DEF Spawn, hist
  <2>4. Held' BY NoneAssumption, <1>3, <2>1 DEF Spawn
  <2> QED BY <2>2, <2>3, <2>4 DEF All
<1>4. CASE SpawnFails(p)
  <2>1. PrivOK' BY <1>4 DEF SpawnFails, Location
  <2>2. OsOK' /\ HistOK' BY <1>4 DEF SpawnFails, os, hist
  <2>3. Held' BY NoneAssumption, <1>4 DEF SpawnFails, os, Status
  <2> QED BY <2>1, <2>2, <2>3 DEF All
<1>5. CASE Observe(p)
  <2>1. \/ UNCHANGED sess
        \/ \E r \in Record : sess' = [sess EXCEPT ![p] = [id |-> Id(p), rec |-> r]]
    <3> DEFINE r == [sess[p].rec EXCEPT !.meta.prov = p]
    <3>1. r \in Record BY <1>2, <1>1, SessIn DEF Record, Meta
    <3>2. [sess EXCEPT ![p].rec.meta.prov = p] = [sess EXCEPT ![p] = [id |-> Id(p), rec |-> r]]
      <4>1. [sess EXCEPT ![p].rec.meta.prov = p] = [sess EXCEPT ![p].rec = r] OBVIOUS
      <4> QED BY <1>2, <4>1, RecSet
    <3> QED BY <1>5, <3>1, <3>2 DEF Observe
  <2>2. sess' \in [Procs -> [id : Ids, rec : Record] \cup {None}]
    BY <1>2, <2>1
  <2>3. sess'[p] # None /\ \A q \in Procs \ {p} : sess'[q] = sess[q]
    BY <1>1, <1>2, <2>1, NoneAssumption
  <2>4. PrivOK' BY <1>5, <2>2 DEF Observe, Location
  <2>5. OsOK' /\ HistOK' BY <1>5 DEF Observe, os, hist
  <2>6. Held' BY <1>5, <2>3 DEF Observe, os
  <2> QED BY <2>4, <2>5, <2>6 DEF All
<1>6. CASE ReadEvent(p)
  <2> DEFINE r == IF file[Id(p)] # None THEN file[Id(p)] ELSE InitialSession(p)
  <2>1. r \in Record BY <1>1, <1>2, FileIn, InitialIn
  <2> HIDE DEF r
  <2>2. cur' = [cur EXCEPT ![p] = r] BY <1>6 DEF ReadEvent, r
  <2>3. PrivOK' BY <1>6, <2>1, <2>2 DEF ReadEvent, Location
  <2>4. OsOK' /\ HistOK' BY <1>6 DEF ReadEvent, os, hist
  <2>5. Held' BY NoneAssumption, <1>6, <2>1, <2>2 DEF ReadEvent, os
  <2> QED BY <2>3, <2>4, <2>5 DEF All
<1>7. CASE SaveEvent(p)
  <2>1. PrivOK' BY <1>7 DEF SaveEvent, Location
  <2>2. OsOK' /\ HistOK' BY <1>7 DEF SaveEvent, os, hist
  <2>3. Held' BY <1>7 DEF SaveEvent, os
  <2> QED BY <2>1, <2>2, <2>3 DEF All
<1>8. ASSUME NEW o \in {"completed", "failed", "stopped"}, EndTurn(p, o) PROVE All'
  <2>1. PrivOK' BY <1>8 DEF EndTurn, Location
  <2>2. OsOK' /\ HistOK' BY <1>2, <1>8 DEF EndTurn
  <2>3. Held' BY NoneAssumption, <1>8 DEF EndTurn, Status
  <2> QED BY <2>1, <2>2, <2>3 DEF All
<1> QED BY <1>3, <1>4, <1>5, <1>6, <1>7, <1>8

LEMMA ReportTypes ==
  ASSUME TInv, RegistryTypeOK', NEW p \in Procs,
         \/ \E j \in Ids : FinishStart(p, j)
         \/ DropReserved(p) \/ FailStart(p) \/ FinishResume(p) \/ FailResume(p)
         \/ Wrap(p) \/ WrapUp(p)
  PROVE  All'
<1> USE DEF Go, At, TInv, PrivOK, OsOK, HistOK, Held
<1>1. pc[p] \notin {"new", "gone"}
  BY DEF FinishStart, DropReserved, FailStart, FinishResume, FailResume, Wrap, WrapUp
<1>2. Id(p) \in Ids
  BY <1>1, SessIn
<1>3. CASE (\E j \in Ids : FinishStart(p, j)) \/ DropReserved(p)
  <2>1. PrivOK' BY <1>3 DEF FinishStart, DropReserved, priv, Location
  <2>2. OsOK' BY <1>3 DEF FinishStart, DropReserved, os
  <2>3. HistOK' BY <1>3 DEF FinishStart, DropReserved, hist, Status
  <2>4. Held' BY <1>3 DEF FinishStart, DropReserved, priv, os
  <2> QED BY <2>1, <2>2, <2>3, <2>4 DEF All
<1>4. CASE FailStart(p) \/ FailResume(p) \/ WrapUp(p)
  <2>1. PrivOK' BY <1>4 DEF FailStart, FailResume, WrapUp, priv, Location
  <2>2. OsOK' BY <1>4 DEF FailStart, FailResume, WrapUp, os
  <2>3. out[p] \in Status BY <1>4 DEF FailStart, FailResume, WrapUp, Status
  <2>4. HistOK' BY <1>2, <1>4, <2>3 DEF FailStart, FailResume, WrapUp
  <2>5. Held' BY <1>4 DEF FailStart, FailResume, WrapUp, priv, os
  <2> QED BY <2>1, <2>2, <2>4, <2>5 DEF All
<1>5. CASE FinishResume(p)
  <2>1. PrivOK' BY <1>5 DEF FinishResume, Location
  <2>2. OsOK' BY <1>5 DEF FinishResume, os
  <2>3. HistOK' BY <1>2, <1>5 DEF FinishResume, Status
  <2>4. Held' BY NoneAssumption, <1>5 DEF FinishResume, os, Status
  <2> QED BY <2>1, <2>2, <2>3, <2>4 DEF All
<1>6. CASE Wrap(p)
  <2>1. file[Id(p)] \in Record \cup {None} BY <1>2 DEF RegistryTypeOK
  <2>2. PrivOK' BY <1>6, <2>1 DEF Wrap, Location
  <2>3. OsOK' /\ HistOK' BY <1>6 DEF Wrap, os, hist
  <2>4. Held' BY <1>6, <2>1 DEF Wrap, os
  <2> QED BY <2>2, <2>3, <2>4 DEF All
<1> QED BY <1>3, <1>4, <1>5, <1>6

LEMMA OtherTypes ==
  ASSUME TInv, NEW p \in Procs,
         \/ \E i \in Ids : WaitFind(p, i)
         \/ WaitScan(p) \/ WaitAgain(p) \/ WaitCondemns(p)
         \/ StopTerm(p) \/ Interrupt(p) \/ ProviderExits(p)
  PROVE  All'
<1> USE DEF Go, At, TInv, PrivOK, OsOK, HistOK, Held
<1>1. ASSUME NEW i \in Ids, WaitFind(p, i) PROVE All'
  <2>1. file[i] \in Record BY <1>1, FileIn DEF WaitFind
  <2>2. PrivOK' BY <1>1, <2>1 DEF WaitFind, Location
  <2>3. OsOK' /\ HistOK' BY <1>1 DEF WaitFind, os, hist
  <2>4. Held' BY NoneAssumption, <1>1, <2>1 DEF WaitFind, os
  <2> QED BY <2>2, <2>3, <2>4 DEF All
<1>2. CASE WaitScan(p) \/ WaitAgain(p) \/ WaitCondemns(p)
  <2>1. PrivOK' BY <1>2 DEF WaitScan, WaitAgain, WaitCondemns, priv, Location
  <2>2. OsOK' /\ HistOK' BY <1>2 DEF WaitScan, WaitAgain, WaitCondemns, os, hist
  <2>3. Held' BY <1>2 DEF WaitScan, WaitAgain, WaitCondemns, priv, os
  <2> QED BY <2>1, <2>2, <2>3 DEF All
<1>3. CASE StopTerm(p)
  <2>1. Tree(MetaOf(p)) \cup Providers(MetaOf(p)) \subseteq Procs
    BY DEF Tree, Providers, Alive
  <2>2. PrivOK' BY <1>3, <2>1 DEF StopTerm
  <2>3. OsOK' /\ HistOK' BY <1>3, <2>1 DEF StopTerm, hist
  <2>4. Held' BY <1>3 DEF StopTerm
  <2> QED BY <2>2, <2>3, <2>4 DEF All
<1>4. CASE Interrupt(p) \/ ProviderExits(p)
  <2>1. PrivOK' BY <1>4 DEF Interrupt, ProviderExits, priv
  <2>2. OsOK' BY <1>4 DEF Interrupt, ProviderExits, Alive
  <2>3. HistOK' BY <1>4 DEF Interrupt, ProviderExits, hist
  <2>4. Held' BY <1>4 DEF Interrupt, ProviderExits, priv
  <2> QED BY <2>1, <2>2, <2>3, <2>4 DEF All
<1> QED BY <1>1, <1>2, <1>3, <1>4

LEMMA IdleTypes ==
  ASSUME TInv, (\E i \in Ids, m \in Msgs : Send(i, m)) \/ UNCHANGED vars
  PROVE  All'
<1>1. UNCHANGED <<pc, priv, os, hist>> BY DEF Send, vars, priv, os, hist
<1>2. PrivOK' BY <1>1 DEF TInv, PrivOK, priv
<1>3. OsOK' /\ HistOK' BY <1>1 DEF TInv, OsOK, HistOK, os, hist
<1>4. Held' BY <1>1 DEF TInv, Held, priv, os
<1> QED BY <1>2, <1>3, <1>4 DEF All

LEMMA TInvStep == ASSUME TInv, [Next]_vars PROVE TInv'
<1>1. RegistryTypeOK' BY RegistryStep
<1>2. ASSUME NEW p \in Procs, Ends(p) PROVE All'
  BY <1>2, EndsTypes DEF All
<1>3. ASSUME NEW p \in Procs, TurnStep(p) PROVE All'
  BY <1>1, <1>2, <1>3, ProviderTypes, ReportTypes DEF TurnStep, Ends
<1>4. ASSUME NEW p \in Procs, WaitStep(p) PROVE All'
  BY <1>2, <1>4, OtherTypes DEF WaitStep, Ends
<1>5. ASSUME NEW p \in Procs,
             \/ ResumeRefused(p) \/ ResumeChecked(p) \/ Snapshot(p) \/ SnapshotFails(p)
             \/ Claim(p) \/ \E w \in Procs : Launch(p, w) \/ Register(p, w) \/ RegisterFails(p, w)
             \/ LaunchFails(p) \/ Watch(p) \/ Poll(p) \/ PollFails(p) \/ Reread(p)
      PROVE  All'
  BY <1>1, <1>2, <1>5, ResumeTypes, LaunchTypes DEF Ends
<1>6. ASSUME NEW p \in Procs,
             \/ StopTerm(p) \/ StopKill(p) \/ StopDone(p) \/ StopGivesUp(p)
             \/ RateSave(p) \/ DeleteDone(p) \/ DeleteRefused(p)
             \/ Interrupt(p) \/ Kill(p) \/ ProviderExits(p)
      PROVE  All'
  BY <1>2, <1>6, OtherTypes DEF Ends
<1>7. ASSUME NEW p \in Procs,
             \/ \E c \in Commands, n \in Names :
                  (\E i \in Ids : Start(p, c, i, n)) \/ StartRefused(p, c, n)
             \/ Opens(p) \/ Release(p) \/ ReleaseFails(p) \/ \E i \in Ids : Reserve(p, i)
      PROVE  All'
  BY <1>1, <1>2, <1>7, BeginTypes, ReleaseTypes DEF Ends
<1>8. ASSUME (\E i \in Ids, m \in Msgs : Send(i, m)) \/ UNCHANGED vars PROVE All'
  BY <1>8, IdleTypes
<1> QED
  BY <1>1, <1>3, <1>4, <1>5, <1>6, <1>7, <1>8 DEF Next, Opens, All, TInv

LEMMA InitTInv == Init => TInv
<1> SUFFICES ASSUME Init PROVE TInv OBVIOUS
<1> USE DEF Init
<1>1. Idle \in Meta /\ Unborn \in Meta BY DEF Idle, Unborn, Meta, Status, Pid
<1>2. \A n \in Names, x \in {Idle, Unborn} : [name |-> n, meta |-> x, pending |-> {}] \in Record
  BY <1>1 DEF Record, AllNames
<1>3. RegistryTypeOK BY <1>2 DEF RegistryTypeOK
<1>4. PrivOK BY DEF PrivOK, Location
<1>5. OsOK /\ HistOK BY DEF OsOK, HistOK, Pid
<1>6. Held BY DEF Held
<1> QED BY <1>3, <1>4, <1>5, <1>6 DEF TInv

LEMMA TypesRight == TInv => TypeOK
BY DEF TInv, PrivOK, OsOK, HistOK, TypeOK
-----------------------------------------------------------------------------
(* Places, commands, launchers and their workers. *)

Turner(p) == cmd[p] \in {"start", "resume", "startw", "resumew"}

\* The commands that come to a location.
Fits(p) ==
  /\ At(p, "new") <=> cmd[p] = None
  /\ pc[p] \in {"release", "reserve"} => cmd[p] \in {"start", "startd"}
  /\ pc[p] \in {"launch", "register", "watch"} => cmd[p] \in {"startd", "resumed"}
  /\ pc[p] \in {"check", "claim"} => cmd[p] \in {"resume", "resumed"}
  /\ At(p, "snapshot") => cmd[p] \in {"resume", "resumed", "resumew"}
  /\ At(p, "poll") => IsWorker(p)
  /\ At(p, "reread") => cmd[p] = "resumew"
  /\ pc[p] \in {"spawn", "observe", "turn", "report", "exit"} => Turner(p)
  /\ pc[p] \in {"early", "event"} => IsStart(p)
  /\ pc[p] \in {"wrap", "wrapup"} => IsWorker(p)
  /\ At(p, "swap") => cmd[p] = "start"
  /\ pc[p] \in {"find", "scan", "confirm", "condemn"} => cmd[p] = "wait"
  /\ pc[p] \in {"stop", "rate", "delete"} => cmd[p] = pc[p]

Past(p) == pc[p] \in {"watch", "gone"}

\* A worker belongs to the launcher that started it; until that one has
\* recorded it, it polls.
Belongs(w) ==
  /\ boss[w] \in Procs
  /\ cmd[boss[w]] = IF cmd[w] = "startw" THEN "startd" ELSE "resumed"
  /\ pc[boss[w]] \in {"register", "watch", "gone"}
  /\ pc[w] \notin {"poll", "gone"} => Past(boss[w])

Kin ==
  /\ \A p \in Procs : Fits(p)
  /\ \A w \in Procs : (IsWorker(w) => Belongs(w)) /\ (boss[w] # None => IsWorker(w))
  /\ \A v, w \in Procs : IsWorker(v) /\ IsWorker(w) /\ boss[v] = boss[w] => v = w

\* The processes a record may name: it was written for the turn of such a one.
Able == {q \in Procs : Turner(q) /\ (IsWorker(q) => Past(boss[q]))} \cup {None}
FileStarted == \A i \in Ids : file[i] # None => file[i].meta.proc \in Able
SessStarted == \A p \in Procs : sess[p] # None => MetaOf(p).proc \in Able
CurStarted == \A p \in Procs : cur[p] # None => cur[p].meta.proc \in Able
Started == FileStarted /\ SessStarted /\ CurStarted

\* The process of a record that a wait is about to confirm is gone.
Confirmed ==
  \A p \in Procs : At(p, "confirm") /\ MetaOf(p).proc # None => At(MetaOf(p).proc, "gone")

\* Processes only go on from "new", and from "watch" only to the end.
Moves ==
  \A p \in Procs :
    /\ ~ At(p, "new") => cmd'[p] = cmd[p] /\ boss'[p] = boss[p] /\ pc'[p] # "new"
    /\ Past(p) => Past(p)'
    /\ At(p, "gone") => pc'[p] = "gone"

\* How a step ends processes: some that had begun, or one that had not.
Ended(p) ==
  \/ \E S \in SUBSET Procs : /\ LeaveAll(S) /\ UNCHANGED cmd
                             /\ \A q \in S : ~ At(q, "new")
  \/ \E c \in Commands : /\ LeaveAll({p}) /\ At(p, "new")
                         /\ cmd' = [cmd EXCEPT ![p] = c]

LEMMA EndsGone ==
  ASSUME TInv, Kin, NEW p \in Procs, Ends(p)
  PROVE  UNCHANGED boss /\ Ended(p)
<1>1. CASE \E c \in Commands, n \in Names : StartRefused(p, c, n)
  BY <1>1 DEF StartRefused, Begin, Leave, Ended
<1>2. ASSUME NEW S \in SUBSET Procs, LeaveAll(S), UNCHANGED cmd, \A q \in S : ~ At(q, "new")
      PROVE  Ended(p)
  BY <1>2 DEF Ended
<1>3. CASE ReleaseFails(p) \/ ResumeRefused(p) \/ (SnapshotFails(p) /\ ~ IsWorker(p))
           \/ LaunchFails(p) \/ Watch(p) \/ PollFails(p) \/ Exit(p) \/ WaitReturns(p)
           \/ WaitLost(p)
  <2>1. LeaveAll({p}) /\ UNCHANGED <<cmd, boss>> /\ ~ At(p, "new")
    BY <1>3 DEF ReleaseFails, ResumeRefused, SnapshotFails, LaunchFails, Watch, PollFails, Exit,
                WaitReturns, WaitLost, Leave, os, At
  <2> QED BY <1>2, <2>1
<1>4. CASE Condemn(p) \/ StopDone(p) \/ StopGivesUp(p) \/ RateSave(p) \/ DeleteDone(p)
           \/ DeleteRefused(p) \/ Kill(p)
  <2>1. LeaveAll({p}) /\ UNCHANGED <<cmd, boss>> /\ ~ At(p, "new")
    BY <1>4 DEF Condemn, StopDone, StopGivesUp, RateSave, DeleteDone, DeleteRefused,
                Kill, Alive, Leave, os, At
  <2> QED BY <1>2, <2>1
<1>5. ASSUME NEW w \in Procs, RegisterFails(p, w)
      PROVE  UNCHANGED boss /\ Ended(p)
  <2>1. boss[w] # None BY <1>5, TurnAssumption DEF RegisterFails, TurnAssumption
  <2>2. cmd[w] # None BY <2>1, NoneAssumption DEF Kin, IsWorker
  <2>3. LeaveAll({p, w}) /\ UNCHANGED <<cmd, boss>> /\ ~ At(p, "new") /\ ~ At(w, "new")
    BY <1>5, <2>2 DEF RegisterFails, os, Kin, Fits, At
  <2> QED BY <1>2, <2>3
<1>6. CASE StopKill(p)
  <2>1. LeaveAll(known[p] \cap Alive) /\ UNCHANGED <<cmd, boss>>
    BY <1>6 DEF StopKill
  <2>2. known[p] \cap Alive \in SUBSET Procs /\ \A q \in Alive : ~ At(q, "new")
    BY DEF Alive, At
  <2> QED BY <1>2, <2>1, <2>2
<1> QED BY <1>1, <1>3, <1>4, <1>5, <1>6 DEF Ends

LEMMA EndsKin ==
  ASSUME TInv, Kin, NEW p \in Procs, Ends(p)
  PROVE  Kin' /\ Moves
<1> USE DEF TInv, PrivOK, OsOK, At
<1>1. boss' = boss BY EndsGone
<1>2. ASSUME NEW S \in SUBSET Procs, LeaveAll(S), UNCHANGED cmd, \A q \in S : pc[q] # "new"
      PROVE  Kin' /\ Moves
  <2>1. \A q \in Procs : pc'[q] = IF q \in S THEN "gone" ELSE pc[q]
    BY <1>2 DEF LeaveAll
  <2>2. Moves BY <1>1, <1>2, <2>1 DEF Moves, Past
  <2>3. \A q \in Procs : Fits(q)'
    BY <1>2, <2>1 DEF Kin, Fits, IsWorker, IsStart, Turner
  <2>4. \A w \in Procs : IsWorker(w) => Belongs(w)'
    BY <1>1, <1>2, <2>1 DEF Kin, Belongs, Past
  <2> QED BY <1>1, <1>2, <2>2, <2>3, <2>4 DEF Kin, IsWorker
<1>3. ASSUME NEW c \in Commands, LeaveAll({p}), pc[p] = "new", cmd' = [cmd EXCEPT ![p] = c]
      PROVE  Kin' /\ Moves
  <2>1. pc'[p] = "gone" /\ \A q \in Procs \ {p} : pc'[q] = pc[q] /\ cmd'[q] = cmd[q]
    BY <1>3 DEF LeaveAll
  <2>2. Moves BY <1>1, <1>3, <2>1 DEF Moves, Past
  <2>3. \A q \in Procs : Fits(q)'
    BY NoneAssumption, <1>3, <2>1 DEF Kin, Fits, IsWorker, IsStart, Turner
  <2>4. cmd[p] = None /\ ~ IsWorker(p) /\ ~ IsWorker(p)'
    BY NoneAssumption, <1>3, <2>1 DEF Kin, Fits, IsWorker, Commands
  <2>5. \A w \in Procs : IsWorker(w) => boss[w] # p
    BY <1>3 DEF Kin, Belongs
  <2>6. \A w \in Procs : IsWorker(w)' => IsWorker(w) /\ Belongs(w)'
    BY <1>1, <2>1, <2>4, <2>5 DEF Kin, Belongs, Past, IsWorker
  <2>7. \A w \in Procs : IsWorker(w) => IsWorker(w)'
    BY <2>1, <2>4 DEF IsWorker
  <2> QED BY <1>1, <2>2, <2>3, <2>6, <2>7 DEF Kin
<1> QED BY <1>2, <1>3, EndsGone DEF Ended

LEMMA GoesKin ==
  ASSUME TInv, Kin, NEW p \in Procs, NEW l \in Location \ {"new"},
         UNCHANGED <<cmd, boss>>, Go(p, l), Fits(p)',
         pc[p] \notin {"new", "register", "watch", "gone", "poll"}
  PROVE  Kin' /\ Moves
<1> USE DEF TInv, PrivOK, OsOK, At, Go
<1>1. \A q \in Procs \ {p} : pc'[q] = pc[q] OBVIOUS
<1>2. Moves BY <1>1 DEF Moves, Past
<1>3. \A q \in Procs : Fits(q)'
  BY <1>1 DEF Kin, Fits, IsWorker, IsStart, Turner
<1>4. \A w \in Procs : IsWorker(w) => Belongs(w)'
  BY <1>1 DEF Kin, Belongs, Past
<1> QED BY <1>2, <1>3, <1>4 DEF Kin, IsWorker

LEMMA StandsKin ==
  ASSUME Kin, UNCHANGED <<cmd, boss, pc>>
  PROVE  Kin' /\ Moves
<1>1. Kin' BY DEF Kin, Fits, Belongs, Past, IsWorker, IsStart, Turner, At
<1> QED BY <1>1 DEF Kin, Fits, Moves, Past, At

LEMMA BeginKin ==
  ASSUME TInv, Kin, NEW p \in Procs, NEW c \in Commands, NEW l \in Location \ {"new"},
         At(p, "new"), cmd' = [cmd EXCEPT ![p] = c], boss' = boss, Go(p, l), Fits(p)'
  PROVE  Kin' /\ Moves
<1> USE DEF TInv, PrivOK, OsOK, At, Go
<1>1. /\ pc'[p] = l /\ cmd'[p] = c
      /\ \A q \in Procs \ {p} : pc'[q] = pc[q] /\ cmd'[q] = cmd[q]
  OBVIOUS
<1>2. Moves BY <1>1 DEF Moves, Past
<1>3. \A q \in Procs : Fits(q)'
  BY <1>1 DEF Kin, Fits, IsWorker, IsStart, Turner
<1>4. cmd[p] = None /\ ~ IsWorker(p) /\ ~ IsWorker(p)'
  BY NoneAssumption, <1>1 DEF Kin, Fits, IsWorker, Commands
<1>5. \A w \in Procs : IsWorker(w) => boss[w] # p
  BY DEF Kin, Belongs
<1>6. \A w \in Procs : IsWorker(w)' => IsWorker(w) /\ Belongs(w)'
  BY <1>1, <1>4, <1>5 DEF Kin, Belongs, Past, IsWorker
<1>7. \A w \in Procs : IsWorker(w) => IsWorker(w)'
  BY <1>1, <1>4 DEF IsWorker
<1> QED BY <1>2, <1>3, <1>6, <1>7 DEF Kin

LEMMA LaunchKin ==
  ASSUME TInv, Kin, NEW p \in Procs, NEW w \in Procs, Launch(p, w)
  PROVE  Kin' /\ Moves
<1> USE DEF TInv, PrivOK, OsOK, At, Launch
<1>1. /\ p # w /\ pc'[p] = "register" /\ pc'[w] = "poll" /\ cmd'[p] = cmd[p]
      /\ cmd'[w] = IF cmd[p] = "startd" THEN "startw" ELSE "resumew"
      /\ boss'[w] = p /\ boss'[p] = boss[p]
  OBVIOUS
<1>2. \A q \in Procs \ {p, w} : pc'[q] = pc[q] /\ cmd'[q] = cmd[q] /\ boss'[q] = boss[q]
  OBVIOUS
<1>3. cmd[p] \in {"startd", "resumed"} /\ cmd[w] = None
  BY DEF Kin, Fits
<1>4. Moves BY <1>1, <1>2 DEF Moves, Past
<1>5. \A q \in Procs : Fits(q)'
  BY NoneAssumption, <1>1, <1>2, <1>3 DEF Kin, Fits, IsWorker, IsStart, Turner
<1>6. \A q \in Procs : IsWorker(q) => boss[q] \notin {p, w} /\ q \notin {p, w}
  BY NoneAssumption, <1>3 DEF Kin, Belongs, IsWorker
<1>7. \A q \in Procs \ {p, w} : IsWorker(q)' <=> IsWorker(q)
  BY <1>2 DEF IsWorker
<1>8. IsWorker(w)' /\ ~ IsWorker(p)'
  BY <1>1, <1>3 DEF IsWorker
<1>9. \A q \in Procs : IsWorker(q)' => Belongs(q)'
  <2>1. Belongs(w)' BY <1>1, <1>3 DEF Belongs
  <2>2. ASSUME NEW q \in Procs \ {p, w}, IsWorker(q) PROVE Belongs(q)'
    BY <1>1, <1>2, <1>6, <2>2 DEF Kin, Belongs, Past
  <2> QED BY <1>7, <1>8, <2>1, <2>2
<1>10. boss[p] = None \/ IsWorker(p) BY DEF Kin
<1> QED
  BY <1>1, <1>2, <1>4, <1>5, <1>6, <1>7, <1>8, <1>9, <1>10 DEF Kin

LEMMA RegisterKin ==
  ASSUME TInv, Kin, NEW p \in Procs, \E w \in Procs : Register(p, w)
  PROVE  Kin' /\ Moves
<1> USE DEF TInv, PrivOK, OsOK, At, Go
<1>1. UNCHANGED <<cmd, boss>> /\ pc' = [pc EXCEPT ![p] = "watch"] /\ pc[p] = "register"
  BY DEF Register, os
<1>2. Moves BY <1>1 DEF Moves, Past
<1>3. \A q \in Procs : Fits(q)'
  BY <1>1 DEF Kin, Fits, IsWorker, IsStart, Turner
<1>4. \A w \in Procs : IsWorker(w) => Belongs(w)'
  BY <1>1 DEF Kin, Belongs, Past, Fits, IsWorker
<1> QED BY <1>1, <1>2, <1>3, <1>4 DEF Kin, IsWorker

LEMMA PollKin ==
  ASSUME TInv, Kin, Started, NEW p \in Procs, Poll(p)
  PROVE  Kin' /\ Moves
<1> USE DEF TInv, PrivOK, OsOK, At, Go
<1>1. /\ UNCHANGED <<cmd, boss>> /\ pc[p] = "poll" /\ IsWorker(p)
      /\ pc' = [pc EXCEPT ![p] = IF cmd[p] = "startw" THEN "spawn" ELSE "reread"]
  BY DEF Poll, os, Kin, Fits
<1>2. Past(boss[p])
  <2>1. Id(p) \in Ids BY <1>1, SessIn
  <2> QED BY <1>1, <2>1, TurnAssumption DEF Poll, Started, FileStarted, Able, TurnAssumption
<1>3. Moves BY <1>1 DEF Moves, Past
<1>4. \A q \in Procs : Fits(q)'
  BY <1>1 DEF Kin, Fits, IsWorker, IsStart, Turner
<1>5. \A w \in Procs : IsWorker(w) => Belongs(w)'
  BY <1>1, <1>2 DEF Kin, Belongs, Past
<1> QED BY <1>1, <1>3, <1>4, <1>5 DEF Kin, IsWorker

\* Steps of one process from one place of its command to another.
Walks(p) ==
  \/ Release(p) \/ \E i \in Ids : Reserve(p, i)
  \/ ResumeChecked(p) \/ Snapshot(p) \/ (SnapshotFails(p) /\ IsWorker(p)) \/ Claim(p)
  \/ Reread(p) \/ Spawn(p) \/ SpawnFails(p) \/ Observe(p) \/ ReadEvent(p) \/ SaveEvent(p)
  \/ \E o \in {"completed", "failed", "stopped"} : EndTurn(p, o)
  \/ \E j \in Ids : FinishStart(p, j)
  \/ DropReserved(p) \/ FailStart(p) \/ FinishResume(p) \/ FailResume(p)
  \/ Wrap(p) \/ WrapUp(p)
  \/ \E i \in Ids : WaitFind(p, i)
  \/ WaitScan(p) \/ WaitAgain(p) \/ WaitCondemns(p)

\* Steps that leave every process where it is.
Stands ==
  \/ \E p \in Procs : StopTerm(p) \/ Interrupt(p) \/ ProviderExits(p)
  \/ \E i \in Ids, m \in Msgs : Send(i, m)
  \/ UNCHANGED vars

LEMMA WalksKin ==
  ASSUME TInv, Kin, NEW p \in Procs, Walks(p)
  PROVE  Kin' /\ Moves
<1> DEFINE Fine == /\ UNCHANGED <<cmd, boss>> /\ Fits(p)'
                   /\ \E l \in Location \ {"new"} : Go(p, l)
                   /\ pc[p] \notin {"new", "register", "watch", "gone", "poll"}
<1> SUFFICES Fine BY GoesKin
<1>1. pc \in [Procs -> Location] BY DEF TInv, PrivOK
<1>2. Fits(p) BY DEF Kin
<1> USE <1>1, <1>2 DEF Go, At, os, Fits, IsWorker, IsStart, Turner, Location
<1>0. CASE Release(p) \/ \E i \in Ids : Reserve(p, i)
  BY <1>0 DEF Release, Reserve, Enter
<1>3. CASE \/ ResumeChecked(p) \/ Snapshot(p) \/ (SnapshotFails(p) /\ IsWorker(p))
           \/ Claim(p) \/ Reread(p)
  BY <1>3 DEF ResumeChecked, Snapshot, SnapshotFails, Claim, Reread
<1>4. CASE Spawn(p) \/ SpawnFails(p) \/ Observe(p) \/ ReadEvent(p) \/ SaveEvent(p)
  BY <1>4 DEF Spawn, SpawnFails, Observe, ReadEvent, SaveEvent
<1>5. CASE \/ \E o \in {"completed", "failed", "stopped"} : EndTurn(p, o)
           \/ \E j \in Ids : FinishStart(p, j)
           \/ DropReserved(p) \/ FailStart(p)
  BY <1>5 DEF EndTurn, FinishStart, DropReserved, FailStart
<1>6. CASE FinishResume(p) \/ FailResume(p) \/ Wrap(p) \/ WrapUp(p)
  BY <1>6 DEF FinishResume, FailResume, Wrap, WrapUp
<1>7. CASE \/ \E i \in Ids : WaitFind(p, i)
           \/ WaitScan(p) \/ WaitAgain(p) \/ WaitCondemns(p)
  BY <1>7 DEF WaitFind, WaitScan, WaitAgain, WaitCondemns
<1> QED BY <1>0, <1>3, <1>4, <1>5, <1>6, <1>7 DEF Walks

\* A process that a step does not move.
Same(q) == pc'[q] = pc[q] /\ cmd'[q] = cmd[q] /\ sess'[q] = sess[q] /\ cur'[q] = cur[q]

LEMMA WalksOthers ==
  ASSUME TInv, NEW p \in Procs, Walks(p), NEW q \in Procs \ {p} PROVE Same(q)
<1> USE DEF TInv, PrivOK, OsOK, SaveOn, Go, priv, os, Same
<1>0. CASE Release(p) \/ \E i \in Ids : Reserve(p, i)
  BY <1>0 DEF Release, Reserve, Enter
<1>1. CASE \/ ResumeChecked(p) \/ Snapshot(p) \/ (SnapshotFails(p) /\ IsWorker(p)) \/ Claim(p)
           \/ Reread(p) \/ Spawn(p) \/ SpawnFails(p) \/ Observe(p) \/ ReadEvent(p)
  BY <1>1 DEF ResumeChecked, Snapshot, SnapshotFails, Claim, Reread, Spawn, SpawnFails,
              Observe, ReadEvent
<1>2. CASE \/ SaveEvent(p) \/ \E o \in {"completed", "failed", "stopped"} : EndTurn(p, o)
           \/ \E j \in Ids : FinishStart(p, j)
           \/ DropReserved(p) \/ FailStart(p) \/ FinishResume(p) \/ FailResume(p)
           \/ Wrap(p) \/ WrapUp(p)
  BY <1>2 DEF SaveEvent, EndTurn, FinishStart, DropReserved, FailStart, FinishResume,
              FailResume, Wrap, WrapUp
<1>3. CASE \/ \E i \in Ids : WaitFind(p, i)
           \/ WaitScan(p) \/ WaitAgain(p) \/ WaitCondemns(p)
  BY <1>3 DEF WaitFind, WaitScan, WaitAgain, WaitCondemns
<1> QED BY <1>0, <1>1, <1>2, <1>3 DEF Walks

\* The place a command begins at.
LEMMA OpensAt ==
  ASSUME NEW p \in Procs, Opens(p)
  PROVE  \E c \in Commands, i \in Ids,
            l \in {"release", "check", "scan", "stop", "rate", "delete"} :
           /\ Open(p, c, i, l)
           /\ \/ /\ l = "release" /\ c \in {"start", "startd"}
                 /\ file[i].name \in Names /\ Releasable(file[i].meta)
              \/ l = "check" /\ c \in {"resume", "resumed"}
              \/ l = "scan" /\ c = "wait"
              \/ l = c /\ c \in {"stop", "rate", "delete"}
BY DEF Opens, StartFinds, Resume, Wait, Stop, Rate, DeleteCmd, Commands

LEMMA BeginsKin ==
  ASSUME TInv, Kin, NEW p \in Procs,
         Opens(p) \/ \E c \in Commands, n \in Names, i \in Ids : Start(p, c, i, n)
  PROVE  Kin' /\ Moves
<1>1. ASSUME NEW c \in Commands, NEW l \in Location \ {"new"}, Begin(p, c), Go(p, l),
             \/ l = "release" /\ c \in {"start", "startd"}
             \/ l = "check" /\ c \in {"resume", "resumed"}
             \/ l = "scan" /\ c = "wait"
             \/ l = c /\ c \in {"stop", "rate", "delete"}
             \/ l = "spawn" /\ c = "start"
             \/ l = "launch" /\ c = "startd"
      PROVE  Kin' /\ Moves
  <2>1. /\ At(p, "new") /\ cmd' = [cmd EXCEPT ![p] = c] /\ boss' = boss
        /\ pc'[p] = l /\ cmd'[p] = c
    BY <1>1 DEF Begin, Go, TInv, PrivOK, OsOK
  <2>2. Fits(p)'
    BY <1>1, <2>1, NoneAssumption
    DEF Fits, At, Turner, IsStart, IsWorker, Commands
  <2> QED BY <1>1, <2>1, <2>2, BeginKin
<1>2. CASE Opens(p)
  BY <1>1, <1>2, OpensAt DEF Open, Location
<1>3. CASE \E c \in Commands, n \in Names, i \in Ids : Start(p, c, i, n)
  BY <1>1, <1>3 DEF Start, Enter, Location
<1> QED BY <1>2, <1>3

LEMMA StandsAll ==
  ASSUME Stands PROVE UNCHANGED <<pc, cmd, boss, sess, cur, outcome, told>>
BY DEF Stands, StopTerm, Interrupt, ProviderExits, Send, vars, priv, os, hist

\* The steps of the program, sorted.
LEMMA NextSorted ==
  ASSUME [Next]_vars
  PROVE  \/ Stands
         \/ \E p \in Procs :
              \/ Ends(p) \/ Walks(p) \/ Opens(p) \/ Poll(p)
              \/ \E c \in Commands, n \in Names, i \in Ids : Start(p, c, i, n)
              \/ \E w \in Procs : Launch(p, w) \/ Register(p, w)
<1>1. ASSUME NEW p \in Procs, TurnStep(p) PROVE Walks(p) \/ Ends(p)
  BY <1>1 DEF TurnStep, Walks, Ends
<1>2. ASSUME NEW p \in Procs, WaitStep(p) PROVE Walks(p) \/ Ends(p)
  BY <1>2 DEF WaitStep, Walks, Ends
<1> QED BY <1>1, <1>2 DEF Next, Stands, Walks, Ends, Opens

LEMMA KinStep == ASSUME TInv, Kin, Started, [Next]_vars PROVE Kin' /\ Moves
<1>1. CASE Stands BY <1>1, StandsAll, StandsKin
<1> QED BY <1>1, NextSorted, EndsKin, WalksKin, BeginsKin, PollKin, LaunchKin, RegisterKin
-----------------------------------------------------------------------------
(* Where the sessions and records in memory come from. *)

LEMMA AbleGrows == ASSUME TInv, Kin, Moves PROVE Able \subseteq Able'
<1> SUFFICES ASSUME NEW q \in Procs, Turner(q), IsWorker(q) => Past(boss[q])
             PROVE  q \in Able'
  BY DEF Able
<1>1. cmd'[q] = cmd[q] /\ boss'[q] = boss[q]
  BY NoneAssumption DEF Kin, Fits, Turner, Moves, At, Commands
<1>2. IsWorker(q) => Past(boss[q])'
  BY <1>1 DEF Kin, Belongs, Moves
<1>3. IsWorker(q)' => Past(boss[q])' BY <1>1, <1>2 DEF IsWorker
<1>4. Turner(q)' BY <1>1 DEF Turner
<1> QED BY <1>3, <1>4 DEF Able

LEMMA AtWork ==
  ASSUME NEW p \in Procs, Walks(p) PROVE pc[p] \notin {"new", "gone"}
<1>1. CASE Release(p) \/ \E i \in Ids : Reserve(p, i)
  BY <1>1 DEF Release, Reserve, At
<1>2. CASE \/ ResumeChecked(p) \/ Claim(p) \/ Observe(p) \/ SaveEvent(p)
           \/ \E j \in Ids : FinishStart(p, j)
           \/ FailStart(p) \/ FailResume(p) \/ WrapUp(p)
  BY <1>2, SavesAtWork DEF Saves
<1>3. CASE \/ Snapshot(p) \/ (SnapshotFails(p) /\ IsWorker(p)) \/ Reread(p) \/ Spawn(p)
           \/ SpawnFails(p) \/ ReadEvent(p)
           \/ \E o \in {"completed", "failed", "stopped"} : EndTurn(p, o)
           \/ DropReserved(p) \/ FinishResume(p) \/ Wrap(p)
  BY <1>3 DEF Snapshot, SnapshotFails, Reread, Spawn, SpawnFails, ReadEvent, EndTurn,
              DropReserved, FinishResume, Wrap, At
<1>4. CASE \/ \E i \in Ids : WaitFind(p, i)
           \/ WaitScan(p) \/ WaitAgain(p) \/ WaitCondemns(p)
  BY <1>4 DEF WaitFind, WaitScan, WaitAgain, WaitCondemns, At
<1> QED BY <1>1, <1>2, <1>3, <1>4 DEF Walks

\* Where the session comes from that a process has after a step: another
\* process had it, or it is a stored record.
SessOld(q, o) ==
  /\ sess[o] # None /\ sess'[q].id = Id(o)
  /\ sess'[q].rec.name = sess[o].rec.name
  /\ LET x == sess'[q].rec.meta
         y == MetaOf(o)
     IN  /\ x.status = y.status /\ x.proc = y.proc /\ x.worker = y.worker
         /\ x.turn = y.turn /\ x.psid = y.psid
SessFile(q) == file[sess'[q].id] # None /\ sess'[q].rec = file[sess'[q].id]
SessNew(q)  == file'[sess'[q].id] # None /\ sess'[q].rec = file'[sess'[q].id]

LEMMA SaveOnSess ==
  ASSUME TInv, NEW p \in Procs, pc[p] \notin {"new", "gone"}, NEW x \in Meta, SaveOn(p, x)
  PROVE  /\ sess' = [sess EXCEPT ![p] = [id |-> Id(p), rec |-> file'[Id(p)]]]
         /\ file'[Id(p)] # None
<1>1. /\ Id(p) \in Ids /\ sess[p].rec \in Record
      /\ sess[p] \in [id : Ids, rec : Record] /\ [sess[p].rec EXCEPT !.meta = x] \in Record
  BY SessIn, MetaIn
<1>2. file'[Id(p)] # None
  BY <1>1, PutSets, NoneAssumption DEF SaveOn, Save, TInv
<1> QED BY <1>1, <1>2, RecSet DEF SaveOn

LEMMA SessFrom ==
  ASSUME TInv, [Next]_vars, NEW q \in Procs, sess'[q] # None
  PROVE  (\E o \in Procs : SessOld(q, o)) \/ SessFile(q) \/ SessNew(q)
<1> DEFINE Fine == (\E o \in Procs : SessOld(q, o)) \/ SessFile(q) \/ SessNew(q)
<1>1. sess \in [Procs -> [id : Ids, rec : Record] \cup {None}] BY DEF TInv, PrivOK
<1>2. ASSUME sess'[q] = sess[q] PROVE Fine
  <2>1. SessOld(q, q) BY <1>2 DEF SessOld, Id, MetaOf
  <2> QED BY <2>1
<1>3. ASSUME NEW p \in Procs, NEW i \in Ids, NEW r, r # None, r = file[i] \/ r = file'[i],
             sess' = [sess EXCEPT ![p] = [id |-> i, rec |-> r]]
      PROVE  Fine
  BY <1>1, <1>2, <1>3 DEF SessFile, SessNew
<1>4. ASSUME NEW p \in Procs, pc[p] \notin {"new", "gone"}, NEW x \in Meta, SaveOn(p, x)
      PROVE  Fine
  BY <1>3, <1>4, SaveOnSess, SessIn
<1>5. CASE Stands BY <1>2, <1>5, StandsAll
<1>6. ASSUME NEW p \in Procs, Ends(p) PROVE Fine
  BY <1>2, <1>6, EndsFrame DEF LeaveAll
<1>7. ASSUME NEW p \in Procs, Opens(p) PROVE Fine
  <2>1. PICK i \in Present : sess' = [sess EXCEPT ![p] = [id |-> i, rec |-> file[i]]]
    BY <1>7, OpensAt DEF Open
  <2> QED BY <1>3, <2>1 DEF Present
<1>8. ASSUME NEW p \in Procs, NEW c, NEW n \in AllNames, NEW i \in Ids, Enter(p, c, i, n)
      PROVE  Fine
  <2>0. file'[i] \in Record BY <1>8, EnterSets
  <2>1. file'[i] # None BY <2>0, NoneAssumption
  <2> QED BY <1>3, <1>8, <2>1 DEF Enter
<1>13. ASSUME NEW p \in Procs, NEW c \in Commands, NEW n \in Names, NEW i \in Ids,
              Start(p, c, i, n)
       PROVE  Fine
  BY <1>8, <1>13 DEF Start, AllNames
<1>9. ASSUME NEW p \in Procs, Poll(p) PROVE Fine
  BY <1>2, <1>9 DEF Poll, priv
<1>10. ASSUME NEW p \in Procs, NEW w \in Procs, Launch(p, w) PROVE Fine
  <2>1. sess' = [sess EXCEPT ![w] = sess[p]] BY <1>10 DEF Launch
  <2>2. CASE q = w
    <3>1. SessOld(q, p) BY <1>1, <2>1, <2>2 DEF SessOld, Id, MetaOf
    <3> QED BY <3>1
  <2> QED BY <1>1, <1>2, <2>1, <2>2
<1>11. ASSUME NEW p \in Procs, NEW w \in Procs, Register(p, w) PROVE Fine
  <2>1. pc[p] \notin {"new", "gone"} BY <1>11 DEF Register, At
  <2>2. [MetaOf(p) EXCEPT !.status = "running", !.proc = w, !.worker = w] \in Meta
    <3>1. MetaOf(p) \in Meta /\ w \in Pid /\ "running" \in Status BY <2>1, SessIn DEF Status, Pid
    <3> QED BY <3>1 DEF Meta
  <2> QED BY <1>4, <1>11, <2>1, <2>2 DEF Register
<1>12. ASSUME NEW p \in Procs, Walks(p) PROVE Fine
  <2>1. pc[p] \notin {"new", "gone"} 
    BY <1>12, AtWork
  <2>2. /\ Id(p) \in Ids /\ sess[p] \in [id : Ids, rec : Record]
        /\ MetaOf(p) \in Meta /\ p \in Pid /\ None \in Pid
        /\ {"failed", "running"} \subseteq Status
    BY <2>1, SessIn DEF Status
  <2>3. CASE ResumeChecked(p) \/ Claim(p)
    <3>1. /\ [MetaOf(p) EXCEPT !.status = "failed", !.proc = None] \in Meta
          /\ [MetaOf(p) EXCEPT !.status = "running", !.proc = p] \in Meta
          /\ [MetaOf(p) EXCEPT !.status = "running"] \in Meta
      BY <2>2 DEF Meta
    <3> QED BY <1>2, <1>4, <2>1, <2>3, <3>1 DEF ResumeChecked, Claim
  <2>4. CASE Reread(p)
    <3>1. sess' = [sess EXCEPT ![p] = [id |-> Id(p), rec |-> file[Id(p)]]]
      BY <2>2, <2>4, RecSet DEF Reread
    <3>2. file[Id(p)] # None BY <2>4 DEF Reread
    <3> QED BY <1>3, <2>2, <3>1, <3>2
  <2>5. CASE Observe(p)
    <3> DEFINE r == [sess[p].rec EXCEPT !.meta.prov = p]
    <3>1. [sess EXCEPT ![p].rec.meta.prov = p] = [sess EXCEPT ![p] = [id |-> Id(p), rec |-> r]]
      <4>1. [sess EXCEPT ![p].rec.meta.prov = p] = [sess EXCEPT ![p].rec = r] OBVIOUS
      <4> QED BY <2>2, <4>1, RecSet
    <3>2. /\ r.name = sess[p].rec.name /\ r.meta.proc = MetaOf(p).proc
          /\ r.meta.status = MetaOf(p).status /\ r.meta.worker = MetaOf(p).worker
          /\ r.meta.turn = MetaOf(p).turn /\ r.meta.psid = MetaOf(p).psid
      BY <2>2 DEF Record, Meta, MetaOf
    <3> HIDE DEF r
    <3>3. sess' = sess \/ sess' = [sess EXCEPT ![p] = [id |-> Id(p), rec |-> r]]
      BY <2>5, <3>1 DEF Observe
    <3>4. ASSUME q = p, sess' # sess PROVE SessOld(q, q)
      BY <1>1, <2>2, <3>2, <3>3, <3>4, NoneAssumption DEF SessOld
    <3>5. q # p \/ sess' = sess => sess'[q] = sess[q] BY <1>1, <3>3
    <3> QED BY <1>2, <3>4, <3>5
  <2>6. CASE \E i \in Ids : WaitFind(p, i)
    BY <1>3, <2>6 DEF WaitFind
  <2>9. ASSUME NEW i \in Ids, Reserve(p, i) PROVE Fine
    <3>1. sess[p].rec.name \in AllNames BY <2>1, SessIn
    <3> QED BY <1>8, <2>9, <3>1 DEF Reserve
  <2>10. CASE Release(p)
    BY <1>2, <2>10 DEF Release, priv
  <2>7. CASE \/ Snapshot(p) \/ (SnapshotFails(p) /\ IsWorker(p)) \/ Spawn(p)
             \/ SpawnFails(p) \/ ReadEvent(p) \/ SaveEvent(p)
             \/ \E o \in {"completed", "failed", "stopped"} : EndTurn(p, o)
             \/ \E j \in Ids : FinishStart(p, j)
    <3>1. UNCHANGED sess
      BY <2>7 DEF Snapshot, SnapshotFails, Spawn, SpawnFails, ReadEvent, SaveEvent,
                  EndTurn, FinishStart, priv
    <3> QED BY <1>2, <3>1
  <2>8. CASE \/ DropReserved(p) \/ FailStart(p) \/ FinishResume(p) \/ FailResume(p)
             \/ Wrap(p) \/ WrapUp(p) \/ WaitScan(p) \/ WaitAgain(p) \/ WaitCondemns(p)
    <3>1. UNCHANGED sess
      BY <2>8 DEF DropReserved, FailStart, FinishResume, FailResume, Wrap, WrapUp,
                  WaitScan, WaitAgain, WaitCondemns, priv
    <3> QED BY <1>2, <3>1
  <2> QED BY <1>12, <2>3, <2>4, <2>5, <2>6, <2>7, <2>8, <2>9, <2>10 DEF Walks
<1> QED
  BY <1>5, <1>6, <1>7, <1>13, <1>9, <1>10, <1>11, <1>12, NextSorted DEF Commands

\* Only a process at work has a session, only a turn or its launch a second record.
Empty == {"new", "gone", "release", "reserve", "find", "scan", "confirm", "condemn"}
Blank ==
  \A p \in Procs :
    /\ pc[p] \in {"new", "gone"} => sess[p] = None
    /\ pc[p] \in Empty => cur[p] = None

\* Where the second record comes from that a process has after a step.
CurFile(q) == file[Id(q)] # None /\ cur'[q] = file[Id(q)]
CurSess(q) == cur'[q] = sess[q].rec \/ (IsStart(q) /\ cur'[q] = InitialSession(q))

LEMMA CurFrom ==
  ASSUME TInv, Kin, [Next]_vars, NEW q \in Procs, cur'[q] # None
  PROVE  \/ cur'[q] = cur[q]
         \/ pc[q] \notin {"new", "gone", "reserve"} /\ (CurFile(q) \/ CurSess(q))
<1> DEFINE Fine == \/ cur'[q] = cur[q]
                   \/ pc[q] \notin {"new", "gone", "reserve"} /\ (CurFile(q) \/ CurSess(q))
<1>1. cur \in [Procs -> Record \cup {None}] BY DEF TInv, PrivOK
<1>2. CASE Stands BY <1>2, StandsAll
<1>3. ASSUME NEW p \in Procs, Ends(p) PROVE Fine
  BY <1>3, EndsFrame DEF LeaveAll
<1>4. ASSUME NEW p \in Procs,
             \/ Opens(p) \/ Poll(p)
             \/ \E c \in Commands, n \in Names, i \in Ids : Start(p, c, i, n)
             \/ \E w \in Procs : Launch(p, w) \/ Register(p, w)
      PROVE  Fine
  <2>1. CASE Opens(p) BY <2>1, OpensAt DEF Open
  <2>2. CASE Poll(p) \/ \E w \in Procs : Launch(p, w) BY <2>2 DEF Poll, priv, Launch
  <2>3. CASE \E c \in Commands, n \in Names, i \in Ids : Start(p, c, i, n)
    BY <2>3 DEF Start, Enter
  <2>4. ASSUME NEW w \in Procs, Register(p, w) PROVE Fine
    BY <2>4 DEF Register
  <2> QED BY <1>4, <2>1, <2>2, <2>3, <2>4
<1>5. ASSUME NEW p \in Procs, Walks(p) PROVE Fine
  <2>1. ASSUME NEW r, cur' = [cur EXCEPT ![p] = r],
               \/ r = None
               \/ pc[p] # "reserve" /\ file[Id(p)] # None /\ r = file[Id(p)]
               \/ pc[p] # "reserve" /\ r = sess[p].rec
               \/ pc[p] # "reserve" /\ IsStart(p) /\ r = InitialSession(p)
        PROVE  Fine
    BY <1>1, <1>5, <2>1, AtWork DEF CurFile, CurSess
  <2>2. CASE Claim(p) BY <2>1, <2>2 DEF Claim, At
  <2>3. CASE Spawn(p) BY <2>1, <2>3 DEF Spawn, At
  <2>4. CASE Observe(p) \/ SaveEvent(p) BY <2>1, <2>4 DEF Observe, SaveEvent
  <2>5. CASE ReadEvent(p)
    <3>1. pc[p] # "reserve" /\ IsStart(p) BY <2>5 DEF ReadEvent, At, Kin, Fits
    <3>2. CASE file[Id(p)] # None BY <2>1, <2>5, <3>1, <3>2 DEF ReadEvent
    <3>3. CASE file[Id(p)] = None BY <2>1, <2>5, <3>1, <3>3 DEF ReadEvent
    <3> QED BY <3>2, <3>3
  <2>6. CASE Wrap(p) BY <2>1, <2>6 DEF Wrap, At
  <2>9. CASE Release(p) \/ \E i \in Ids : Reserve(p, i)
    BY <2>9 DEF Release, Reserve, Enter, priv
  <2>7. CASE \/ ResumeChecked(p) \/ Snapshot(p) \/ (SnapshotFails(p) /\ IsWorker(p))
             \/ Reread(p) \/ SpawnFails(p)
             \/ \E o \in {"completed", "failed", "stopped"} : EndTurn(p, o)
             \/ \E j \in Ids : FinishStart(p, j)
    BY <2>7 DEF ResumeChecked, Snapshot, SnapshotFails, Reread, SpawnFails, EndTurn,
                FinishStart, priv
  <2>8. CASE \/ DropReserved(p) \/ FailStart(p) \/ FinishResume(p) \/ FailResume(p)
             \/ WrapUp(p) \/ WaitScan(p) \/ WaitAgain(p) \/ WaitCondemns(p)
             \/ \E i \in Ids : WaitFind(p, i)
    BY <2>8 DEF DropReserved, FailStart, FinishResume, FailResume, WrapUp, WaitScan,
                WaitAgain, WaitCondemns, WaitFind, priv
  <2> QED BY <1>5, <2>2, <2>3, <2>4, <2>5, <2>6, <2>7, <2>8, <2>9 DEF Walks
<1> QED BY <1>2, <1>3, <1>4, <1>5, NextSorted

LEMMA BlankStep == ASSUME TInv, Kin, Blank, [Next]_vars PROVE Blank'
<1> USE DEF TInv, PrivOK
<1>1. ASSUME NEW q \in Procs, pc'[q] = pc[q], sess'[q] = sess[q], cur'[q] = cur[q]
      PROVE  /\ pc'[q] \in {"new", "gone"} => sess'[q] = None
             /\ pc'[q] \in Empty => cur'[q] = None
  BY <1>1 DEF Blank
<1>2. CASE Stands BY <1>1, <1>2, StandsAll DEF Blank
<1>3. ASSUME NEW p \in Procs, Ends(p) PROVE Blank'
  <2>1. PICK S \in SUBSET Procs : LeaveAll(S) BY <1>3, EndsFrame
  <2> QED BY <1>1, <2>1 DEF LeaveAll, Blank, Empty
<1>4. ASSUME NEW p \in Procs, Opens(p) PROVE Blank'
  BY <1>4, OpensAt DEF Blank, Open, Begin, At, Go, Empty
<1>5. ASSUME NEW p \in Procs, NEW c \in Commands, NEW n \in Names, NEW i \in Ids,
             Start(p, c, i, n)
      PROVE  Blank'
  BY <1>5 DEF Blank, Start, Enter, Begin, At, Go, Empty
<1>6. ASSUME NEW p \in Procs, NEW w \in Procs, Launch(p, w) \/ Register(p, w) \/ Poll(p)
      PROVE  Blank'
  <2>1. CASE Launch(p, w) BY <2>1 DEF Blank, Launch, At, Empty
  <2>2. CASE Register(p, w) BY <2>2 DEF Blank, Register, SaveOn, At, Go, Empty
  <2>3. CASE Poll(p) BY <2>3 DEF Blank, Poll, priv, At, Go, Empty
  <2> QED BY <1>6, <2>1, <2>2, <2>3
<1>7. ASSUME NEW p \in Procs, Walks(p) PROVE Blank'
  <2>1. \A q \in Procs \ {p} : pc'[q] = pc[q] /\ sess'[q] = sess[q] /\ cur'[q] = cur[q]
    BY <1>7, WalksOthers DEF Same
  <2>2. /\ pc'[p] \notin {"new", "gone"}
        /\ pc'[p] \in Empty => cur'[p] = cur[p] /\ pc[p] \in Empty
    <3> USE DEF At, Go, Empty
    <3>1. CASE Release(p) \/ \E i \in Ids : Reserve(p, i)
      BY <3>1 DEF Release, Reserve, Enter, priv
    <3>2. CASE \/ ResumeChecked(p) \/ Snapshot(p) \/ (SnapshotFails(p) /\ IsWorker(p))
               \/ Claim(p) \/ Reread(p) \/ Spawn(p) \/ SpawnFails(p)
      BY <3>2 DEF ResumeChecked, Snapshot, SnapshotFails, Claim, Reread, Spawn, SpawnFails
    <3>3. CASE \/ Observe(p) \/ ReadEvent(p) \/ SaveEvent(p)
               \/ \E o \in {"completed", "failed", "stopped"} : EndTurn(p, o)
               \/ \E j \in Ids : FinishStart(p, j)
      BY <3>3 DEF Observe, ReadEvent, SaveEvent, EndTurn, FinishStart
    <3>4. CASE \/ DropReserved(p) \/ FailStart(p) \/ FinishResume(p) \/ FailResume(p)
               \/ Wrap(p) \/ WrapUp(p)
      BY <3>4 DEF DropReserved, FailStart, FinishResume, FailResume, Wrap, WrapUp
    <3>5. CASE \/ \E i \in Ids : WaitFind(p, i)
               \/ WaitScan(p) \/ WaitAgain(p) \/ WaitCondemns(p)
      BY <3>5 DEF WaitFind, WaitScan, WaitAgain, WaitCondemns, priv
    <3> QED BY <1>7, <3>1, <3>2, <3>3, <3>4, <3>5 DEF Walks
  <2> QED BY <1>1, <2>1, <2>2 DEF Blank
<1> QED BY <1>2, <1>3, <1>4, <1>5, <1>6, <1>7, NextSorted

LEMMA FileStartedStep ==
  ASSUME TInv, TInv', Kin, Kin', Moves, Started, [Next]_vars PROVE FileStarted'
<1> SUFFICES ASSUME NEW j \in Ids, file'[j] # None
             PROVE  file'[j].meta.proc \in Able \cup Able'
  BY AbleGrows DEF FileStarted
<1> DEFINE Fine == file'[j].meta.proc \in Able \cup Able'
<1> USE DEF Started, FileStarted
<1>1. ASSUME UNCHANGED store PROVE Fine BY <1>1 DEF store
<1>2. ASSUME NEW p \in Procs, Saves(p) PROVE Fine
  <2>1. CASE Saved(p)
    <3>1. PICK i \in Ids, r \in Record : Put(i, r) /\ ProcFrom(p, r)
      BY <2>1 DEF Saved
    <3>2. file'[i].meta = r.meta /\ \A k \in Ids \ {i} : file'[k] = file[k]
      BY <3>1, PutSets DEF TInv
    <3>3. pc[p] \notin {"new", "gone"} /\ sess[p] # None /\ Id(p) \in Ids
      BY <1>2, SavesAtWork, SessIn DEF TInv, Held
    <3>4. r.meta.proc \in Able \cup Able'
      <4>1. CASE \/ r.meta.proc \in {None, MetaOf(p).proc}
                 \/ cur[p] # None /\ r.meta.proc = cur[p].meta.proc
                 \/ file[Id(p)] # None /\ r.meta.proc = file[Id(p)].meta.proc
        BY <3>3, <4>1 DEF SessStarted, CurStarted, Able
      <4>2. CASE cmd[p] = "resume" /\ r.meta.proc = p
        BY <4>2 DEF Able, Turner, IsWorker
      <4>3. ASSUME NEW w \in Procs, r.meta.proc = w, boss[w] = p, Register(p, w)
            PROVE  r.meta.proc \in Able'
        <5>1. IsWorker(w) /\ cmd' = cmd /\ boss' = boss /\ pc'[p] = "watch"
          BY <4>3, TurnAssumption DEF Kin, Register, os, TurnAssumption, Go, TInv, PrivOK
        <5> QED BY <4>3, <5>1 DEF Able, Turner, IsWorker, Past
      <4> QED BY <3>1, <4>1, <4>2, <4>3 DEF ProcFrom
    <3> QED BY <3>2, <3>4
  <2> QED BY <1>1, <1>2, <2>1, SavesRecord
<1>3. ASSUME NEW p \in Procs, NEW c, NEW n \in AllNames, NEW i \in Ids, Enter(p, c, i, n),
             c = "start" => p \in Able'
      PROVE  Fine
  <2>1. file'[i].meta.proc = (IF c = "start" THEN p ELSE None)
        /\ \A k \in Ids \ {i} : file'[k] = file[k]
    <3>1. /\ file'[i].meta = Reservation(p, c)
          /\ \A k \in Ids \ {i} : file'[k] = file[k]
      BY <1>3, EnterSets
    <3> QED BY <3>1 DEF Reservation
  <2> QED BY <1>3, <2>1 DEF Able
<1>8. ASSUME NEW p \in Procs, NEW c \in Commands, NEW n \in Names, NEW i \in Ids,
             Start(p, c, i, n)
      PROVE  Fine
  <2>1. c = "start" => p \in Able'
    BY <1>8 DEF Start, Begin, Able, Turner, IsWorker, TInv, OsOK
  <2> QED BY <1>3, <1>8, <2>1 DEF Start, AllNames
<1>9. ASSUME NEW p \in Procs, NEW i \in Ids, Reserve(p, i) PROVE Fine
  <2>1. sess[p].rec.name \in AllNames BY <1>9, SessIn DEF Reserve, At
  <2>2. cmd[p] = "start" => p \in Able'
    BY <1>9 DEF Reserve, os, Able, Turner, IsWorker
  <2> QED BY <1>3, <1>9, <2>1, <2>2 DEF Reserve
<1>4. ASSUME NEW p \in Procs, FinishResume(p) PROVE Fine
  <2>1. CASE file[Id(p)] # None
    <3>0. PICK b \in BOOLEAN : Rewrite(Id(p), sess[p].rec.name, TurnDone(MetaOf(p), b), snap[p])
      BY <1>4, <2>1 DEF FinishResume
    <3> DEFINE x == TurnDone(MetaOf(p), b)
    <3>1. MetaOf(p) \in Meta /\ Id(p) \in Ids BY <1>4, SessIn DEF FinishResume, At
    <3>2. x.proc = None BY <3>1, TurnDoneIn
    <3>3. Rewrite(Id(p), sess[p].rec.name, x, snap[p]) BY <3>0
    <3> HIDE DEF x
    <3>4. file'[Id(p)].meta = x /\ \A k \in Ids \ {Id(p)} : file'[k] = file[k]
      BY <3>1, <3>3 DEF Rewrite, TInv, RegistryTypeOK
    <3> QED BY <3>2, <3>4 DEF Able
  <2> QED BY <1>1, <1>4, <2>1 DEF FinishResume
<1>5. ASSUME NEW p \in Procs, DropReserved(p) \/ DeleteDone(p) PROVE Fine
  <2>1. CASE Delete(Id(p))
    BY <2>1 DEF Delete, TInv, RegistryTypeOK
  <2> QED BY <1>1, <1>5, <2>1 DEF DropReserved, DeleteDone
<1>6. ASSUME NEW i \in Ids, NEW m \in Msgs, Send(i, m) PROVE Fine
  <2>1. file' = [file EXCEPT ![i].pending = @ \cup {m}] /\ file[i] # None
    BY <1>6 DEF Send, Enqueue
  <2>2. file[i] \in Record BY <2>1, FileIn
  <2>3. file'[j].meta = file[j].meta /\ file[j] # None
    BY <2>1, <2>2 DEF Record, TInv, RegistryTypeOK
  <2> QED BY <2>3
<1>7. CASE UNCHANGED vars BY <1>1, <1>7 DEF vars, store
<1> QED BY <1>1, <1>2, <1>4, <1>5, <1>6, <1>7, <1>8, <1>9, NextSplit, ReadsFrame

LEMMA StartedStep ==
  ASSUME TInv, TInv', Kin, Kin', Moves, Started, [Next]_vars PROVE Started'
<1>1. FileStarted' BY FileStartedStep
<1>2. Able \subseteq Able' BY AbleGrows
<1>3. SessStarted'
  <2> SUFFICES ASSUME NEW q \in Procs, sess'[q] # None
               PROVE  sess'[q].rec.meta.proc \in Able'
    BY DEF SessStarted, MetaOf
  <2>1. sess'[q].id \in Ids BY DEF TInv, PrivOK
  <2>2. CASE \E o \in Procs : SessOld(q, o)
    BY <1>2, <2>2 DEF SessOld, Started, SessStarted
  <2>3. CASE SessFile(q) \/ SessNew(q)
    BY <1>1, <1>2, <2>1, <2>3 DEF SessFile, SessNew, Started, FileStarted
  <2> QED BY <2>2, <2>3, SessFrom
<1>4. CurStarted'
  <2> SUFFICES ASSUME NEW q \in Procs, cur'[q] # None
               PROVE  cur'[q].meta.proc \in Able'
    BY DEF CurStarted
  <2>1. CASE cur'[q] = cur[q] BY <1>2, <2>1 DEF Started, CurStarted
  <2>2. CASE pc[q] \notin {"new", "gone", "reserve"} /\ CurFile(q)
    BY <1>2, <2>2, SessIn DEF CurFile, Started, FileStarted
  <2>3. CASE pc[q] \notin {"new", "gone", "reserve"} /\ CurSess(q)
    <3>1. sess[q] # None BY <2>3 DEF TInv, Held
    <3> QED BY <1>2, <2>3, <3>1 DEF CurSess, InitialSession, Started, SessStarted, MetaOf, Able
  <2> QED BY <2>1, <2>2, <2>3, CurFrom
<1> QED BY <1>1, <1>3, <1>4 DEF Started

LEMMA ConfirmFrom ==
  ASSUME TInv, [Next]_vars, NEW q \in Procs, pc'[q] = "confirm"
  PROVE  /\ sess'[q] = sess[q]
         /\ At(q, "confirm") \/ (At(q, "scan") /\ Writers(MetaOf(q)) = {})
<1> USE DEF TInv, PrivOK, At, Go
<1>1. CASE Stands BY <1>1, StandsAll
<1>2. ASSUME NEW p \in Procs, Ends(p) PROVE sess'[q] = sess[q] /\ At(q, "confirm")
  BY <1>2, EndsFrame DEF LeaveAll
<1>3. ASSUME NEW p \in Procs,
             \/ Opens(p) \/ Poll(p)
             \/ \E c \in Commands, n \in Names, i \in Ids : Start(p, c, i, n)
             \/ \E w \in Procs : Launch(p, w) \/ Register(p, w)
      PROVE  sess'[q] = sess[q] /\ At(q, "confirm")
  <2>1. CASE Opens(p) BY <2>1, OpensAt DEF Open
  <2>2. CASE Poll(p) BY <2>2 DEF Poll, priv
  <2>3. CASE \E c \in Commands, n \in Names, i \in Ids : Start(p, c, i, n)
    BY <2>3 DEF Start, Enter
  <2>4. ASSUME NEW w \in Procs, Launch(p, w) \/ Register(p, w)
        PROVE  sess'[q] = sess[q] /\ At(q, "confirm")
    BY <2>4 DEF Launch, Register, SaveOn
  <2> QED BY <1>3, <2>1, <2>2, <2>3, <2>4
<1>4. ASSUME NEW p \in Procs, Walks(p), q # p PROVE sess'[q] = sess[q] /\ At(q, "confirm")
  BY <1>4, WalksOthers DEF Same
<1>5. ASSUME Walks(q) PROVE WaitScan(q)
  BY <1>5 DEF Walks, Release, Reserve, Enter, ResumeChecked, Snapshot, SnapshotFails, Claim, Reread,
       Spawn, SpawnFails, Observe, ReadEvent, SaveEvent, EndTurn, FinishStart, DropReserved,
       FailStart, FinishResume, FailResume, Wrap, WrapUp, WaitFind, WaitAgain,
       WaitCondemns
<1>6. CASE WaitScan(q) BY <1>6 DEF WaitScan, priv
<1> QED BY <1>1, <1>2, <1>3, <1>4, <1>5, <1>6, NextSorted

LEMMA ConfirmedStep ==
  ASSUME TInv, Kin, Moves, Started, Confirmed, [Next]_vars PROVE Confirmed'
<1> SUFFICES ASSUME NEW q \in Procs, pc'[q] = "confirm", sess'[q].rec.meta.proc # None
             PROVE  pc'[sess'[q].rec.meta.proc] = "gone"
  BY DEF Confirmed, At, MetaOf
<1> DEFINE r == MetaOf(q).proc
<1>1. pc[q] \notin {"new", "gone"} /\ sess'[q].rec.meta.proc = r
  BY ConfirmFrom DEF At, MetaOf
<1>2. r \in Procs /\ sess[q] # None
  BY <1>1, SessIn DEF Meta, Pid, TInv, Held
<1>3. pc[r] = "gone"
  <2>1. CASE At(q, "confirm") BY <1>1, <1>2, <2>1 DEF Confirmed, At
  <2>2. CASE Writers(MetaOf(q)) = {}
    <3>1. r \in Roots(MetaOf(q)) BY <1>2, TurnAssumption DEF Roots, TurnAssumption
    <3>2. r \notin Alive
      <4> SUFFICES ASSUME r \in Alive PROVE FALSE OBVIOUS
      <4>1. r \in Tree(MetaOf(q)) BY <3>1 DEF Tree
      <4>2. <<"harnez", r>> \in Writers(MetaOf(q)) BY <4>1 DEF Writers
      <4> QED BY <2>2, <4>2
    <3>3. cmd[r] # None
      BY <1>2, NoneAssumption, TurnAssumption
      DEF Started, SessStarted, Able, Turner, TurnAssumption, Commands
    <3>4. pc[r] \in {"new", "gone"} BY <1>2, <3>2 DEF Alive
    <3> QED BY <1>2, <3>3, <3>4 DEF Kin, Fits, At
  <2> QED BY <2>1, <2>2, ConfirmFrom
<1> QED BY <1>1, <1>2, <1>3 DEF Moves, At

\* What the later invariants rest on.
KInv == TInv /\ Kin /\ Started /\ Confirmed /\ Blank

LEMMA KInvStep == ASSUME KInv, [Next]_vars PROVE KInv' /\ Moves
<1> USE DEF KInv
<1>1. TInv' BY TInvStep
<1>2. Kin' /\ Moves BY KinStep
<1>3. Started' BY <1>1, <1>2, StartedStep
<1>4. Confirmed' BY <1>2, ConfirmedStep
<1>5. Blank' BY BlankStep
<1> QED BY <1>1, <1>2, <1>3, <1>4, <1>5

LEMMA InitKInv == Init => KInv
<1> SUFFICES ASSUME Init PROVE KInv OBVIOUS
<1>1. TInv BY InitTInv
<1>2. Kin BY NoneAssumption DEF Init, Kin, Fits, At, IsWorker, Commands
<1>5. Idle.proc = None /\ Unborn.proc = None BY DEF Idle, Unborn
<1>3. Started BY <1>5 DEF Init, Started, FileStarted, SessStarted, CurStarted, Able
<1>4. Confirmed /\ Blank BY DEF Init, Confirmed, Blank, At
<1> QED BY <1>1, <1>2, <1>3, <1>4 DEF KInv
-----------------------------------------------------------------------------
(* Names. *)

\* A record of ID i, stored or held, carries the name n.
Label(i, n) ==
  \/ file[i] # None /\ file[i].name = n
  \/ \E p \in Procs : sess[p] # None /\ Id(p) = i /\ sess[p].rec.name = n
  \/ \E p \in Procs : cur[p] # None /\ Id(p) = i /\ cur[p].name = n

\* An ID has one name, and the one it is set aside under.
NameFixed ==
  \A i \in Ids : \A m, n : Label(i, m) /\ Label(i, n) => m = n \/ Aside(i) \in {m, n}

\* What a process of a start holds has a name that was asked for, and no
\* provider session.
Newborn ==
  \A p \in Procs : cmd[p] \in {"start", "startd", "startw"} /\ sess[p] # None =>
    ~ MetaOf(p).psid /\ sess[p].rec.name \in Names

Unlabelled(j) == \A n : ~ Label(j, n)

LEMMA FreshIsUnlabelled ==
  ASSUME TInv, Blank, NEW j \in Ids, Fresh(j) PROVE Unlabelled(j)
<1>1. file[j] = None /\ \A q \in Procs : sess[q] # None => Id(q) # j BY DEF Fresh
<1>2. \A q \in Procs : cur[q] # None => Id(q) # j
  BY <1>1 DEF Blank, Empty, TInv, Held
<1> QED BY <1>1, <1>2 DEF Unlabelled, Label

\* Where the name of the record stored under i after a step comes from, and
\* its lack of a provider session.
NameGot(i, j, m) ==
  \/ Label(i, file'[i].name)
  \/ file'[i].name = Aside(i) /\ Bare(i)
  \/ i = j /\ Unlabelled(j) /\ file'[i].name = m
BareGot(i) == file'[i].meta.psid \/ Bare(i) \/ Unlabelled(i)
Labelled(i, j, m) == file'[i] # None => NameGot(i, j, m) /\ BareGot(i)

LEMMA StartBare ==
  ASSUME TInv, Newborn, NEW p \in Procs, pc[p] \notin {"new", "gone"},
         cmd[p] \in {"start", "startd", "startw"}
  PROVE  Bare(Id(p)) /\ sess[p] # None /\ ~ MetaOf(p).psid /\ sess[p].rec.name \in Names
<1>1. sess[p] # None BY DEF TInv, Held
<1> QED BY <1>1 DEF Newborn, Bare

LEMMA FileLabels ==
  ASSUME TInv, Kin, Blank, Newborn, [Next]_vars
  PROVE  \E j, m : \A i \in Ids : Labelled(i, j, m)
<1> DEFINE Fine == \E j, m : \A i \in Ids : Labelled(i, j, m)
<1>1. ASSUME NEW k \in Ids, file'[k] = file[k], NEW j, NEW m PROVE Labelled(k, j, m)
  BY <1>1 DEF Labelled, NameGot, BareGot, Label, Bare
<1>2. ASSUME NEW i \in Ids, NEW j, NEW m, Labelled(i, j, m),
             \A k \in Ids \ {i} : file'[k] = file[k]
      PROVE  Fine
  <2>1. \A k \in Ids : Labelled(k, j, m) BY <1>1, <1>2
  <2> QED BY <2>1
<1>3. ASSUME NEW i \in Ids, Fresh(i), \A k \in Ids \ {i} : file'[k] = file[k]
      PROVE  Fine
  <2>1. Unlabelled(i) BY <1>3, FreshIsUnlabelled
  <2>2. Labelled(i, i, file'[i].name) BY <2>1 DEF Labelled, NameGot, BareGot
  <2> QED BY <1>2, <1>3, <2>2
<1>4. ASSUME NEW p \in Procs, pc[p] \notin {"new", "gone"}
      PROVE  sess[p] # None /\ Id(p) \in Ids /\ Label(Id(p), sess[p].rec.name)
  BY <1>4, SessIn DEF TInv, Held, Label
<1>5. ASSUME UNCHANGED store PROVE Fine
  <2>1. \A k \in Ids : Labelled(k, None, None) BY <1>1, <1>5 DEF store
  <2> QED BY <2>1
<1>6. ASSUME NEW p \in Procs, Saves(p) PROVE Fine
  <2>1. CASE Saved(p)
    <3>1. PICK i \in Ids, r \in Record : Put(i, r) /\ NameFrom(p, i, r) /\ PsidFrom(p, i, r)
      BY <2>1 DEF Saved
    <3>2. /\ file'[i].name = r.name /\ file'[i].meta = r.meta
          /\ \A k \in Ids \ {i} : file'[k] = file[k]
      BY <3>1, PutSets DEF TInv
    <3>3. pc[p] \notin {"new", "gone"} BY <1>6, SavesAtWork
    <3>4. CASE Fresh(i) BY <1>3, <3>2, <3>4
    <3>5. CASE ~ Fresh(i)
      <4>1. i = Id(p) BY <3>1, <3>5 DEF NameFrom
      <4>2. Label(i, r.name) \/ (At(p, "release") /\ r.name = Aside(i))
        BY <1>4, <3>1, <3>3, <3>5, <4>1 DEF NameFrom, Label
      <4>3. At(p, "release") => Bare(i) BY <3>3, <4>1, StartBare DEF Kin, Fits, At
      <4>4. NameGot(i, i, r.name) BY <3>2, <4>2, <4>3 DEF NameGot
      <4>5. IsStart(p) => Bare(i) BY <3>3, <4>1, StartBare DEF IsStart
      <4>6. BareGot(i) BY <3>1, <3>2, <3>5, <4>5 DEF PsidFrom, BareGot
      <4>7. Labelled(i, i, r.name) BY <4>4, <4>6 DEF Labelled
      <4> QED BY <1>2, <3>2, <4>7
    <3> QED BY <3>4, <3>5
  <2> QED BY <1>5, <1>6, <2>1, SavesRecord
<1>7. ASSUME NEW p \in Procs, NEW c, NEW n \in AllNames, NEW i \in Ids, Enter(p, c, i, n)
      PROVE  Fine
  <2>1. \A k \in Ids \ {i} : file'[k] = file[k] BY <1>7, EnterSets
  <2> QED BY <1>3, <1>7, <2>1 DEF Enter
<1>8. ASSUME NEW p \in Procs, NEW i \in Ids, Reserve(p, i) PROVE Fine
  <2>1. sess[p].rec.name \in AllNames BY <1>8, SessIn DEF Reserve, At
  <2> QED BY <1>7, <1>8, <2>1 DEF Reserve
<1>9. ASSUME NEW p \in Procs, FinishResume(p) PROVE Fine
  <2>0. pc[p] \notin {"new", "gone"} BY <1>9 DEF FinishResume, At
  <2>1. CASE file[Id(p)] # None
    <3>0. PICK b \in BOOLEAN : Rewrite(Id(p), sess[p].rec.name, TurnDone(MetaOf(p), b), snap[p])
      BY <1>9, <2>1 DEF FinishResume
    <3> DEFINE x == TurnDone(MetaOf(p), b)
    <3>1. Rewrite(Id(p), sess[p].rec.name, x, snap[p]) BY <3>0
    <3>2. MetaOf(p) \in Meta BY <2>0, SessIn
    <3>3. x.psid = (MetaOf(p).psid \/ b) BY <3>2, TurnDoneIn
    <3> HIDE DEF x
    <3>4. /\ file'[Id(p)].name = sess[p].rec.name /\ file'[Id(p)].meta = x
          /\ \A k \in Ids \ {Id(p)} : file'[k] = file[k]
      BY <1>4, <2>0, <3>1 DEF Rewrite, TInv, RegistryTypeOK
    <3>5. NameGot(Id(p), None, None) BY <1>4, <2>0, <3>4 DEF NameGot
    <3>6. BareGot(Id(p)) BY <2>0, <3>3, <3>4, CopiesBare DEF BareGot
    <3>7. Labelled(Id(p), None, None) BY <3>5, <3>6 DEF Labelled
    <3> QED BY <1>2, <1>4, <2>0, <3>4, <3>7
  <2> QED BY <1>5, <1>9, <2>1 DEF FinishResume
<1>10. ASSUME NEW p \in Procs, DropReserved(p) \/ DeleteDone(p) PROVE Fine
  <2>1. pc[p] \notin {"new", "gone"} BY <1>10 DEF DropReserved, DeleteDone, At
  <2>2. CASE Delete(Id(p))
    <3>1. file'[Id(p)] = None /\ \A k \in Ids \ {Id(p)} : file'[k] = file[k]
      BY <1>4, <2>1, <2>2 DEF Delete, TInv, RegistryTypeOK
    <3>2. Labelled(Id(p), None, None) BY <3>1 DEF Labelled
    <3> QED BY <1>2, <1>4, <2>1, <3>1, <3>2
  <2> QED BY <1>5, <1>10, <2>2 DEF DropReserved, DeleteDone
<1>11. ASSUME NEW i \in Ids, NEW m \in Msgs, Send(i, m) PROVE Fine
  <2>1. file' = [file EXCEPT ![i].pending = @ \cup {m}] /\ file[i] # None
    BY <1>11 DEF Send, Enqueue
  <2>2. /\ file'[i].name = file[i].name /\ file'[i].meta = file[i].meta
        /\ \A k \in Ids \ {i} : file'[k] = file[k]
    BY <2>1, FileIn DEF Record, TInv, RegistryTypeOK
  <2>3. Labelled(i, None, None)
    BY <2>1, <2>2 DEF Labelled, NameGot, BareGot, Label, Bare
  <2> QED BY <1>2, <2>2, <2>3
<1>12. CASE UNCHANGED vars BY <1>5, <1>12 DEF vars, store
<1>13. ASSUME NEW p \in Procs, NEW c \in Commands, NEW n \in Names, NEW i \in Ids,
              Start(p, c, i, n)
       PROVE  Fine
  BY <1>7, <1>13 DEF Start, AllNames
<1> QED
  BY <1>5, <1>6, <1>8, <1>9, <1>10, <1>11, <1>12, <1>13, NextSplit, ReadsFrame

\* Only a wait that looks for its session again, and a start that has freed its
\* name, turn to another ID.
LEMMA IdKept ==
  ASSUME TInv, [Next]_vars, NEW q \in Procs, pc[q] \notin {"new", "gone", "reserve"},
         sess'[q] # None, pc'[q] # "scan"
  PROVE  sess'[q].id = Id(q)
<1> USE DEF TInv, PrivOK, At, Go, Id
<1>1. sess[q] \in [id : Ids, rec : Record] BY SessIn
<1>2. CASE Stands BY <1>2, StandsAll
<1>3. ASSUME NEW p \in Procs, Ends(p) PROVE sess'[q].id = Id(q)
  BY <1>3, EndsFrame DEF LeaveAll
<1>4. ASSUME NEW p \in Procs,
             \/ Opens(p) \/ Poll(p)
             \/ \E c \in Commands, n \in Names, i \in Ids : Start(p, c, i, n)
             \/ \E w \in Procs : Launch(p, w)
      PROVE  sess'[q].id = Id(q)
  <2>1. CASE Opens(p) BY <1>1, <2>1, OpensAt DEF Open, Begin
  <2>2. CASE Poll(p) \/ \E w \in Procs : Launch(p, w)
    BY <1>1, <2>2 DEF Poll, priv, Launch
  <2>3. CASE \E c \in Commands, n \in Names, i \in Ids : Start(p, c, i, n)
    BY <1>1, <2>3 DEF Start, Enter, Begin
  <2> QED BY <1>4, <2>1, <2>2, <2>3
<1>5. ASSUME NEW p \in Procs, NEW w \in Procs, Register(p, w) PROVE sess'[q].id = Id(q)
  BY <1>1, <1>5 DEF Register, SaveOn
<1>6. ASSUME NEW p \in Procs, Walks(p), q # p PROVE sess'[q].id = Id(q)
  BY <1>6, WalksOthers DEF Same
<1>7. CASE Walks(q)
  <2>1. CASE \/ ResumeChecked(q) \/ Claim(q) \/ Reread(q) \/ Observe(q)
             \/ \E i \in Ids : WaitFind(q, i)
    BY <1>1, <2>1 DEF ResumeChecked, Claim, SaveOn, Reread, Observe, WaitFind
  <2>3. CASE Release(q) \/ \E i \in Ids : Reserve(q, i)
    BY <2>3 DEF Release, Reserve, priv
  <2>2. CASE \/ Snapshot(q) \/ (SnapshotFails(q) /\ IsWorker(q)) \/ Spawn(q)
             \/ SpawnFails(q) \/ ReadEvent(q) \/ SaveEvent(q)
             \/ \E o \in {"completed", "failed", "stopped"} : EndTurn(q, o)
             \/ \E j \in Ids : FinishStart(q, j)
             \/ DropReserved(q) \/ FailStart(q) \/ FinishResume(q) \/ FailResume(q)
             \/ Wrap(q) \/ WrapUp(q) \/ WaitScan(q) \/ WaitAgain(q) \/ WaitCondemns(q)
    BY <2>2 DEF Snapshot, SnapshotFails, Spawn, SpawnFails, ReadEvent, SaveEvent,
       EndTurn, FinishStart, DropReserved, FailStart, FinishResume, FailResume, Wrap,
       WrapUp, WaitScan, WaitAgain, WaitCondemns, priv
  <2> QED BY <1>7, <2>1, <2>2, <2>3 DEF Walks
<1> QED BY <1>2, <1>3, <1>4, <1>6, <1>7, <1>5, NextSorted

\* The second record of a process is one of its session, before and after.
LEMMA CurSame ==
  ASSUME TInv, TInv', Kin, Blank, Blank', [Next]_vars, NEW q \in Procs, cur'[q] # None
  PROVE  /\ sess'[q].id = Id(q) /\ sess'[q] # None /\ Id(q) \in Ids /\ sess[q] # None
         /\ \/ cur[q] # None /\ cur'[q] = cur[q]
            \/ CurFile(q) \/ CurSess(q)
<1>1. pc'[q] \notin {"new", "gone", "scan"} /\ sess'[q] # None
  BY DEF Blank, Empty, TInv, Held
<1>2. pc[q] \notin {"new", "gone", "reserve"}
  BY CurFrom DEF Blank, Empty
<1>3. sess'[q].id = Id(q) /\ sess[q] # None /\ Id(q) \in Ids
  BY <1>1, <1>2, IdKept, SessIn DEF TInv, Held
<1> QED BY <1>1, <1>3, CurFrom

LEMMA CurLabel ==
  ASSUME TInv, TInv', Kin, Blank, Blank', [Next]_vars, NEW q \in Procs, cur'[q] # None
  PROVE  Label(Id(q), cur'[q].name)
<1>1. sess[q] # None BY CurSame
<1>2. CASE cur[q] # None /\ cur'[q] = cur[q] BY <1>1, <1>2 DEF Label
<1>3. CASE CurFile(q) BY <1>1, <1>3 DEF CurFile, Label
<1>4. CASE CurSess(q)
  <2>1. InitialSession(q).name = sess[q].rec.name BY DEF InitialSession
  <2>2. cur'[q].name = sess[q].rec.name BY <1>4, <2>1 DEF CurSess
  <2> QED BY <1>1, <2>2 DEF Label
<1> QED BY <1>2, <1>3, <1>4, CurSame

LEMMA NameFixedStep ==
  ASSUME TInv, TInv', Kin, Blank, Blank', Newborn, NameFixed, [Next]_vars PROVE NameFixed'
<1>1. PICK j, m : \A i \in Ids : Labelled(i, j, m) BY FileLabels
<1> DEFINE Fine(i, n) == Label(i, n) \/ n = Aside(i) \/ (i = j /\ Unlabelled(j) /\ n = m)
<1>2. ASSUME NEW i \in Ids, file'[i] # None PROVE Fine(i, file'[i].name)
  BY <1>1, <1>2 DEF Labelled, NameGot
<1>3. ASSUME NEW q \in Procs, sess'[q] # None
      PROVE  sess'[q].id \in Ids /\ Fine(sess'[q].id, sess'[q].rec.name)
  <2>1. sess'[q].id \in Ids BY <1>3 DEF TInv, PrivOK
  <2>2. CASE \E o \in Procs : SessOld(q, o) BY <2>1, <2>2 DEF SessOld, Label
  <2>3. CASE SessFile(q) BY <2>1, <2>3 DEF SessFile, Label
  <2>4. CASE SessNew(q) BY <1>2, <2>1, <2>4 DEF SessNew
  <2> QED BY <1>3, <2>1, <2>2, <2>3, <2>4, SessFrom
<1>4. ASSUME NEW q \in Procs, cur'[q] # None
      PROVE  sess'[q].id \in Ids /\ Fine(sess'[q].id, cur'[q].name)
  <2>1. sess'[q].id = Id(q) /\ Id(q) \in Ids /\ sess[q] # None BY <1>4, CurSame
  <2>2. Label(Id(q), cur'[q].name) BY <1>4, CurLabel
  <2> QED BY <2>1, <2>2
<1>5. ASSUME NEW i \in Ids, NEW n, Label(i, n)' PROVE Fine(i, n)
  BY <1>2, <1>3, <1>4, <1>5 DEF Label, Id
<1>6. ASSUME NEW i \in Ids, NEW a, NEW b, Label(i, a)', Label(i, b)'
      PROVE  a = b \/ Aside(i) \in {a, b}
  <2>1. Fine(i, a) /\ Fine(i, b) BY <1>5, <1>6
  <2> QED BY <2>1 DEF NameFixed, Unlabelled
<1>7. NameFixed' = \A i \in Ids : \A a, b : Label(i, a)' /\ Label(i, b)' => a = b \/ Aside(i) \in {a, b}
  BY DEF NameFixed, Aside
<1> QED BY <1>6, <1>7

\* Only what has no provider session begets records without one.
LEMMA BareFrom ==
  ASSUME TInv, TInv', Kin, Blank, Blank', Newborn, [Next]_vars, NEW i \in Ids, Bare(i)'
  PROVE  Bare(i) \/ Unlabelled(i)
<1>1. PICK j, m : \A k \in Ids : Labelled(k, j, m) BY FileLabels
<1> DEFINE Fine(k) == Bare(k) \/ Unlabelled(k)
<1>2. ASSUME NEW k \in Ids, file'[k] # None, ~ file'[k].meta.psid PROVE Fine(k)
  BY <1>1, <1>2 DEF Labelled, BareGot
<1>3. ASSUME NEW q \in Procs, sess'[q] # None, ~ sess'[q].rec.meta.psid PROVE Fine(sess'[q].id)
  <2>1. sess'[q].id \in Ids BY <1>3 DEF TInv, PrivOK
  <2>2. CASE \E o \in Procs : SessOld(q, o) BY <1>3, <2>2 DEF SessOld, Bare
  <2>3. CASE SessFile(q) BY <1>3, <2>3 DEF SessFile, Bare
  <2>4. CASE SessNew(q) BY <1>2, <1>3, <2>1, <2>4 DEF SessNew
  <2> QED BY <1>3, <2>2, <2>3, <2>4, SessFrom
<1>4. ASSUME NEW q \in Procs, cur'[q] # None, ~ cur'[q].meta.psid PROVE Fine(sess'[q].id)
  <2>1. sess'[q].id = Id(q) /\ sess[q] # None BY <1>4, CurSame
  <2>2. CASE cur[q] # None /\ cur'[q] = cur[q] BY <1>4, <2>1, <2>2 DEF Bare
  <2>3. CASE CurFile(q) BY <1>4, <2>1, <2>3 DEF CurFile, Bare
  <2>4. CASE cur'[q] = sess[q].rec BY <1>4, <2>1, <2>4 DEF Bare, MetaOf
  <2>5. CASE IsStart(q)
    <3>1. ~ MetaOf(q).psid BY <2>1, <2>5 DEF IsStart, Newborn
    <3> QED BY <2>1, <3>1 DEF Bare
  <2> QED BY <1>4, <2>2, <2>3, <2>4, <2>5, CurSame DEF CurSess
<1> QED BY <1>2, <1>3, <1>4 DEF Bare, Id, MetaOf

LEMMA NewbornSame ==
  ASSUME Newborn, NEW q \in Procs, sess'[q] = sess[q], cmd'[q] = cmd[q],
         cmd'[q] \in {"start", "startd", "startw"}, sess'[q] # None
  PROVE  ~ sess'[q].rec.meta.psid /\ sess'[q].rec.name \in Names
BY DEF Newborn, MetaOf

LEMMA NewbornStep ==
  ASSUME TInv, TInv', Kin, Blank, Newborn, [Next]_vars PROVE Newborn'
<1> DEFINE Fine(q) == ~ sess'[q].rec.meta.psid /\ sess'[q].rec.name \in Names
<1> SUFFICES ASSUME NEW q \in Procs, cmd'[q] \in {"start", "startd", "startw"}, sess'[q] # None
             PROVE  Fine(q)
  BY DEF Newborn, MetaOf
<1>1. ASSUME sess'[q] = sess[q], cmd'[q] = cmd[q] PROVE Fine(q) BY <1>1, NewbornSame
<1>2. CASE Stands BY <1>1, <1>2, StandsAll
<1>3. ASSUME NEW p \in Procs, Ends(p) PROVE Fine(q)
  <2>1. PICK S \in SUBSET Procs : LeaveAll(S) BY <1>3, EndsFrame
  <2>2. sess'[q] = IF q \in S THEN None ELSE sess[q] BY <2>1 DEF LeaveAll
  <2>3. cmd'[q] = cmd[q] \/ sess'[q] = None
    BY <1>3, EndsFrame DEF LeaveAll, TInv, OsOK
  <2> QED BY <1>1, <2>2, <2>3
<1>4. ASSUME NEW p \in Procs, Opens(p) PROVE Fine(q)
  <2>1. PICK c \in Commands, i \in Ids,
            l \in {"release", "check", "scan", "stop", "rate", "delete"} :
          /\ Open(p, c, i, l)
          /\ c \in {"start", "startd"} =>
               file[i].name \in Names /\ Releasable(file[i].meta)
    BY <1>4, OpensAt
  <2>2. /\ sess' = [sess EXCEPT ![p] = [id |-> i, rec |-> file[i]]]
        /\ cmd' = [cmd EXCEPT ![p] = c]
    BY <2>1 DEF Open, Begin
  <2>3. CASE q = p
    <3>1. sess'[q].rec = file[i] /\ cmd'[q] = c BY <2>2, <2>3 DEF TInv, PrivOK, OsOK
    <3>2. c \in {"start", "startd"} BY <3>1 DEF Commands
    <3> QED BY <2>1, <3>1, <3>2 DEF Releasable
  <2>4. CASE q # p BY <1>1, <2>2, <2>4 DEF TInv, PrivOK, OsOK
  <2> QED BY <2>3, <2>4
<1>5. ASSUME NEW p \in Procs, NEW c, NEW n \in Names, NEW i \in Ids, Enter(p, c, i, n),
             q # p => cmd'[q] = cmd[q]
      PROVE  Fine(q)
  <2>1. n \in AllNames BY DEF AllNames
  <2>2. file'[i].name = n /\ file'[i].meta = Reservation(p, c) BY <1>5, <2>1, EnterSets
  <2>3. sess' = [sess EXCEPT ![p] = [id |-> i, rec |-> file'[i]]] BY <1>5 DEF Enter
  <2>4. CASE q = p
    <3>1. sess'[q].rec = file'[i] BY <2>3, <2>4 DEF TInv, PrivOK
    <3> QED BY <2>2, <3>1 DEF Reservation
  <2>5. CASE q # p BY <1>1, <1>5, <2>3, <2>5 DEF TInv, PrivOK
  <2> QED BY <2>4, <2>5
<1>6. ASSUME NEW p \in Procs, NEW c \in Commands, NEW n \in Names, NEW i \in Ids,
             Start(p, c, i, n)
      PROVE  Fine(q)
  BY <1>5, <1>6 DEF Start, Begin, TInv, OsOK
<1>7. ASSUME NEW p \in Procs, NEW i \in Ids, Reserve(p, i) PROVE Fine(q)
  <2>1. sess[p].rec.name \in Names
    BY <1>7, StartBare DEF Reserve, At, Kin, Fits
  <2> QED BY <1>5, <1>7, <2>1 DEF Reserve, os
<1>8. ASSUME NEW p \in Procs, NEW w \in Procs, Launch(p, w) PROVE Fine(q)
  <2>1. /\ sess' = [sess EXCEPT ![w] = sess[p]]
        /\ cmd' = [cmd EXCEPT ![w] = IF cmd[p] = "startd" THEN "startw" ELSE "resumew"]
        /\ pc[p] = "launch"
    BY <1>8 DEF Launch, At
  <2>2. CASE q = w
    <3>1. sess'[q] = sess[p] /\ cmd[p] = "startd"
      BY <2>1, <2>2 DEF TInv, PrivOK, OsOK
    <3> QED BY <2>1, <3>1, StartBare DEF MetaOf
  <2>3. CASE q # w BY <1>1, <2>1, <2>3 DEF TInv, PrivOK, OsOK
  <2> QED BY <2>2, <2>3
<1>9. ASSUME NEW p \in Procs, NEW w \in Procs, Register(p, w) PROVE Fine(q)
  <2>1. pc[p] = "register" /\ cmd' = cmd BY <1>9 DEF Register, At, os
  <2> DEFINE x == [MetaOf(p) EXCEPT !.status = "running", !.proc = w, !.worker = w]
  <2>2. /\ MetaOf(p) \in Meta /\ w \in Pid /\ "running" \in Status /\ Id(p) \in Ids
        /\ sess[p].rec \in Record
    BY <2>1, SessIn DEF Status, Pid
  <2>3. x \in Meta /\ x.psid = MetaOf(p).psid BY <2>2 DEF Meta
  <2>4. SaveOn(p, x) BY <1>9 DEF Register
  <2> HIDE DEF x
  <2>5. sess' = [sess EXCEPT ![p] = [id |-> Id(p), rec |-> file'[Id(p)]]]
    BY <2>1, <2>3, <2>4, SaveOnSess
  <2>6. file'[Id(p)].name = sess[p].rec.name /\ file'[Id(p)].meta = x
    <3> DEFINE r == [sess[p].rec EXCEPT !.meta = x]
    <3>1. r \in Record /\ r.name = sess[p].rec.name /\ r.meta = x BY <2>2, <2>3, MetaIn
    <3>2. Put(Id(p), r) BY <2>4 DEF SaveOn, Save
    <3> HIDE DEF r
    <3> QED BY <2>2, <3>1, <3>2, PutSets DEF TInv
  <2>7. CASE q = p
    <3>1. sess'[q].rec = file'[Id(p)] BY <2>5, <2>7 DEF TInv, PrivOK
    <3>2. ~ MetaOf(p).psid /\ sess[p].rec.name \in Names
      BY <2>1, <2>7, StartBare
    <3> QED BY <2>3, <2>6, <3>1, <3>2
  <2>8. CASE q # p BY <1>1, <2>1, <2>5, <2>8 DEF TInv, PrivOK
  <2> QED BY <2>7, <2>8
<1>10. ASSUME NEW p \in Procs, Poll(p) PROVE Fine(q) BY <1>1, <1>10 DEF Poll, priv, os
<1>11. ASSUME NEW p \in Procs, Walks(p), q # p PROVE Fine(q)
  BY <1>1, <1>11, WalksOthers DEF Same
<1>12. CASE Walks(q)
  <2>1. ASSUME \/ ResumeChecked(q) \/ Claim(q) \/ Reread(q) \/ \E i \in Ids : WaitFind(q, i)
        PROVE  FALSE
    BY <2>1 DEF ResumeChecked, Claim, Reread, WaitFind, os, Kin, Fits, At
  <2>2. CASE \/ Release(q) \/ Snapshot(q) \/ (SnapshotFails(q) /\ IsWorker(q)) \/ Spawn(q)
             \/ SpawnFails(q) \/ ReadEvent(q) \/ SaveEvent(q)
             \/ \E o \in {"completed", "failed", "stopped"} : EndTurn(q, o)
             \/ \E j \in Ids : FinishStart(q, j)
    BY <1>1, <2>2 DEF Release, Snapshot, SnapshotFails, Spawn, SpawnFails, ReadEvent,
                      SaveEvent, EndTurn, FinishStart, priv, os
  <2>3. CASE \/ DropReserved(q) \/ FailStart(q) \/ FinishResume(q) \/ FailResume(q)
             \/ Wrap(q) \/ WrapUp(q) \/ WaitScan(q) \/ WaitAgain(q) \/ WaitCondemns(q)
    BY <1>1, <2>3 DEF DropReserved, FailStart, FinishResume, FailResume, Wrap, WrapUp,
                      WaitScan, WaitAgain, WaitCondemns, priv, os
  <2>4. CASE Observe(q)
    <3>1. cmd' = cmd BY <2>4 DEF Observe, os
    <3>2. IsStart(q) => sess' = sess BY <2>4 DEF Observe
    <3>3. cmd[q] # "startd" BY <2>4 DEF Observe, Kin, Fits, At, Turner
    <3> QED BY <1>1, <3>1, <3>2, <3>3 DEF IsStart
  <2> QED BY <1>7, <1>12, <2>1, <2>2, <2>3, <2>4 DEF Walks
<1> QED
  BY <1>2, <1>3, <1>4, <1>6, <1>8, <1>9, <1>10, <1>11, <1>12, NextSorted

\* A record that will not be set aside: no copy of it lacks its provider
\* session, none has that name.
Settled(j) == ~ Bare(j) /\ ~ Label(j, Aside(j))

LEMMA SettledStep ==
  ASSUME TInv, TInv', Kin, Blank, Blank', Newborn, [Next]_vars, NEW j \in Ids,
         file[j] # None, Settled(j)
  PROVE  Settled(j)'
<1>1. ~ Unlabelled(j) BY DEF Unlabelled, Label
<1>2. ~ Bare(j)' BY <1>1, BareFrom DEF Settled
<1> DEFINE a == Aside(j)
<1>3. PICK k, m : \A i \in Ids : Labelled(i, k, m) BY FileLabels
<1>4. file'[j] # None => file'[j].name # a
  BY <1>1, <1>3 DEF Labelled, NameGot, Settled
<1>5. ASSUME NEW q \in Procs, sess'[q] # None, sess'[q].id = j PROVE sess'[q].rec.name # a
  <2>1. CASE \E o \in Procs : SessOld(q, o) BY <1>5, <2>1 DEF SessOld, Label, Settled
  <2>2. CASE SessFile(q) BY <1>5, <2>2 DEF SessFile, Label, Settled
  <2>3. CASE SessNew(q) BY <1>4, <1>5, <2>3 DEF SessNew
  <2> QED BY <1>5, <2>1, <2>2, <2>3, SessFrom
<1>6. ASSUME NEW q \in Procs, cur'[q] # None, sess'[q].id = j PROVE cur'[q].name # a
  <2>1. Id(q) = j /\ sess[q] # None BY <1>6, CurSame
  <2>2. Label(Id(q), cur'[q].name) BY <1>6, CurLabel
  <2> QED BY <2>1, <2>2 DEF Settled
<1>7. ~ Label(j, a)' BY <1>4, <1>5, <1>6 DEF Label, Id
<1> QED BY <1>2, <1>7 DEF Settled, Aside

\* The second record that a start about to remove its reservation has stored.
Replaced(p) ==
  \E j \in Ids : file[j] # None /\ Settled(j) /\ file[j].name = sess[p].rec.name
NoDelete == \A p \in Procs : cmd[p] # "delete"
Swapped == NoDelete => \A p \in Procs : At(p, "swap") => Replaced(p)

NInv == KInv /\ NameFixed /\ Newborn /\ Swapped

LEMMA StillNoDelete == ASSUME Kin, Moves, NoDelete' PROVE NoDelete
BY NoneAssumption DEF NoDelete, Moves, Kin, Fits, At, Commands

\* As long as nobody deletes, a stored record goes only as the reservation of
\* a start, and it keeps its name unless it is set aside, or was.
LEMMA FileKept ==
  ASSUME TInv, Kin, NameFixed, NoDelete, [Next]_vars, NEW j \in Ids, file[j] # None
  PROVE  \/ /\ file'[j] # None
            /\ file'[j].name = file[j].name \/ Aside(j) \in {file[j].name, file'[j].name}
         \/ \E p \in Procs : At(p, "swap") /\ Id(p) = j
<1> DEFINE Good(n) == n = file[j].name \/ Aside(j) \in {file[j].name, n}
           Fine == file'[j] # None /\ Good(file'[j].name)
<1>1. \A n : Label(j, n) => Good(n) BY DEF NameFixed, Label
<1>2. ASSUME UNCHANGED store PROVE Fine BY <1>2 DEF store
<1>3. ASSUME NEW p \in Procs, pc[p] \notin {"new", "gone"}
      PROVE  Id(p) \in Ids /\ sess[p] # None /\ Label(Id(p), sess[p].rec.name)
  BY <1>3, SessIn DEF TInv, Held, Label
<1>4. ASSUME NEW p \in Procs, Saves(p) PROVE Fine
  <2>1. CASE Saved(p)
    <3>1. PICK i \in Ids, r \in Record : Put(i, r) /\ NameFrom(p, i, r)
      BY <2>1 DEF Saved
    <3>2. /\ file'[i].name = r.name /\ file'[i] \in Record
          /\ \A k \in Ids \ {i} : file'[k] = file[k]
      BY <3>1, PutSets DEF TInv
    <3>3. pc[p] \notin {"new", "gone"} BY <1>4, SavesAtWork
    <3>4. i = j => Label(j, r.name) \/ r.name = Aside(j)
      BY <1>3, <3>1, <3>3 DEF NameFrom, Label, Fresh
    <3> HIDE DEF Good
    <3>5. i = j => Good(r.name) BY <1>1, <3>4 DEF Good
    <3>6. Good(file[j].name) BY DEF Good
    <3> QED BY <3>2, <3>5, <3>6, NoneAssumption
  <2> QED BY <1>2, <1>4, <2>1, SavesRecord
<1>5. ASSUME NEW p \in Procs, NEW c, NEW n \in AllNames, NEW i \in Ids, Enter(p, c, i, n)
      PROVE  Fine
  <2>1. file[i] = None BY <1>5 DEF Enter, Fresh
  <2>2. \A k \in Ids \ {i} : file'[k] = file[k] BY <1>5, EnterSets
  <2> QED BY <2>1, <2>2
<1>6. ASSUME NEW p \in Procs, NEW i \in Ids, Reserve(p, i) PROVE Fine
  <2>1. sess[p].rec.name \in AllNames BY <1>6, SessIn DEF Reserve, At
  <2> QED BY <1>5, <1>6, <2>1 DEF Reserve
<1>7. ASSUME NEW p \in Procs, FinishResume(p) PROVE Fine
  <2>1. CASE file[Id(p)] # None
    <3>1. pc[p] \notin {"new", "gone"} BY <1>7 DEF FinishResume, At
    <3>0. PICK b \in BOOLEAN : Rewrite(Id(p), sess[p].rec.name, TurnDone(MetaOf(p), b), snap[p])
      BY <1>7, <2>1 DEF FinishResume
    <3> DEFINE x == TurnDone(MetaOf(p), b)
               r == [name |-> sess[p].rec.name, meta |-> x,
                     pending |-> file[Id(p)].pending \ snap[p]]
    <3>2. /\ Id(p) \in Ids /\ MetaOf(p) \in Meta /\ sess[p].rec.name \in AllNames
      BY <3>1, SessIn
    <3>3. x \in Meta BY <3>2, TurnDoneIn
    <3>4. file[Id(p)].pending \subseteq Msgs BY <2>1, <3>2, FileIn DEF Record
    <3>7. Rewrite(Id(p), sess[p].rec.name, x, snap[p]) BY <3>0
    <3> HIDE DEF x
    <3>5. r \in Record /\ r.name = sess[p].rec.name BY <3>2, <3>3, <3>4 DEF Record
    <3>6. file' = [file EXCEPT ![Id(p)] = r] BY <3>7 DEF Rewrite
    <3> HIDE DEF r, Good
    <3>8. Id(p) = j => Good(r.name) BY <1>1, <1>3, <3>1, <3>5
    <3>9. Good(file[j].name) BY DEF Good
    <3> QED BY <3>2, <3>5, <3>6, <3>8, <3>9, NoneAssumption DEF TInv, RegistryTypeOK
  <2> QED BY <1>2, <1>7, <2>1 DEF FinishResume
<1>8. ASSUME NEW p \in Procs, DropReserved(p)
      PROVE  Fine \/ (At(p, "swap") /\ Id(p) = j)
  BY <1>2, <1>8 DEF DropReserved, Delete, TInv, RegistryTypeOK
<1>9. ASSUME NEW p \in Procs, DeleteDone(p) PROVE FALSE
  BY <1>9 DEF DeleteDone, NoDelete, Kin, Fits, At
<1>10. ASSUME NEW i \in Ids, NEW m \in Msgs, Send(i, m) PROVE Fine
  <2>1. file' = [file EXCEPT ![i].pending = @ \cup {m}] BY <1>10 DEF Send, Enqueue
  <2>2. file[j] \in Record BY FileIn
  <2>3. [file[j] EXCEPT !.pending = @ \cup {m}] \in Record
    BY <1>10, <2>2 DEF Record
  <2>4. [file[j] EXCEPT !.pending = @ \cup {m}].name = file[j].name
    BY <2>2 DEF Record
  <2> QED BY <2>1, <2>3, <2>4, NoneAssumption DEF TInv, RegistryTypeOK
<1>11. CASE UNCHANGED vars BY <1>2, <1>11 DEF vars, store
<1>12. ASSUME NEW p \in Procs, NEW c \in Commands, NEW n \in Names, NEW i \in Ids,
              Start(p, c, i, n)
       PROVE  Fine
  BY <1>5, <1>12 DEF Start, AllNames
<1> QED
  BY <1>2, <1>4, <1>6, <1>7, <1>8, <1>9, <1>10, <1>11, <1>12, NextSplit, ReadsFrame

\* No start is about to remove a settled record.
LEMMA SettledStays ==
  ASSUME TInv, Kin, NameFixed, Newborn, NoDelete, [Next]_vars, NEW j \in Ids,
         file[j] # None, Settled(j), Settled(j)'
  PROVE  file'[j] # None /\ file'[j].name = file[j].name
<1>1. ASSUME NEW q \in Procs, At(q, "swap") PROVE Id(q) # j
  <2>1. Bare(Id(q)) BY <1>1, StartBare DEF Kin, Fits, At
  <2> QED BY <2>1 DEF Settled
<1>2. file[j].name # Aside(j) BY DEF Settled, Label
<1>3. file'[j] # None => file'[j].name # Aside(j) BY DEF Settled, Label, Aside
<1> QED BY <1>1, <1>2, <1>3, FileKept

LEMMA SwapFrom ==
  ASSUME TInv, [Next]_vars, NEW q \in Procs, pc'[q] = "swap"
  PROVE  /\ sess'[q] = sess[q]
         /\ At(q, "swap") \/ \E j \in Ids \ {Id(q)} : FinishStart(q, j)
<1> USE DEF TInv, PrivOK, At, Go
<1>1. CASE Stands BY <1>1, StandsAll
<1>2. ASSUME NEW p \in Procs, Ends(p) PROVE sess'[q] = sess[q] /\ At(q, "swap")
  BY <1>2, EndsFrame DEF LeaveAll
<1>3. ASSUME NEW p \in Procs,
             \/ Opens(p) \/ Poll(p)
             \/ \E c \in Commands, n \in Names, i \in Ids : Start(p, c, i, n)
             \/ \E w \in Procs : Launch(p, w) \/ Register(p, w)
      PROVE  sess'[q] = sess[q] /\ At(q, "swap")
  <2>1. CASE Opens(p) BY <2>1, OpensAt DEF Open
  <2>2. CASE Poll(p) BY <2>2 DEF Poll, priv
  <2>3. CASE \E c \in Commands, n \in Names, i \in Ids : Start(p, c, i, n)
    BY <2>3 DEF Start, Enter
  <2>4. ASSUME NEW w \in Procs, Launch(p, w) \/ Register(p, w)
        PROVE  sess'[q] = sess[q] /\ At(q, "swap")
    BY <2>4 DEF Launch, Register, SaveOn
  <2> QED BY <1>3, <2>1, <2>2, <2>3, <2>4
<1>4. ASSUME NEW p \in Procs, Walks(p), q # p PROVE sess'[q] = sess[q] /\ At(q, "swap")
  BY <1>4, WalksOthers DEF Same
<1>5. ASSUME Walks(q) PROVE sess'[q] = sess[q] /\ \E j \in Ids \ {Id(q)} : FinishStart(q, j)
  <2>1. \E j \in Ids : FinishStart(q, j)
    BY <1>5 DEF Walks, Release, Reserve, Enter, ResumeChecked, Snapshot, SnapshotFails, Claim, Reread,
       Spawn, SpawnFails, Observe, ReadEvent, SaveEvent, EndTurn, DropReserved,
       FailStart, FinishResume, FailResume, Wrap, WrapUp, WaitFind, WaitAgain,
       WaitCondemns, WaitScan
  <2> QED BY <2>1 DEF FinishStart, priv
<1> QED BY <1>1, <1>2, <1>3, <1>4, <1>5, NextSorted

\* The record that a successful start stores.
OldMeta(p) ==
  IF file[Id(p)] # None THEN file[Id(p)].meta ELSE InitialSession(p).meta

LEMMA FinishStartSaves ==
  ASSUME TInv, NEW p \in Procs, NEW j \in Ids, FinishStart(p, j)
  PROVE  /\ file'[j] \in Record /\ file'[j].name = sess[p].rec.name
         /\ file'[j].meta.status = "completed" /\ file'[j].meta.turn = 1
         /\ file'[j].meta.proc = IF IsWorker(p) THEN OldMeta(p).proc ELSE None
         /\ file'[j].meta.worker = None
         /\ j # Id(p) => file'[j].meta.psid
         /\ \A k \in Ids \ {j} : file'[k] = file[k]
<1>1. pc[p] \notin {"new", "gone"} BY DEF FinishStart, At
<1>2. /\ Id(p) \in Ids /\ p \in Pid /\ None \in Pid /\ sess[p].rec.name \in AllNames
  BY <1>1, SessIn
<1>3. OldMeta(p) \in Meta BY <1>1, <1>2, FileIn, InitialIn DEF Record, OldMeta
<1> DEFINE done(s) ==
      [status |-> "completed", prov |-> OldMeta(p).prov, worker |-> None,
       turn |-> 1, psid |-> s, proc |-> IF IsWorker(p) THEN OldMeta(p).proc ELSE None,
       caller |-> IF IsWorker(p) THEN OldMeta(p).caller ELSE p]
<1>4. PICK s \in IF IsWorker(p) THEN BOOLEAN ELSE {j # Id(p)} :
        Put(j, [name |-> sess[p].rec.name, meta |-> done(s), pending |-> {}])
  BY DEF FinishStart, OldMeta
<1>5. s \in BOOLEAN /\ (j # Id(p) => s)
  BY <1>4 DEF FinishStart
<1> DEFINE x == done(s)
           r == [name |-> sess[p].rec.name, meta |-> x, pending |-> {}]
<1>6. x \in Meta BY <1>2, <1>3, <1>5 DEF Meta, Status
<1>7. /\ x.status = "completed" /\ x.turn = 1 /\ x.worker = None /\ x.psid = s
      /\ x.proc = IF IsWorker(p) THEN OldMeta(p).proc ELSE None
  OBVIOUS
<1>8. Put(j, r) BY <1>4
<1> HIDE DEF x
<1>9. r \in Record /\ r.name = sess[p].rec.name /\ r.meta = x BY <1>2, <1>6 DEF Record
<1> HIDE DEF r
<1>10. /\ file'[j] \in Record /\ file'[j].name = r.name /\ file'[j].meta = r.meta
       /\ \A k \in Ids \ {j} : file'[k] = file[k]
  BY <1>8, <1>9, PutSets DEF TInv
<1> QED BY <1>5, <1>7, <1>9, <1>10

\* The second record of a start is settled once it is stored.
LEMMA SecondSettled ==
  ASSUME TInv, TInv', Blank, Blank', Newborn, NEW p \in Procs, NEW j \in Ids \ {Id(p)},
         FinishStart(p, j)
  PROVE  Settled(j)'
<1>1. Unlabelled(j) BY FreshIsUnlabelled DEF FinishStart
<1>2. file'[j] # None /\ file'[j].meta.psid /\ file'[j].name = sess[p].rec.name
  BY FinishStartSaves, NoneAssumption
<1>3. sess[p].rec.name \in Names
  BY StartBare DEF FinishStart, At, IsStart
<1>4. file'[j].name # Aside(j) BY <1>2, <1>3, AsideAssumption
<1>5. sess' = sess /\ cur' = cur BY DEF FinishStart, priv
<1>6. \A q \in Procs : sess'[q] # None => sess'[q].id # j
  BY <1>5 DEF FinishStart, Fresh, Id
<1>10. \A q \in Procs : cur'[q] # None => sess'[q] # None
  BY DEF Blank, Empty, TInv, Held
<1>7. ~ Bare(j)' BY <1>2, <1>6, <1>10 DEF Bare, Id
<1> DEFINE a == Aside(j)
<1>8. ~ Label(j, a)' BY <1>4, <1>6, <1>10 DEF Label, Id
<1> QED BY <1>7, <1>8 DEF Settled, Aside

LEMMA SwappedStep ==
  ASSUME NInv, KInv', Moves, [Next]_vars PROVE Swapped'
<1> SUFFICES ASSUME NoDelete', NEW p \in Procs, pc'[p] = "swap" PROVE Replaced(p)'
  BY DEF Swapped, At
<1> USE DEF NInv, KInv
<1>1. NoDelete BY StillNoDelete
<1>2. sess'[p] = sess[p] BY SwapFrom
<1>3. CASE At(p, "swap")
  <2>1. PICK j \in Ids : file[j] # None /\ Settled(j) /\ file[j].name = sess[p].rec.name
    BY <1>1, <1>3 DEF Swapped, Replaced
  <2>2. Settled(j)' BY <2>1, SettledStep
  <2>3. file'[j] # None /\ file'[j].name = file[j].name
    BY <1>1, <2>1, <2>2, SettledStays
  <2> QED BY <1>2, <2>1, <2>2, <2>3 DEF Replaced
<1>4. ASSUME NEW j \in Ids \ {Id(p)}, FinishStart(p, j) PROVE Replaced(p)'
  <2>1. file'[j] # None /\ file'[j].name = sess[p].rec.name
    BY <1>4, FinishStartSaves, NoneAssumption
  <2>2. Settled(j)' BY <1>4, SecondSettled
  <2> QED BY <1>2, <2>1, <2>2 DEF Replaced
<1> QED BY <1>3, <1>4, SwapFrom

LEMMA NInvStep == ASSUME NInv, [Next]_vars PROVE NInv'
<1> USE DEF NInv
<1>1. KInv' /\ Moves BY KInvStep
<1>2. NameFixed' BY <1>1, NameFixedStep DEF KInv
<1>3. Newborn' BY <1>1, NewbornStep DEF KInv
<1>4. Swapped' BY <1>1, SwappedStep
<1> QED BY <1>1, <1>2, <1>3, <1>4

LEMMA InitNInv == Init => NInv
<1> SUFFICES ASSUME Init PROVE NInv OBVIOUS
<1>1. KInv BY InitKInv
<1>2. NameFixed BY DEF Init, NameFixed, Label
<1>3. Swapped BY DEF Init, Swapped, At
<1>4. Newborn BY DEF Init, Newborn
<1> QED BY <1>1, <1>2, <1>3, <1>4 DEF NInv

LEMMA NameKeptStep ==
  ASSUME NInv, [Next]_vars, NoDelete, NEW n \in Names, NEW i \in Present, file[i].name = n
  PROVE  \/ \E j \in Ids : file'[j] # None /\ file'[j].name = n
         \/ file'[i] # None /\ file'[i].name = Aside(i)
<1> USE DEF NInv, KInv
<1>1. i \in Ids /\ file[i] # None BY DEF Present
<1>2. n # Aside(i) BY <1>1, AsideAssumption
<1>3. ASSUME NEW p \in Procs, At(p, "swap"), Id(p) = i
      PROVE  \E j \in Ids : file'[j] # None /\ file'[j].name = n
  <2>1. PICK j \in Ids : file[j] # None /\ Settled(j) /\ file[j].name = sess[p].rec.name
    BY <1>3 DEF Swapped, Replaced
  <2>2. sess[p] # None /\ sess[p].rec.name \in Names
    BY <1>3, StartBare DEF Kin, Fits, At
  <2>3. sess[p].rec.name = n
    BY <1>1, <1>2, <1>3, <2>2, AsideAssumption DEF NameFixed, Label
  <2>4. Settled(j)' BY <2>1, SettledStep, NInvStep
  <2>5. file'[j] # None /\ file'[j].name = file[j].name
    BY <2>1, <2>4, SettledStays
  <2> QED BY <2>1, <2>3, <2>5
<1> QED BY <1>1, <1>2, <1>3, FileKept

\* As long as nobody deletes, a name that some session has is never lost: not
\* while a start replaces its reservation by the provider's ID, nor when several
\* starts set failed ones aside; what is set aside is still stored.
THEOREM NameIsKept == Spec => NameKept
<1>1. NInv /\ [Next]_vars =>
        ((\A p \in Procs : cmd[p] # "delete") =>
           \A n \in Names, i \in Present : file[i].name = n =>
             \/ \E j \in Ids : file'[j] # None /\ file'[j].name = n
             \/ file'[i] # None /\ file'[i].name = Aside(i))
  BY NameKeptStep DEF NoDelete
<1> QED BY InitNInv, NInvStep, <1>1, PTL DEF Spec, NameKept
-----------------------------------------------------------------------------
(* One turn and its waits. *)

\* One turn and its waits, without counting.
Alone ==
  /\ \A p, q \in Launchers : p = q
  /\ \A p \in Procs : cmd[p] \notin {"stop", "rate", "delete"}

OutcomeFits ==
  \A i \in Ids : outcome[i] # None /\ file[i] # None => file[i].meta.status = outcome[i]
OutcomeEnds == \A i \in Ids : outcome[i] # "running"

\* Before the launcher has claimed a session, nothing of a turn is to be seen.
Before == {"release", "reserve", "check", "snapshot", "claim"}
Untouched == \A l \in Launchers : pc[l] \in Before
Nothing ==
  Untouched =>
    /\ \A i \in Ids : outcome[i] = None /\ (file[i] # None => file[i].meta.status # "running")
    /\ \A p \in Procs : sess[p] # None => MetaOf(p).status # "running"

\* The places of a command where its turn has not ended, and among them those
\* of the process that runs it.
Claimed == {"launch", "register", "poll", "reread", "spawn", "observe", "early", "event",
            "turn", "report"}
Running(p) ==
  \/ pc[p] \in {"reread", "spawn", "observe", "early", "event", "turn", "report"}
  \/ At(p, "snapshot") /\ IsWorker(p)

Own(p) == file[Id(p)].meta
Leads(p, x) == x.proc = p /\ (IsWorker(p) => x.worker = p)
Follows(p) ==
  /\ pc[p] \in Claimed \cup {"check", "snapshot", "claim"} =>
       file[Id(p)] # None /\ outcome[Id(p)] = None /\ Own(p).turn = MetaOf(p).turn
  /\ pc[p] \in Claimed \/ Running(p) => Own(p).status = "running"
  /\ Running(p) => Leads(p, Own(p))
  /\ pc[p] \in {"observe", "event"} =>
       /\ Leads(p, cur[p].meta)
       /\ cur[p].meta.status = "running" /\ cur[p].meta.turn = MetaOf(p).turn
  /\ Running(p) /\ ~ At(p, "reread") /\ cmd[p] = "resumew" => MetaOf(p).worker = p
  /\ At(p, "poll") /\ Own(p).proc = p => Own(p).worker = p
  /\ pc[p] \in {"wrap", "wrapup"} => file[Id(p)] # None /\ p \in {Own(p).proc, Own(p).worker}
  /\ At(p, "wrapup") => cur[p].meta.turn = Own(p).turn
  /\ At(p, "launch") /\ cmd[p] = "resumed" => cur[p].meta.turn = Own(p).turn
  /\ At(p, "release") => file[Id(p)] # None /\ Own(p) = MetaOf(p)
  /\ cmd[p] \in {"start", "startd", "startw"} /\ sess[p] # None
       /\ pc[p] \notin {"release", "reserve"} => MetaOf(p).turn = 0

\* The turn is over, and so is its launcher.
Over ==
  /\ Launchers # {}
  /\ \A p \in Procs : (Turner(p) => At(p, "gone")) /\ (p \in Launchers => Past(p))
Awaits(p) ==
  /\ cmd[p] = "wait" /\ sess[p] # None /\ MetaOf(p).status = "running"
     /\ file[Id(p)] # None /\ Own(p).status = "running" => Own(p).turn = MetaOf(p).turn
  /\ At(p, "condemn") => /\ Over /\ outcome[Id(p)] = None /\ file[Id(p)] # None
                         /\ Own(p).turn = MetaOf(p).turn

One == Alone => Nothing /\ OutcomeFits /\ \A p \in Procs : Follows(p) /\ Awaits(p)

OInv == KInv /\ OutcomeEnds /\ One

\* What an action of Alone's processes relies on.
Now ==
  /\ KInv /\ Alone /\ OutcomeEnds /\ Nothing /\ OutcomeFits
  /\ \A p \in Procs : Follows(p) /\ Awaits(p)

LEMMA AtMostOne ==
  ASSUME NEW S \in SUBSET Procs, Cardinality(S) <= 1, NEW p \in S, NEW q \in S PROVE p = q
<1> SUFFICES ASSUME p # q PROVE FALSE OBVIOUS
<1>1. IsFiniteSet(S) BY TurnAssumption, FS_Subset DEF TurnAssumption
<1>2. {p, q} \subseteq S /\ IsFiniteSet({p, q}) /\ Cardinality({p, q}) = 2
  <2>1. IsFiniteSet({p}) /\ Cardinality({p}) = 1 /\ q \notin {p} BY FS_Singleton
  <2>2. Cardinality({p} \cup {q}) = Cardinality({p}) + 1 BY <2>1, FS_AddElement
  <2>3. {p} \cup {q} = {p, q} OBVIOUS
  <2>4. IsFiniteSet({p, q}) BY <1>1, FS_Subset
  <2> QED BY <2>1, <2>2, <2>3, <2>4
<1>3. Cardinality({p, q}) <= Cardinality(S) BY <1>1, <1>2, FS_Subset
<1>4. Cardinality(S) \in Nat BY <1>1, FS_CardinalityType
<1> QED BY <1>2, <1>3, <1>4

LEMMA OneCommandAlone ==
  (OneCommand => Alone) /\ (OneCommand' => Alone')
BY AtMostOne DEF OneCommand, Alone, Launchers

LEMMA AloneBefore ==
  ASSUME Kin, Moves, Alone' PROVE Alone /\ Launchers \subseteq Launchers'
<1>1. \A p \in Procs : cmd[p] # None => cmd'[p] = cmd[p]
  BY DEF Kin, Fits, Moves, At
<1>2. Launchers \subseteq Launchers'
  BY <1>1, NoneAssumption DEF Launchers, Commands
<1>3. \A p \in Procs : cmd[p] \notin {"stop", "rate", "delete"}
  BY <1>1, NoneAssumption DEF Alone, Commands
<1> QED BY <1>2, <1>3 DEF Alone

\* Whoever is in a command other than a wait.
Busy(p) == cmd[p] # "wait" /\ pc[p] \notin {"new", "gone", "watch"}

LEMMA BusyWho ==
  ASSUME TInv, Kin, Alone, NEW p \in Procs, Busy(p)
  PROVE  p \in Launchers \/ (IsWorker(p) /\ boss[p] \in Launchers)
<1>1. cmd[p] \in Commands \cup {"startw", "resumew"}
  BY DEF Busy, TInv, OsOK, Kin, Fits, At
<1>2. cmd[p] # "worker"
  <2> USE DEF Kin, Fits, At, Turner, IsStart, IsWorker
  <2>1. pc[p] \in Location BY DEF TInv, PrivOK
  <2> QED BY <2>1 DEF Busy, Location
<1>3. CASE IsWorker(p) BY <1>3 DEF Kin, Belongs, Launchers
<1> QED BY <1>1, <1>2, <1>3 DEF Commands, Alone, Launchers, IsWorker, Busy

\* Two at once are a launcher and the worker it has not recorded yet.
LEMMA BusyPair ==
  ASSUME TInv, Kin, Alone, NEW p \in Procs, NEW q \in Procs, Busy(p), Busy(q), p # q
  PROVE  \/ At(p, "register") /\ At(q, "poll") /\ boss[q] = p
         \/ At(q, "register") /\ At(p, "poll") /\ boss[p] = q
<1>1. \/ p \in Launchers /\ IsWorker(q) /\ boss[q] = p
      \/ q \in Launchers /\ IsWorker(p) /\ boss[p] = q
  BY BusyWho DEF Alone, Launchers, Kin, IsWorker
<1> QED BY <1>1 DEF Kin, Belongs, Past, Busy, At

LEMMA FollowersBusy ==
  ASSUME Kin, Alone, NEW p \in Procs,
         pc[p] \in Claimed \cup Before \cup {"wrap", "wrapup"}
  PROVE  Busy(p)
BY DEF Kin, Before, Fits, Turner, IsStart, IsWorker, Claimed, Busy, At

LEMMA OverNoneBusy ==
  ASSUME TInv, Kin, Alone, Over, NEW p \in Procs PROVE ~ Busy(p)
BY BusyWho DEF Over, Busy, Turner, IsWorker, Past, At

\* How a step may change what is stored under i.
Still(i) == /\ file[i] # None /\ file[i].meta.status = "running"
            /\ file'[i].meta.turn = file[i].meta.turn
First(i) == \A q \in Procs : sess[q] # None /\ Id(q) = i => MetaOf(q).status # "running"
Touches(i) ==
  /\ file[i] # None /\ file'[i] # None => file[i].meta.turn <= file'[i].meta.turn
  /\ outcome'[i] # None /\ file'[i] # None => file'[i].meta.status = outcome'[i]
  /\ outcome'[i] # "running"
  /\ file'[i] # None /\ file'[i].meta.status = "running" => Still(i) \/ First(i)
Effect == \A i \in Ids : Touches(i)

\* Only queues have changed, if anything.
Calm ==
  /\ UNCHANGED outcome
  /\ \A i \in Ids : /\ file[i] # None <=> file'[i] # None
                    /\ file[i] # None => file'[i].meta = file[i].meta

\* What does not disturb a wait that is about to condemn.
Kept ==
  \A i \in Ids : file[i] # None =>
    file'[i] # None /\ file'[i].meta.turn = file[i].meta.turn /\ outcome'[i] = outcome[i]

LEMMA TurnIn == ASSUME TInv, NEW i \in Ids, file[i] # None PROVE file[i].meta.turn \in Nat
BY FileIn DEF Meta

LEMMA CalmEffect == ASSUME Now, Calm PROVE Effect /\ Kept
<1> SUFFICES ASSUME NEW i \in Ids
             PROVE  Touches(i) /\ (file[i] # None => file'[i] # None /\
                      file'[i].meta.turn = file[i].meta.turn /\ outcome'[i] = outcome[i])
  BY DEF Effect, Kept
<1>1. file[i] # None => file[i].meta.turn \in Nat BY TurnIn DEF Now, KInv
<1> QED BY <1>1 DEF Now, Calm, Touches, Still, OutcomeFits, OutcomeEnds

LEMMA SameFollows ==
  ASSUME Now, NEW q \in Procs, Same(q),
         Busy(q) => /\ outcome'[Id(q)] = outcome[Id(q)]
                    /\ file[Id(q)] # None => file'[Id(q)] # None /\
                                             file'[Id(q)].meta = file[Id(q)].meta
  PROVE  Follows(q)'
<1>1. CASE Busy(q)
  BY <1>1 DEF Now, Follows, Same, Claimed, Running, Leads, Own, Id, MetaOf, At, IsWorker
<1>2. CASE ~ Busy(q)
  BY <1>2, FollowersBusy
  DEF Now, KInv, Follows, Same, Before, Claimed, Running, Leads, Own, Id, MetaOf, At,
      IsWorker
<1> QED BY <1>1, <1>2

LEMMA CmdFrom ==
  ASSUME TInv, Kin, [Next]_vars, NEW q \in Procs, cmd'[q] # cmd[q]
  PROVE  cmd[q] = None /\ (cmd'[q] \in Commands \/ \E p \in Procs : Launch(p, q))
<1> USE DEF TInv, OsOK, Kin, Fits, At
<1>1. CASE Stands BY <1>1, StandsAll
<1>2. ASSUME NEW p \in Procs, Ends(p) PROVE cmd[q] = None /\ cmd'[q] \in Commands
  BY <1>2, EndsFrame
<1>3. ASSUME NEW p \in Procs,
             \/ Opens(p) \/ Poll(p)
             \/ \E c \in Commands, n \in Names, i \in Ids : Start(p, c, i, n)
             \/ \E w \in Procs : Register(p, w)
      PROVE  cmd[q] = None /\ cmd'[q] \in Commands
  <2>1. CASE Opens(p) BY <2>1, OpensAt DEF Open, Begin
  <2>2. CASE Poll(p) \/ \E w \in Procs : Register(p, w)
    <3>1. CASE Poll(p) BY <3>1 DEF Poll, os
    <3>2. ASSUME NEW w \in Procs, Register(p, w) PROVE FALSE BY <3>2 DEF Register, os
    <3> QED BY <2>2, <3>1, <3>2
  <2>3. CASE \E c \in Commands, n \in Names, i \in Ids : Start(p, c, i, n)
    BY <2>3 DEF Start, Enter, Begin
  <2> QED BY <1>3, <2>1, <2>2, <2>3
<1>4. ASSUME NEW p \in Procs, NEW w \in Procs, Launch(p, w)
      PROVE  cmd[q] = None /\ Launch(p, q)
  BY <1>4 DEF Launch
<1>5. ASSUME NEW p \in Procs, Walks(p) PROVE FALSE
  BY <1>5 DEF Walks, Release, Reserve, ResumeChecked, Snapshot, SnapshotFails, Claim, Reread,
       Spawn, SpawnFails, Observe, ReadEvent, SaveEvent, EndTurn, FinishStart, DropReserved,
       FailStart, FinishResume, FailResume, Wrap, WrapUp, WaitFind, WaitScan, WaitAgain,
       WaitCondemns, os
<1> QED BY <1>1, <1>2, <1>3, <1>4, <1>5, NextSorted

LEMMA OverStays ==
  ASSUME TInv, Kin, Moves, Alone', Over, [Next]_vars PROVE Over'
<1>1. Alone /\ Launchers \subseteq Launchers' BY AloneBefore
<1>2. Launchers' = Launchers BY <1>1 DEF Alone, Over
<1>3. ASSUME NEW p \in Procs, Turner(p)' PROVE At(p, "gone")'
  <2>1. CASE cmd'[p] = cmd[p]
    <3>1. At(p, "gone") BY <1>3, <2>1 DEF Over, Turner
    <3> QED BY <3>1 DEF Moves, At
  <2>2. CASE cmd'[p] # cmd[p]
    <3>1. cmd[p] = None BY <2>2, CmdFrom
    <3>2. CASE cmd'[p] \in Commands
      <4>1. p \in Launchers' BY <1>3, <3>2 DEF Turner, Launchers, Commands
      <4> QED BY <1>2, <3>1, <4>1, NoneAssumption DEF Launchers, Commands
    <3>3. ASSUME NEW l \in Procs, Launch(l, p) PROVE FALSE
      <4>1. l \in Launchers /\ At(l, "launch") BY <3>3 DEF Launch, Kin, Fits, At, Launchers
      <4> QED BY <4>1 DEF Over, Past, At
    <3> QED BY <2>2, <3>2, <3>3, CmdFrom
  <2> QED BY <2>1, <2>2
<1>4. ASSUME NEW p \in Procs, p \in Launchers' PROVE Past(p)'
  BY <1>2, <1>4 DEF Over, Moves
<1> QED BY <1>2, <1>3, <1>4 DEF Over

LEMMA SessId == ASSUME TInv, NEW q \in Procs, sess[q] # None PROVE Id(q) \in Ids
BY DEF TInv, PrivOK, Id

LEMMA SameAwaits ==
  ASSUME Now, Moves, Alone', [Next]_vars, NEW q \in Procs, Same(q), Effect, Over => Kept
  PROVE  Awaits(q)'
<1> USE DEF Now, KInv
<1>1. At(q, "condemn") => Over' BY OverStays DEF Awaits
<1>2. At(q, "condemn") => sess[q] # None BY DEF TInv, Held, At
<1>3. At(q, "condemn")' => /\ Over' /\ outcome'[Id(q)] = None /\ file'[Id(q)] # None
                          /\ file'[Id(q)].meta.turn = MetaOf(q).turn
  BY <1>1, <1>2, SessId DEF Awaits, Kept, Same, Own, At
<1>4. ASSUME cmd[q] = "wait", sess[q] # None, MetaOf(q).status = "running",
             file'[Id(q)] # None, file'[Id(q)].meta.status = "running"
      PROVE  file'[Id(q)].meta.turn = MetaOf(q).turn
  <2>1. Touches(Id(q)) BY <1>4, SessId DEF Effect
  <2>2. Still(Id(q)) BY <1>4, <2>1 DEF Touches, First
  <2> QED BY <1>4, <2>2 DEF Still, Awaits, Own
<1> QED BY <1>3, <1>4 DEF Awaits, Same, Own, Id, MetaOf, At

LEMMA CheckFrom ==
  ASSUME TInv, Kin, [Next]_vars, NEW l \in Launchers,
         pc'[l] \in Before
  PROVE  pc[l] \in Before
<1> USE DEF TInv, PrivOK, At, Go, Before
<1>1. l \in Procs /\ pc[l] # "new" /\ ~ IsWorker(l)
  BY NoneAssumption DEF Launchers, Kin, Fits, IsWorker, Commands
<1>2. CASE Stands BY <1>2, StandsAll
<1>3. ASSUME NEW p \in Procs, Ends(p) PROVE pc'[l] = pc[l]
  BY <1>1, <1>3, EndsFrame DEF LeaveAll
<1>4. ASSUME NEW p \in Procs,
             \/ Opens(p) \/ Poll(p)
             \/ \E c \in Commands, n \in Names, i \in Ids : Start(p, c, i, n)
             \/ \E w \in Procs : Launch(p, w) \/ Register(p, w)
      PROVE  pc'[l] = pc[l]
  <2>1. CASE Opens(p) BY <1>1, <2>1, OpensAt DEF Open, Begin
  <2>2. CASE \E c \in Commands, n \in Names, i \in Ids : Start(p, c, i, n)
    BY <1>1, <2>2 DEF Start, Enter, Begin
  <2>3. CASE Poll(p) BY <1>1, <2>3 DEF Poll
  <2>4. ASSUME NEW w \in Procs, Launch(p, w) \/ Register(p, w) PROVE pc'[l] = pc[l]
    BY <1>1, <2>4 DEF Launch, Register
  <2> QED BY <1>4, <2>1, <2>2, <2>3, <2>4
<1>5. ASSUME NEW p \in Procs, Walks(p), l # p PROVE pc'[l] = pc[l]
  BY <1>1, <1>5, WalksOthers DEF Same
<1>6. CASE Walks(l)
  <2>1. ~ Reread(l) BY <1>1 DEF Reread, Kin, Fits, IsWorker
  <2> QED
    BY <1>1, <1>6, <2>1 DEF Walks, Release, Reserve, Enter, ResumeChecked, Snapshot, SnapshotFails, Claim,
       Spawn, SpawnFails, Observe, ReadEvent, SaveEvent, EndTurn, FinishStart, DropReserved,
       FailStart, FinishResume, FailResume, Wrap, WrapUp, WaitFind, WaitScan, WaitAgain,
       WaitCondemns
<1> QED BY <1>2, <1>3, <1>4, <1>5, <1>6, NextSorted

LEMMA NothingStep ==
  ASSUME Now, Kin', Moves, Alone', [Next]_vars, TInv', Calm \/ ~ Untouched'
  PROVE  Nothing'
<1> USE DEF Now, KInv
<1> SUFFICES ASSUME Untouched'
      PROVE  /\ \A i \in Ids : /\ outcome'[i] = None
                               /\ file'[i] # None => file'[i].meta.status # "running"
             /\ \A p \in Procs : sess'[p] # None => sess'[p].rec.meta.status # "running"
  BY DEF Nothing, MetaOf
<1>1. Launchers \subseteq Launchers' BY AloneBefore
<1>2. Untouched
  BY <1>1, CheckFrom DEF Untouched
<1>3. \A i \in Ids : /\ outcome'[i] = None
                     /\ file'[i] # None => file'[i].meta.status # "running"
                     /\ file[i] # None => file[i].meta.status # "running"
  BY <1>2 DEF Nothing, Calm
<1>4. ASSUME NEW p \in Procs, sess'[p] # None PROVE sess'[p].rec.meta.status # "running"
  <2>1. sess'[p].id \in Ids BY <1>4 DEF TInv, PrivOK
  <2>2. CASE \E o \in Procs : SessOld(p, o)
    BY <1>2, <2>2 DEF SessOld, Nothing
  <2>3. CASE SessFile(p) \/ SessNew(p)
    BY <1>3, <2>1, <2>3 DEF SessFile, SessNew
  <2> QED BY <1>4, <2>2, <2>3, SessFrom
<1> QED BY <1>3, <1>4

\* Who is past its claim.
LEMMA TouchedBy ==
  ASSUME TInv', Kin', Alone', NEW p \in Procs, Busy(p)',
         pc'[p] \notin Before \ {"snapshot"}, pc'[p] = "snapshot" => IsWorker(p)'
  PROVE  ~ Untouched'
<1>1. (p \in Launchers \/ (IsWorker(p) /\ boss[p] \in Launchers))'
  <2>1. cmd'[p] \in Commands \cup {"startw", "resumew"}
    BY DEF Busy, TInv, OsOK, Kin, Fits, At
  <2>2. cmd'[p] # "worker"
    <3> USE DEF Kin, Fits, At, Turner, IsStart, IsWorker
    <3>1. pc'[p] \in Location BY DEF TInv, PrivOK
    <3> QED BY <3>1 DEF Busy, Location
  <2>3. CASE IsWorker(p)' BY <2>3 DEF Kin, Belongs, Launchers
  <2> QED BY <2>1, <2>2, <2>3 DEF Commands, Alone, Launchers, IsWorker, Busy
<1> QED BY <1>1 DEF Untouched, Before, Kin, Belongs, Launchers, IsWorker
-----------------------------------------------------------------------------
(* The steps of a turn. *)

\* A record with these fields is now stored under i, and no other is touched.
Wrote(i, s, t, c, w) ==
  /\ file'[i] # None
  /\ file'[i].meta.status = s /\ file'[i].meta.turn = t
  /\ file'[i].meta.proc = c /\ file'[i].meta.worker = w
  /\ \A k \in Ids \ {i} : file'[k] = file[k]

LEMMA PutWrote ==
  ASSUME TInv, NEW i \in Ids, NEW r \in Record, Put(i, r)
  PROVE  Wrote(i, r.meta.status, r.meta.turn, r.meta.proc, r.meta.worker)
BY PutSets, NoneAssumption DEF TInv, Wrote

LEMMA SaveWrote ==
  ASSUME TInv, NEW p \in Procs, pc[p] \notin {"new", "gone"}, NEW x \in Meta, Save(p, x)
  PROVE  Wrote(Id(p), x.status, x.turn, x.proc, x.worker)
<1> DEFINE r == [sess[p].rec EXCEPT !.meta = x]
<1>1. Id(p) \in Ids /\ r \in Record /\ r.meta = x BY SessIn, MetaIn
<1>2. Put(Id(p), r) BY DEF Save
<1> HIDE DEF r
<1> QED BY <1>1, <1>2, PutWrote

LEMMA WroteEffect ==
  ASSUME Now, NEW i \in Ids, NEW s, NEW t, NEW c, NEW w, Wrote(i, s, t, c, w),
         \A k \in Ids \ {i} : outcome'[k] = outcome[k],
         outcome'[i] \in {None, s}, outcome'[i] # "running",
         file[i] # None => file[i].meta.turn <= t,
         s = "running" => First(i) \/
           (file[i] # None /\ file[i].meta.status = "running" /\ file[i].meta.turn = t)
  PROVE  Effect
<1>1. Touches(i) BY DEF Wrote, Touches, Still
<1>2. ASSUME NEW k \in Ids \ {i} PROVE Touches(k)
  <2>1. file[k] # None => file[k].meta.turn \in Nat BY TurnIn DEF Now, KInv
  <2> QED BY <2>1 DEF Wrote, Touches, Still, Now, OutcomeFits, OutcomeEnds
<1> QED BY <1>1, <1>2 DEF Effect

\* What an action of a turn does: it still follows the record, and a record it
\* wrote shows that the turn has been claimed.
Acts(p) == Follows(p)' /\ (Calm \/ (Effect /\ ~ Untouched'))

\* What is known of a process in its turn.
LEMMA InTurnFacts ==
  ASSUME Now, NEW p \in Procs, pc[p] \notin {"new", "gone"}
  PROVE  /\ Id(p) \in Ids /\ sess[p] \in [id : Ids, rec : Record] /\ MetaOf(p) \in Meta
         /\ p \in Pid /\ None \in Pid /\ MetaOf(p).turn \in Nat /\ sess[p] # None
         /\ p # None
BY SessIn, TurnAssumption, NoneAssumption
   DEF Now, KInv, Meta, TInv, Held, TurnAssumption

LEMMA ResumeActs ==
  ASSUME Now, Alone', TInv', Kin', NEW p \in Procs,
         \/ ResumeChecked(p) \/ Snapshot(p) \/ (SnapshotFails(p) /\ IsWorker(p)) \/ Claim(p)
  PROVE  Acts(p)
<1> USE DEF Now, KInv, At, Go
<1>1. pc[p] \in {"check", "snapshot", "claim", "reread"}
  BY DEF ResumeChecked, Snapshot, SnapshotFails, Claim
<1>2. Follows(p) /\ file[Id(p)] # None /\ outcome[Id(p)] = None /\ Own(p).turn = MetaOf(p).turn
  BY <1>1 DEF Follows, Claimed
<1>3. /\ Id(p) \in Ids /\ sess[p] \in [id : Ids, rec : Record] /\ MetaOf(p) \in Meta
      /\ p \in Pid /\ None \in Pid /\ MetaOf(p).turn \in Nat /\ sess[p] # None
  BY <1>1, InTurnFacts
<1>4. ASSUME ~ IsWorker(p) PROVE Untouched /\ Nothing
  <2>1. p \in Launchers
    <3>1. Busy(p) BY <1>1, FollowersBusy DEF Before, Claimed
    <3> QED BY <1>4, <3>1, BusyWho
  <2>2. pc[p] # "reread" BY <1>4 DEF Kin, Fits, IsWorker
  <2> QED BY <1>1, <2>1, <2>2 DEF Before, Untouched, Alone
<1>5. pc \in [Procs -> Location] /\ outcome \in [Ids -> Status \cup {None}]
      /\ cur \in [Procs -> Record \cup {None}]
  BY DEF TInv, PrivOK, HistOK
<1>6. CASE ResumeChecked(p)
  <2>1. ~ IsWorker(p) BY <1>6 DEF ResumeChecked, Kin, Fits, IsWorker
  <2>2. UNCHANGED <<store, sess, cur, cmd, outcome>> /\ pc'[p] = "snapshot"
    BY <1>3, <1>4, <1>5, <1>6, <2>1 DEF ResumeChecked, Nothing, os, hist
  <2>3. Calm BY <2>2 DEF Calm, store
  <2>4. Follows(p)'
    BY <1>2, <1>6, <2>1, <2>2
    DEF ResumeChecked, Follows, Claimed, Running, Own, Id, MetaOf, IsWorker, store
  <2> QED BY <2>3, <2>4 DEF Acts
<1>7. CASE Snapshot(p)
  <2>1. UNCHANGED <<store, sess, cur, cmd, outcome>>
        /\ pc[p] = "snapshot" /\ pc'[p] = IF IsWorker(p) THEN "spawn" ELSE "claim"
    BY <1>5, <1>7 DEF Snapshot, os, hist
  <2>2. Calm BY <2>1 DEF Calm, store
  <2>3. Follows(p)'
    BY <1>2, <2>1
    DEF Follows, Claimed, Running, Leads, Own, Id, MetaOf, IsWorker, store
  <2> QED BY <2>2, <2>3 DEF Acts
<1>8. CASE SnapshotFails(p) /\ IsWorker(p)
  BY <1>2, <1>8 DEF SnapshotFails
<1>9. CASE Claim(p)
  <2>1. ~ IsWorker(p) /\ cmd[p] \in {"resume", "resumed"}
    BY <1>9 DEF Claim, Kin, Fits, IsWorker
  <2>2. First(Id(p)) BY <1>4, <2>1 DEF Untouched, Nothing, First
  <2>3. {"running"} \subseteq Status BY DEF Status
  <2> DEFINE x == IF cmd[p] = "resume" THEN [MetaOf(p) EXCEPT !.status = "running", !.proc = p]
                                       ELSE [MetaOf(p) EXCEPT !.status = "running"]
             c == IF cmd[p] = "resume" THEN p ELSE MetaOf(p).proc
  <2>4. x \in Meta /\ x.status = "running" /\ x.turn = MetaOf(p).turn
        /\ x.proc = c /\ x.worker = MetaOf(p).worker
    <3>1. CASE cmd[p] = "resume" BY <1>3, <2>3, <3>1 DEF Meta
    <3>2. CASE cmd[p] # "resume" BY <1>3, <2>3, <3>2 DEF Meta
    <3> QED BY <3>1, <3>2
  <2>5. SaveOn(p, x)
    BY <1>9 DEF Claim
  <2> HIDE DEF x
  <2>6. /\ Wrote(Id(p), "running", MetaOf(p).turn, c, MetaOf(p).worker)
        /\ sess' = [sess EXCEPT ![p] = [id |-> Id(p), rec |-> file'[Id(p)]]]
    BY <1>1, <2>4, <2>5, SaveWrote, SaveOnSess DEF SaveOn
  <2>7. /\ sess'[p] = [id |-> Id(p), rec |-> file'[Id(p)]]
        /\ outcome'[Id(p)] = None /\ \A k \in Ids \ {Id(p)} : outcome'[k] = outcome[k]
        /\ cmd' = cmd /\ pc'[p] = IF cmd[p] = "resume" THEN "spawn" ELSE "launch"
        /\ cmd[p] # "resume" => cur'[p] = sess[p].rec
    BY <1>3, <1>5, <1>9, <2>6 DEF Claim, os, TInv, PrivOK
  <2>8. Effect
    BY <1>2, <1>3, <2>2, <2>6, <2>7, WroteEffect, NoneAssumption DEF Own, Status
  <2>9. ~ Untouched'
    BY <2>1, <2>7, TouchedBy DEF Before, Busy
  <2>10. Follows(p)'
    <3>1. /\ Id(p)' = Id(p) /\ MetaOf(p)' = Own(p)' /\ file'[Id(p)] # None
          /\ Own(p)'.status = "running" /\ Own(p)'.turn = MetaOf(p).turn
          /\ Own(p)'.proc = c /\ outcome'[Id(p)] = None
      BY <2>6, <2>7 DEF Id, MetaOf, Own, Wrote
    <3>2. cmd[p] # "resume" => cur'[p].meta.turn = Own(p)'.turn
      BY <2>7, <3>1 DEF MetaOf
    <3> QED
      BY <2>1, <2>7, <3>1, <3>2 DEF Follows, Claimed, Running, Leads, IsWorker
  <2> QED BY <2>8, <2>9, <2>10 DEF Acts
<1> QED BY <1>6, <1>7, <1>8, <1>9

LEMMA ProviderActs ==
  ASSUME Now, Alone', TInv', Kin', NEW p \in Procs,
         \/ Spawn(p) \/ SpawnFails(p) \/ Observe(p) \/ ReadEvent(p) \/ SaveEvent(p)
         \/ \E o \in {"completed", "failed", "stopped"} : EndTurn(p, o)
         \/ Reread(p)
  PROVE  Acts(p)
<1> USE DEF Now, KInv, At, Go
<1>1. pc[p] \in {"spawn", "observe", "early", "event", "turn", "reread"}
  BY DEF Spawn, SpawnFails, Observe, ReadEvent, SaveEvent, EndTurn, Reread
<1>2. /\ Follows(p) /\ file[Id(p)] # None /\ outcome[Id(p)] = None
      /\ Own(p).turn = MetaOf(p).turn /\ Own(p).status = "running" /\ Leads(p, Own(p))
  BY <1>1 DEF Follows, Claimed, Running
<1>3. /\ Id(p) \in Ids /\ sess[p] \in [id : Ids, rec : Record] /\ MetaOf(p) \in Meta
      /\ p \in Pid /\ None \in Pid /\ MetaOf(p).turn \in Nat /\ sess[p] # None /\ p # None
  BY <1>1, InTurnFacts
<1>4. pc \in [Procs -> Location] /\ outcome \in [Ids -> Status \cup {None}]
      /\ cur \in [Procs -> Record \cup {None}]
      /\ sess \in [Procs -> [id : Ids, rec : Record] \cup {None}]
  BY DEF TInv, PrivOK, HistOK
<1>5. Busy(p) BY <1>1, FollowersBusy DEF Claimed
<1>6. CASE Spawn(p) \/ ReadEvent(p)
  <2>1. /\ UNCHANGED <<store, sess, cmd, outcome>>
        /\ cur'[p] = file[Id(p)]
        /\ pc'[p] \in {"observe", "event"} /\ pc[p] # "reread"
    BY <1>2, <1>4, <1>6 DEF Spawn, ReadEvent, os, hist
  <2>2. Calm BY <2>1 DEF Calm, store
  <2>3. Follows(p)'
    BY <1>2, <1>1, <2>1
    DEF Follows, Claimed, Running, Leads, Own, Id, MetaOf, IsWorker, store
  <2> QED BY <2>2, <2>3 DEF Acts
<1>7. CASE SpawnFails(p) \/ \E o \in {"completed", "failed", "stopped"} : EndTurn(p, o)
  <2>1. /\ UNCHANGED <<store, sess, cmd, cur, outcome>>
        /\ pc'[p] = "report" /\ pc[p] # "reread"
    BY <1>2, <1>4, <1>7 DEF SpawnFails, EndTurn, os, hist
  <2>2. Calm BY <2>1 DEF Calm, store
  <2>3. Follows(p)'
    BY <1>2, <1>1, <2>1
    DEF Follows, Claimed, Running, Leads, Own, Id, MetaOf, IsWorker, store
  <2> QED BY <2>2, <2>3 DEF Acts
<1>8. CASE Reread(p)
  <2>1. sess' = [sess EXCEPT ![p] = [id |-> Id(p), rec |-> file[Id(p)]]]
    BY <1>3, <1>8, RecSet DEF Reread
  <2>2. /\ UNCHANGED <<store, cmd, cur, outcome>>
        /\ sess'[p] = [id |-> Id(p), rec |-> file[Id(p)]]
        /\ pc'[p] = "snapshot"
    BY <1>4, <1>8, <2>1 DEF Reread, os, hist
  <2>3. Calm BY <2>2 DEF Calm, store
  <2>4. cmd[p] = "resumew" BY <1>8 DEF Reread, Kin, Fits
  <2>5. Follows(p)'
    <3>1. /\ Id(p)' = Id(p) /\ MetaOf(p)' = Own(p) /\ Own(p)' = Own(p)
          /\ file'[Id(p)] # None /\ outcome'[Id(p)] = None /\ cmd'[p] = "resumew"
      BY <1>2, <2>2, <2>4 DEF Id, MetaOf, Own, store
    <3> QED BY <1>2, <2>2, <2>4, <3>1 DEF Follows, Claimed, Running, Leads, IsWorker
  <2> QED BY <2>3, <2>5 DEF Acts
<1>9. CASE Observe(p) \/ SaveEvent(p)
  <2>1. /\ cur[p] \in Record /\ cur[p].meta \in Meta
        /\ Leads(p, cur[p].meta)
        /\ cur[p].meta.status = "running" /\ cur[p].meta.turn = MetaOf(p).turn
    BY <1>2, <1>9, CurIn DEF Observe, SaveEvent, TInv, Held, Follows
  <2>2. \E r \in Record : /\ Put(Id(p), r)
                          /\ r.meta.proc = cur[p].meta.proc
                          /\ r.meta.worker = cur[p].meta.worker
                          /\ r.meta.status = "running" /\ r.meta.turn = MetaOf(p).turn
    <3>1. CASE Observe(p)
      <4> DEFINE x == [cur[p].meta EXCEPT !.prov = p]
                 r == [cur[p] EXCEPT !.meta = x]
      <4>1. Put(Id(p), [cur[p] EXCEPT !.meta.prov = p]) BY <3>1 DEF Observe
      <4>2. Put(Id(p), r) BY <4>1
      <4>3. /\ x \in Meta /\ x.proc = cur[p].meta.proc /\ x.worker = cur[p].meta.worker
            /\ x.status = "running" /\ x.turn = MetaOf(p).turn
        BY <1>3, <2>1 DEF Meta
      <4> HIDE DEF x
      <4>4. r \in Record /\ r.meta = x BY <2>1, <4>3 DEF Record
      <4> HIDE DEF r
      <4> QED BY <4>2, <4>3, <4>4
    <3>2. CASE SaveEvent(p)
      <4> DEFINE x == [cur[p].meta EXCEPT !.psid = TRUE]
                 r == [cur[p] EXCEPT !.meta = x]
      <4>1. Put(Id(p), [cur[p] EXCEPT !.meta.psid = TRUE]) BY <3>2 DEF SaveEvent
      <4>2. Put(Id(p), r) BY <4>1
      <4>3. /\ x \in Meta /\ x.proc = cur[p].meta.proc /\ x.worker = cur[p].meta.worker
            /\ x.status = "running" /\ x.turn = MetaOf(p).turn
        BY <1>3, <2>1 DEF Meta
      <4> HIDE DEF x
      <4>4. r \in Record /\ r.meta = x BY <2>1, <4>3 DEF Record
      <4> HIDE DEF r
      <4> QED BY <4>2, <4>3, <4>4
    <3> QED BY <1>9, <3>1, <3>2
  <2>3. PICK r \in Record : /\ Put(Id(p), r)
                            /\ r.meta.proc = cur[p].meta.proc
                            /\ r.meta.worker = cur[p].meta.worker
                            /\ r.meta.status = "running" /\ r.meta.turn = MetaOf(p).turn
    BY <2>2
  <2>4. Wrote(Id(p), "running", MetaOf(p).turn, cur[p].meta.proc, cur[p].meta.worker)
    BY <1>3, <2>3, PutWrote
  <2>5. /\ UNCHANGED <<cmd, outcome>> /\ pc'[p] \in {"early", "turn"}
        /\ sess'[p].id = Id(p) /\ sess'[p].rec.meta.turn = MetaOf(p).turn
        /\ sess'[p].rec.meta.worker = MetaOf(p).worker
    <3>1. CASE Observe(p) /\ ~ IsStart(p)
      <4> DEFINE v == [sess[p].rec EXCEPT !.meta.prov = p]
      <4>1. v.meta.turn = MetaOf(p).turn /\ v.meta.worker = MetaOf(p).worker
        BY <1>3 DEF Record, Meta, MetaOf
      <4>2. sess' = [sess EXCEPT ![p] = [id |-> Id(p), rec |-> v]]
        <5>1. [sess EXCEPT ![p].rec.meta.prov = p] = [sess EXCEPT ![p].rec = v] OBVIOUS
        <5> QED BY <1>3, <3>1, <5>1, RecSet DEF Observe
      <4> HIDE DEF v
      <4>3. sess'[p] = [id |-> Id(p), rec |-> v] BY <1>4, <4>2
      <4>4. UNCHANGED <<cmd, outcome>> /\ pc'[p] = "turn"
        BY <1>4, <3>1 DEF Observe, os, hist
      <4> QED BY <4>1, <4>3, <4>4
    <3>2. CASE SaveEvent(p) \/ IsStart(p)
      BY <1>4, <1>9, <3>2 DEF Observe, SaveEvent, os, hist, Id, MetaOf
    <3> QED BY <1>9, <3>1, <3>2
  <2>6. Effect
    BY <1>2, <1>3, <2>4, <2>5, WroteEffect, NoneAssumption DEF Own, Status
  <2>7. ~ Untouched' BY <1>5, <2>5, TouchedBy DEF Before, Busy
  <2>8. Follows(p)'
    <3>1. /\ Id(p)' = Id(p) /\ MetaOf(p)'.turn = MetaOf(p).turn
          /\ MetaOf(p)'.worker = MetaOf(p).worker
      BY <2>5 DEF Id, MetaOf
    <3>2. /\ Own(p)'.status = "running" /\ Own(p)'.turn = MetaOf(p).turn
          /\ Own(p)'.proc = cur[p].meta.proc /\ Own(p)'.worker = cur[p].meta.worker
          /\ file'[Id(p)] # None
      BY <2>4, <3>1 DEF Own, Wrote
    <3>3. pc[p] \in {"observe", "event"} BY <1>9 DEF Observe, SaveEvent
    <3> QED
      BY <1>2, <1>3, <2>1, <2>5, <3>1, <3>2, <3>3
      DEF Follows, Claimed, Running, Leads, IsWorker
  <2> QED BY <2>6, <2>7, <2>8 DEF Acts
<1> QED BY <1>6, <1>7, <1>8, <1>9

LEMMA ReleaseActs == ASSUME Now, NEW p \in Procs, Release(p) PROVE Acts(p)
<1> USE DEF Now, KInv
<1>1. pc[p] = "release" BY DEF Release, At
<1>2. file[Id(p)] # None /\ Own(p) = MetaOf(p) BY <1>1 DEF Follows, At
<1>3. /\ Id(p) \in Ids /\ sess[p] \in [id : Ids, rec : Record] /\ sess[p] # None
  BY <1>1, InTurnFacts
<1> DEFINE r == [sess[p].rec EXCEPT !.name = Aside(Id(p))]
<1>4. r \in Record /\ r.meta = MetaOf(p) BY <1>3 DEF Record, AllNames, MetaOf
<1>5. Put(Id(p), r) BY DEF Release
<1> HIDE DEF r
<1>6. /\ file'[Id(p)] # None /\ file'[Id(p)].meta = MetaOf(p)
      /\ \A k \in Ids \ {Id(p)} : file'[k] = file[k]
  BY <1>3, <1>4, <1>5, PutSets, NoneAssumption DEF TInv
<1>7. outcome' = outcome /\ sess' = sess /\ cmd' = cmd /\ pc'[p] = "reserve"
  BY DEF Release, priv, os, hist, Go, TInv, PrivOK
<1>8. Calm BY <1>2, <1>6, <1>7 DEF Calm, Own
<1>9. Follows(p)' BY <1>7, <1>1, <1>3 DEF Follows, Claimed, Running, At, Kin, Fits
<1> QED BY <1>8, <1>9 DEF Acts

LEMMA ReportActs ==
  ASSUME Now, Alone', TInv', Kin', NEW p \in Procs,
         \/ \E j \in Ids : FinishStart(p, j)
         \/ DropReserved(p) \/ FailStart(p) \/ FinishResume(p) \/ FailResume(p)
         \/ Wrap(p) \/ WrapUp(p)
  PROVE  Acts(p)
<1> USE DEF Now, KInv, At, Go
<1>1. pc[p] \in {"report", "swap", "wrap", "wrapup"}
  BY DEF FinishStart, DropReserved, FailStart, FinishResume, FailResume, Wrap, WrapUp
<1>2. pc[p] = "report" =>
        /\ file[Id(p)] # None /\ outcome[Id(p)] = None
        /\ Own(p).turn = MetaOf(p).turn /\ Own(p).status = "running" /\ Leads(p, Own(p))
        /\ cmd[p] = "resumew" => MetaOf(p).worker = p
  BY DEF Follows, Claimed, Running
<1>3. /\ Id(p) \in Ids /\ sess[p] \in [id : Ids, rec : Record] /\ MetaOf(p) \in Meta
      /\ p \in Pid /\ None \in Pid /\ MetaOf(p).turn \in Nat /\ sess[p] # None /\ p # None
  BY <1>1, InTurnFacts
<1>4. pc \in [Procs -> Location] /\ outcome \in [Ids -> Status \cup {None}]
      /\ cur \in [Procs -> Record \cup {None}] /\ file \in [Ids -> Record \cup {None}]
  BY DEF TInv, PrivOK, HistOK, RegistryTypeOK
<1>5. Follows(p) /\ cmd[p] # "wait"
  BY <1>1 DEF Kin, Fits, Turner, IsStart, IsWorker
<1>6. None # "running" /\ {"completed", "failed", "stopped"} \subseteq Status
  BY NoneAssumption DEF Status
\* What is left to show of a step to the end of a turn.
<1>7. ASSUME UNCHANGED <<sess, cmd>>, pc'[p] \in {"exit", "swap"} PROVE Follows(p)'
  BY <1>1, <1>3, <1>5, <1>7 DEF Follows, Claimed, Running, Id, MetaOf, Own
<1>8. ASSUME UNCHANGED <<sess, cmd>>, pc'[p] = "wrap", file'[Id(p)] # None,
             p \in {file'[Id(p)].meta.proc, file'[Id(p)].meta.worker}
      PROVE  Follows(p)'
  BY <1>1, <1>3, <1>5, <1>8 DEF Follows, Claimed, Running, Id, MetaOf, Own
<1>9. ASSUME UNCHANGED cmd, pc'[p] \in {"exit", "swap", "wrap", "wrapup"} PROVE ~ Untouched'
  BY <1>5, <1>9, TouchedBy DEF Before, Busy
<1>10. ASSUME NEW j \in Ids, FinishStart(p, j) PROVE Acts(p)
  <2>1. /\ pc[p] = "report" /\ UNCHANGED <<sess, cmd, cur>> /\ IsStart(p)
        /\ pc'[p] = IF IsWorker(p) THEN "wrap" ELSE IF j = Id(p) THEN "exit" ELSE "swap"
        /\ outcome'[j] = "completed" /\ \A k \in Ids \ {j} : outcome'[k] = outcome[k]
        /\ j = Id(p) \/ (~ IsWorker(p) /\ file[j] = None)
    BY <1>4, <1>10 DEF FinishStart, priv, os, Fresh
  <2>2. Wrote(j, "completed", 1, IF IsWorker(p) THEN OldMeta(p).proc ELSE None, None)
    BY <1>10, FinishStartSaves, NoneAssumption DEF Wrote
  <2>3. MetaOf(p).turn = 0
    BY <1>3, <1>5, <2>1 DEF IsStart, Follows
  <2>4. Effect
    BY <1>2, <2>1, <2>2, <2>3, WroteEffect DEF Own
  <2>5. Follows(p)'
    BY <1>2, <1>7, <1>8, <2>1, <2>2 DEF Wrote, OldMeta, Leads, Own
  <2> QED BY <1>9, <2>1, <2>4, <2>5 DEF Acts
<1>11. CASE DropReserved(p)
  <2>1. /\ UNCHANGED <<sess, cmd, cur, outcome>> /\ pc'[p] = "exit"
        /\ \A k \in Ids : file'[k] = file[k] \/ file'[k] = None
    BY <1>3, <1>4, <1>11 DEF DropReserved, Delete, priv, os, hist, store
  <2>2. Effect
    <3> SUFFICES ASSUME NEW k \in Ids PROVE Touches(k) BY DEF Effect
    <3>1. file[k] # None => file[k].meta.turn \in Nat BY TurnIn
    <3> QED BY <2>1, <3>1 DEF Touches, Still, OutcomeFits, OutcomeEnds
  <2> QED BY <1>7, <1>9, <2>1, <2>2 DEF Acts
<1>12. CASE FailStart(p) \/ FailResume(p)
  <2>1. /\ pc[p] = "report" /\ UNCHANGED <<sess, cmd, cur>>
        /\ pc'[p] = IF IsWorker(p) THEN "wrap" ELSE "exit"
        /\ out[p] \in {"failed", "stopped"}
    BY <1>4, <1>12 DEF FailStart, FailResume, priv, os, TInv, PrivOK, Held
  <2>2. CASE UNCHANGED <<store, outcome>>
    <3>1. Calm BY <2>2 DEF Calm, store
    <3>2. Follows(p)' BY <1>2, <1>7, <1>8, <2>1, <2>2 DEF Leads, Own, store
    <3> QED BY <3>1, <3>2 DEF Acts
  <2>3. ASSUME NEW x \in Meta, Wrote(Id(p), out[p], MetaOf(p).turn, None, x.worker),
               IsWorker(p) => x.worker = p,
               outcome' = [outcome EXCEPT ![Id(p)] = out[p]]
        PROVE  Acts(p)
    <3>1. Effect
      BY <1>2, <1>3, <1>4, <2>1, <2>3, WroteEffect DEF Own
    <3>2. Follows(p)' BY <1>7, <1>8, <2>1, <2>3 DEF Wrote
    <3> QED BY <1>9, <2>1, <3>1, <3>2 DEF Acts
  <2>4. CASE FailStart(p)
    <3>1. file[Id(p)] \in Record /\ Own(p) \in Meta BY <1>2, <1>3, <2>1, FileIn DEF Own
    <3>2. out[p] \in Status BY <1>6, <2>1
    <3>3. \/ UNCHANGED <<store, outcome>>
          \/ /\ \E s \in Observed(p) :
                  Put(Id(p), [file[Id(p)] EXCEPT !.meta = TurnLost(Own(p), out[p], s)])
             /\ outcome' = [outcome EXCEPT ![Id(p)] = out[p]]
      BY <1>2, <2>1, <2>4 DEF FailStart, Own
    <3>4. ASSUME NEW s \in Observed(p),
                 Put(Id(p), [file[Id(p)] EXCEPT !.meta = TurnLost(Own(p), out[p], s)])
          PROVE  Wrote(Id(p), out[p], MetaOf(p).turn, None, Own(p).worker)
      <4> DEFINE x == TurnLost(Own(p), out[p], s)
                 r == [file[Id(p)] EXCEPT !.meta = x]
      <4>1. s \in BOOLEAN BY DEF Observed
      <4>2. /\ x \in Meta /\ x.status = out[p] /\ x.proc = None
            /\ x.turn = Own(p).turn /\ x.worker = Own(p).worker
        BY <3>1, <3>2, <4>1, TurnLostIn
      <4>3. Put(Id(p), r) BY <3>4
      <4> HIDE DEF x
      <4>4. r \in Record /\ r.meta = x BY <3>1, <4>2 DEF Record
      <4> HIDE DEF r
      <4> QED BY <1>2, <1>3, <2>1, <4>2, <4>3, <4>4, PutWrote
    <3>5. CASE UNCHANGED <<store, outcome>> BY <2>2, <3>5
    <3>6. CASE /\ Wrote(Id(p), out[p], MetaOf(p).turn, None, Own(p).worker)
               /\ outcome' = [outcome EXCEPT ![Id(p)] = out[p]]
      BY <1>2, <2>1, <2>3, <3>1, <3>6 DEF Leads
    <3> QED BY <3>3, <3>4, <3>5, <3>6
  <2>5. CASE FailResume(p)
    <3>1. out[p] \in Status BY <1>6, <2>1
    <3>2. PICK s \in BOOLEAN : Save(p, TurnLost(MetaOf(p), out[p], s))
      BY <2>5 DEF FailResume
    <3> DEFINE x == TurnLost(MetaOf(p), out[p], s)
    <3>3. /\ x \in Meta /\ x.status = out[p] /\ x.proc = None
          /\ x.turn = MetaOf(p).turn /\ x.worker = MetaOf(p).worker
      BY <1>3, <3>1, TurnLostIn
    <3>6. Save(p, x) BY <3>2
    <3> HIDE DEF x
    <3>7. outcome' = [outcome EXCEPT ![Id(p)] = out[p]] BY <2>5 DEF FailResume
    <3>4. Wrote(Id(p), out[p], MetaOf(p).turn, None, MetaOf(p).worker)
      BY <1>1, <3>3, <3>6, SaveWrote
    <3>5. IsWorker(p) => MetaOf(p).worker = p
      BY <1>2, <2>1, <2>5 DEF FailResume, IsWorker, IsStart
    <3> QED BY <1>3, <2>3, <3>4, <3>5, <3>7
  <2> QED BY <1>12, <2>4, <2>5
<1>13. CASE FinishResume(p)
  <2>0. PICK s \in BOOLEAN : Rewrite(Id(p), sess[p].rec.name, TurnDone(MetaOf(p), s), snap[p])
    BY <1>2, <1>13 DEF FinishResume
  <2> DEFINE x == TurnDone(MetaOf(p), s)
  <2>1. /\ pc[p] = "report" /\ UNCHANGED <<sess, cmd, cur>> /\ ~ IsStart(p)
        /\ pc'[p] = IF IsWorker(p) THEN "wrap" ELSE "exit"
        /\ Rewrite(Id(p), sess[p].rec.name, x, snap[p])
        /\ outcome' = [outcome EXCEPT ![Id(p)] = "completed"]
    BY <1>2, <1>4, <1>13, <2>0 DEF FinishResume, os
  <2>2. /\ x.status = "completed" /\ x.proc = None /\ x.worker = MetaOf(p).worker
        /\ x.turn = MetaOf(p).turn + 1 /\ x \in Meta
    BY <1>3, TurnDoneIn
  <2> HIDE DEF x
  <2>3. file'[Id(p)].meta = x /\ \A k \in Ids \ {Id(p)} : file'[k] = file[k]
    BY <1>3, <1>4, <2>1 DEF Rewrite
  <2>4. file'[Id(p)] # None
    <3> DEFINE r == [name |-> sess[p].rec.name, meta |-> x,
                     pending |-> file[Id(p)].pending \ snap[p]]
    <3>1. r \in Record
      BY <1>2, <1>3, <2>1, <2>2, FileIn DEF Record
    <3>2. file'[Id(p)] = r BY <1>3, <1>4, <2>1 DEF Rewrite
    <3> QED BY <3>1, <3>2, NoneAssumption
  <2>5. Wrote(Id(p), "completed", MetaOf(p).turn + 1, None, MetaOf(p).worker)
    BY <2>2, <2>3, <2>4 DEF Wrote
  <2>6. Effect
    BY <1>2, <1>3, <1>4, <2>1, <2>5, WroteEffect DEF Own
  <2>7. IsWorker(p) => MetaOf(p).worker = p
    BY <1>2, <2>1 DEF IsWorker, IsStart
  <2>8. Follows(p)' BY <1>7, <1>8, <2>1, <2>5, <2>7 DEF Wrote
  <2> QED BY <1>9, <2>1, <2>6, <2>8 DEF Acts
<1>14. CASE Wrap(p)
  <2>1. file[Id(p)] # None /\ p \in {Own(p).proc, Own(p).worker} /\ pc[p] = "wrap"
    BY <1>5, <1>14 DEF Wrap, Follows
  <2>2. /\ UNCHANGED <<store, sess, cmd, outcome>> /\ pc'[p] = "wrapup"
        /\ cur'[p] = file[Id(p)]
    BY <1>4, <1>14, <2>1 DEF Wrap, os, hist
  <2>3. Calm BY <2>2 DEF Calm, store
  <2>4. Follows(p)'
    BY <1>3, <1>5, <2>1, <2>2
    DEF Follows, Claimed, Running, Id, MetaOf, Own, store
  <2> QED BY <2>3, <2>4 DEF Acts
<1>15. CASE WrapUp(p)
  <2> DEFINE r == [cur[p] EXCEPT !.meta.proc = None, !.meta.status = out[p]]
  <2>1. /\ cur[p] \in Record /\ cur[p].meta \in Meta /\ cur[p] # None
        /\ file[Id(p)] # None /\ cur[p].meta.turn = Own(p).turn
        /\ out[p] \in {"completed", "failed", "stopped"}
    BY <1>5, <1>15, CurIn DEF WrapUp, TInv, Held, PrivOK, Follows
  <2>2. /\ UNCHANGED <<sess, cmd>> /\ pc'[p] = "exit" /\ Put(Id(p), r)
        /\ outcome' = [outcome EXCEPT ![Id(p)] = out[p]]
    BY <1>4, <1>15 DEF WrapUp, priv, os
  <2>3. /\ r \in Record /\ r.meta.status = out[p] /\ r.meta.turn = Own(p).turn
        /\ r.meta.proc = None /\ r.meta.worker = cur[p].meta.worker
    BY <1>3, <1>6, <2>1 DEF Record, Meta
  <2> HIDE DEF r
  <2>4. Wrote(Id(p), out[p], Own(p).turn, None, cur[p].meta.worker)
    BY <1>3, <2>2, <2>3, PutWrote
  <2>5. Own(p).turn \in Nat BY <1>3, <2>1, TurnIn DEF Own
  <2>6. Effect
    BY <1>3, <1>4, <2>1, <2>2, <2>4, <2>5, WroteEffect DEF Own
  <2> QED BY <1>7, <1>9, <2>2, <2>6 DEF Acts
<1> QED BY <1>10, <1>11, <1>12, <1>13, <1>14, <1>15
-----------------------------------------------------------------------------
(* All steps, as long as one turn and its waits run. *)

\* What a step has to keep, for one turn and its waits.
Done ==
  /\ Effect /\ Nothing' /\ OutcomeFits' /\ OutcomeEnds'
  /\ \A q \in Procs : Follows(q)' /\ Awaits(q)'
Gone(q) == pc'[q] = "gone" /\ sess'[q] = None

LEMMA GoneDone == ASSUME NEW q \in Procs, Gone(q) PROVE Follows(q)' /\ Awaits(q)'
BY DEF Gone, Follows, Awaits, Claimed, Running, At

\* All processes but those of D are where they were; none but one of D is
\* disturbed by what the step has written.
LEMMA Gather ==
  ASSUME Now, Moves, Alone', TInv', Kin', [Next]_vars,
         Calm \/ (Effect /\ ~ Untouched' /\ (Over => Kept)),
         NEW D,
         \A q \in D \cap Procs : Follows(q)' /\ Awaits(q)',
         \A q \in Procs \ D : Same(q),
         Calm \/ \A q \in Procs \ D : ~ Busy(q)
  PROVE  Done
<1> USE DEF Now, KInv
<1>1. Effect /\ (Over => Kept) BY CalmEffect
<1>2. Nothing' BY NothingStep
<1>3. OutcomeFits' /\ OutcomeEnds'
  BY <1>1 DEF Effect, Touches, OutcomeFits, OutcomeEnds
<1>4. ASSUME NEW q \in Procs \ D PROVE Follows(q)' /\ Awaits(q)'
  <2>1. Busy(q) => sess[q] # None BY DEF Busy, TInv, Held
  <2>2. Busy(q) => /\ outcome'[Id(q)] = outcome[Id(q)]
                   /\ file[Id(q)] # None => file'[Id(q)] # None /\
                                            file'[Id(q)].meta = file[Id(q)].meta
    BY <2>1, SessId DEF Calm
  <2>3. Follows(q)' BY <2>2, SameFollows
  <2>4. Awaits(q)' BY <1>1, SameAwaits
  <2> QED BY <2>3, <2>4
<1> QED BY <1>1, <1>2, <1>3, <1>4 DEF Done

-----------------------------------------------------------------------------
LEMMA StandsDone ==
  ASSUME Now, Moves, Alone', TInv', Kin', [Next]_vars, Stands PROVE Done
<1>1. \A q \in Procs : Same(q) BY StandsAll DEF Same
<1>2. Calm
  <2>1. CASE UNCHANGED store BY <2>1, StandsAll DEF Calm, store
  <2>2. ASSUME NEW i \in Ids, NEW m \in Msgs, Send(i, m) PROVE Calm
    <3>1. file[i] \in Record /\ file \in [Ids -> Record \cup {None}]
      BY <2>2, FileIn DEF Send, Enqueue, Now, KInv, TInv, RegistryTypeOK
    <3> DEFINE r == [file[i] EXCEPT !.pending = @ \cup {m}]
    <3>2. file' = [file EXCEPT ![i] = r] BY <2>2 DEF Send, Enqueue
    <3>3. r.meta = file[i].meta /\ r \in Record BY <3>1 DEF Record
    <3> HIDE DEF r
    <3>4. r # None BY <3>3, NoneAssumption
    <3> QED BY <2>2, <3>1, <3>2, <3>3, <3>4 DEF Calm, Send, Enqueue, hist
  <2> QED BY <2>1, <2>2 DEF Stands, StopTerm, Interrupt, ProviderExits, vars, store
<1> DEFINE D == {}
<1>3. /\ \A q \in D \cap Procs : Follows(q)' /\ Awaits(q)'
      /\ \A q \in Procs \ D : Same(q)
  BY <1>1
<1> HIDE DEF D
<1> QED BY <1>2, <1>3, Gather

LEMMA EndsOthers ==
  ASSUME NEW p \in Procs, Ends(p), NEW q \in Procs PROVE Gone(q) \/ Same(q)
<1>1. ASSUME NEW S \in SUBSET Procs, LeaveAll(S)
      PROVE  Gone(q) \/ (q \notin S /\ pc'[q] = pc[q] /\ sess'[q] = sess[q] /\ cur'[q] = cur[q])
  BY <1>1 DEF LeaveAll, Gone
<1>2. CASE UNCHANGED cmd
  BY <1>1, <1>2, EndsFrame DEF Same
<1>3. ASSUME NEW c \in Commands, cmd' = [cmd EXCEPT ![p] = c], LeaveAll({p}) PROVE Gone(q) \/ Same(q)
  <2>1. Gone(q) \/ (q # p /\ pc'[q] = pc[q] /\ sess'[q] = sess[q] /\ cur'[q] = cur[q])
    BY <1>1, <1>3
  <2> QED BY <1>3, <2>1 DEF Same
<1> QED BY <1>2, <1>3, EndsFrame

LEMMA EndsDone ==
  ASSUME Now, Moves, Alone', TInv', Kin', [Next]_vars, NEW p \in Procs, Ends(p) PROVE Done
<1> USE DEF Now, KInv, At
<1> DEFINE D == {q \in Procs : Gone(q)}
<1>1. (\A q \in D \cap Procs : Follows(q)' /\ Awaits(q)') /\ \A q \in Procs \ D : Same(q)
  BY GoneDone, EndsOthers
<1>2. UNCHANGED outcome BY EndsFrame
<1>3. ASSUME UNCHANGED store PROVE Done
  <2>1. Calm BY <1>2, <1>3 DEF Calm, store
  <2> QED BY <1>1, <2>1, Gather
<1>4. CASE LaunchFails(p)
  <2>1. /\ pc[p] = "launch" /\ cmd[p] \in {"startd", "resumed"} /\ Busy(p)
        /\ p \in Launchers
    BY <1>4 DEF LaunchFails, Kin, Fits, Busy, Launchers
  <2>2. /\ Follows(p) /\ file[Id(p)] # None /\ outcome[Id(p)] = None
        /\ Own(p).turn = MetaOf(p).turn /\ Own(p).status = "running"
        /\ cmd[p] = "resumed" => cur[p].meta.turn = Own(p).turn
    BY <2>1 DEF Follows, Claimed
  <2>3. Id(p) \in Ids /\ MetaOf(p) \in Meta /\ MetaOf(p).turn \in Nat
    BY <2>1, InTurnFacts
  <2>4. \E s, c, w : Wrote(Id(p), s, Own(p).turn, c, w)
    <3>1. CASE cmd[p] = "startd"
      <4> DEFINE x == [MetaOf(p) EXCEPT !.status = "failed"]
      <4>1. x \in Meta /\ x.turn = Own(p).turn BY <2>2, <2>3 DEF Meta, Status
      <4>2. Save(p, x) BY <1>4, <3>1 DEF LaunchFails
      <4> HIDE DEF x
      <4> QED BY <2>1, <4>1, <4>2, SaveWrote
    <3>2. CASE cmd[p] = "resumed"
      <4>1. cur[p] # None BY <2>1, <3>2 DEF TInv, Held
      <4>2. cur[p] \in Record BY <4>1, CurIn
      <4>3. Put(Id(p), cur[p]) BY <1>4, <3>2 DEF LaunchFails
      <4>4. Wrote(Id(p), cur[p].meta.status, cur[p].meta.turn, cur[p].meta.proc,
                  cur[p].meta.worker)
        BY <2>3, <4>2, <4>3, PutWrote
      <4> QED BY <2>2, <3>2, <4>4
    <3> QED BY <2>1, <3>1, <3>2
  <2>5. PICK s, c, w : Wrote(Id(p), s, Own(p).turn, c, w) BY <2>4
  <2>6. Effect
    BY <1>2, <2>2, <2>3, <2>5, WroteEffect, NoneAssumption DEF Own, Status
  <2>7. p \in Launchers' /\ pc'[p] = "gone"
    BY <1>4, <2>1 DEF LaunchFails, Leave, LeaveAll, Launchers, os
  <2>8. ~ Untouched' BY <2>7 DEF Before, Untouched
  <2>9. ~ Over BY <2>1 DEF Over, Past
  <2>10. p \in D BY <1>4, <2>7 DEF LaunchFails, Leave, LeaveAll, Gone
  <2>11. \A q \in Procs \ D : ~ Busy(q) BY <2>1, <2>10, BusyPair
  <2> QED BY <1>1, <2>6, <2>8, <2>9, <2>11, Gather
<1>5. CASE Condemn(p)
  <2>1. /\ pc[p] = "condemn" /\ Over /\ outcome[Id(p)] = None /\ file[Id(p)] # None
        /\ Own(p).turn = MetaOf(p).turn
    BY <1>5 DEF Condemn, Awaits
  <2>2. Id(p) \in Ids /\ MetaOf(p) \in Meta /\ MetaOf(p).turn \in Nat /\ None \in Pid
    BY <2>1, InTurnFacts
  <2> DEFINE x == [MetaOf(p) EXCEPT !.status = "failed", !.proc = None]
  <2>3. x \in Meta /\ x.turn = Own(p).turn /\ x.status = "failed"
    BY <2>1, <2>2 DEF Meta, Status
  <2>4. Save(p, x) BY <1>5 DEF Condemn
  <2> HIDE DEF x
  <2>5. Wrote(Id(p), "failed", Own(p).turn, x.proc, x.worker)
    BY <2>1, <2>3, <2>4, SaveWrote
  <2>6. Effect
    BY <1>2, <2>1, <2>2, <2>5, WroteEffect, NoneAssumption DEF Own, Status
  <2>7. Kept BY <1>2, <2>1, <2>5 DEF Kept, Wrote, Own
  <2>8. ~ Untouched'
    <3>1. PICK l \in Launchers : Past(l) BY <2>1 DEF Over, Launchers
    <3>2. l \in Launchers' BY AloneBefore
    <3>3. Past(l)' BY <3>1 DEF Moves, Launchers
    <3> QED BY <3>2, <3>3 DEF Before, Untouched, Past
  <2>9. \A q \in Procs : ~ Busy(q) BY <2>1, OverNoneBusy
  <2> QED BY <1>1, <2>6, <2>7, <2>8, <2>9, Gather
<1>6. ~ StopDone(p) /\ ~ RateSave(p) /\ ~ DeleteDone(p) /\ ~ DeleteRefused(p)
  BY DEF StopDone, RateSave, DeleteDone, DeleteRefused, Kin, Fits, Alone
<1>7. UNCHANGED store \/ LaunchFails(p) \/ Condemn(p)
  BY <1>6 DEF Ends, StartRefused, ReleaseFails, ResumeRefused, SnapshotFails, RegisterFails, Watch,
     PollFails, Exit, WaitReturns, WaitLost, StopKill, StopGivesUp, Kill
<1> QED BY <1>3, <1>4, <1>5, <1>7

\* A wait condemns a turn that is over.
LEMMA ConfirmedOver ==
  ASSUME Now, NEW p \in Procs, WaitCondemns(p)
  PROVE  Over /\ outcome[Id(p)] = None /\ file[Id(p)] # None /\ Own(p).turn = MetaOf(p).turn
<1> USE DEF Now, KInv, At
<1>1. /\ pc[p] = "confirm" /\ file[Id(p)] # None /\ MetaOf(p).status = "running"
      /\ Own(p).status = "running" /\ MetaOf(p).proc # None /\ sess[p] # None
  BY DEF WaitCondemns, Unsettled, Own, TInv, Held
<1> DEFINE r == MetaOf(p).proc
<1>2. r \in Procs /\ pc[r] = "gone" /\ Turner(r) /\ (IsWorker(r) => Past(boss[r]))
  BY <1>1 DEF Confirmed, Started, SessStarted, Able
<1>3. cmd[p] = "wait" BY <1>1 DEF Kin, Fits
<1>4. Own(p).turn = MetaOf(p).turn BY <1>1, <1>3 DEF Awaits
<1>5. outcome[Id(p)] = None
  BY <1>1, SessId DEF OutcomeFits, OutcomeEnds, Own
<1>6. Over
  <2>1. CASE IsWorker(r)
    <3>1. boss[r] \in Launchers /\ cmd[boss[r]] \in {"startd", "resumed"}
      BY <1>2, <2>1 DEF Kin, Belongs, Launchers
    <3>2. \A l \in Launchers : l = boss[r] BY <3>1 DEF Alone
    <3>3. ASSUME NEW q \in Procs, Turner(q) PROVE q = r
      <4>1. IsWorker(q)
        BY <3>1, <3>2, <3>3 DEF Turner, Launchers, IsWorker
      <4>2. boss[q] \in Launchers BY <4>1 DEF Kin, Belongs, Launchers
      <4> QED BY <1>2, <2>1, <3>2, <4>1, <4>2 DEF Kin
    <3> QED BY <1>2, <2>1, <3>1, <3>2, <3>3 DEF Over, Launchers
  <2>2. CASE ~ IsWorker(r)
    <3>1. r \in Launchers /\ cmd[r] \in {"start", "resume"}
      BY <1>2, <2>2 DEF Turner, IsWorker, Launchers
    <3>2. \A l \in Launchers : l = r BY <3>1 DEF Alone
    <3>3. ASSUME NEW q \in Procs, Turner(q) PROVE q = r
      <4>1. ~ IsWorker(q) BY <3>1, <3>2 DEF Kin, Belongs, Launchers
      <4> QED BY <3>2, <3>3, <4>1 DEF Turner, Launchers, IsWorker
    <3> QED BY <1>2, <3>1, <3>2, <3>3 DEF Over, Launchers, Past
  <2> QED BY <2>1, <2>2
<1> QED BY <1>1, <1>4, <1>5, <1>6

LEMMA WaitDone ==
  ASSUME Now, Moves, Alone', TInv', Kin', [Next]_vars, NEW p \in Procs,
         \/ \E i \in Ids : WaitFind(p, i)
         \/ WaitScan(p) \/ WaitAgain(p) \/ WaitCondemns(p)
  PROVE  Done
<1> USE DEF Now, KInv, At, Go
<1>1. pc[p] \in {"find", "scan", "confirm"} /\ UNCHANGED <<store, cmd, outcome>>
  BY DEF WaitFind, WaitScan, WaitAgain, WaitCondemns, os, hist
<1>2. cmd[p] = "wait" /\ sess[p] # None
  BY <1>1 DEF Kin, Fits, TInv, Held
<1>3. Calm BY <1>1 DEF Calm, store
<1>4. pc'[p] \in {"find", "scan", "confirm", "condemn"}
      /\ (pc'[p] = "condemn" => WaitCondemns(p))
  BY DEF WaitFind, WaitScan, WaitAgain, WaitCondemns, TInv, PrivOK
<1>5. Follows(p)'
  BY <1>1, <1>2, <1>4 DEF Follows, Claimed, Running
<1>6. \/ sess'[p] = sess[p]
      \/ sess'[p].id \in Ids /\ sess'[p].rec = file[sess'[p].id] /\ pc'[p] = "scan"
  BY DEF WaitFind, WaitScan, WaitAgain, WaitCondemns, priv, TInv, PrivOK
<1>7. Awaits(p)'
  <2>1. CASE sess'[p] = sess[p]
    <3>1. ASSUME pc'[p] = "condemn" PROVE Over'
      BY <1>4, <3>1, ConfirmedOver, OverStays
    <3> QED BY <1>1, <1>2, <1>4, <2>1, <3>1, ConfirmedOver
            DEF Awaits, Own, Id, MetaOf, store
  <2>2. CASE /\ sess'[p].id \in Ids /\ sess'[p].rec = file[sess'[p].id] /\ pc'[p] = "scan"
    BY <1>1, <2>2 DEF Awaits, Own, Id, MetaOf, store
  <2> QED BY <1>6, <2>1, <2>2
<1>8. Walks(p) BY DEF Walks
<1> DEFINE D == {p}
<1>9. /\ \A q \in D \cap Procs : Follows(q)' /\ Awaits(q)'
      /\ \A q \in Procs \ D : Same(q)
  BY <1>5, <1>7, <1>8, WalksOthers
<1> HIDE DEF D
<1> QED BY <1>3, <1>9, Gather

\* A command that begins is the first launcher, if it is one.
LEMMA FirstLauncher ==
  ASSUME Now, Moves, Alone', NEW p \in Procs, cmd[p] = None, p \in Launchers'
  PROVE  Launchers = {} /\ \A i \in Ids : outcome[i] = None
<1>1. Launchers \subseteq Launchers' BY AloneBefore DEF Now, KInv
<1>2. p \notin Launchers BY NoneAssumption DEF Launchers, Commands
<1>3. Launchers = {} BY <1>1, <1>2 DEF Alone
<1> QED BY <1>3 DEF Now, Nothing, Untouched

\* A start that reserves a session is the only command at work.
LEMMA EnterDone ==
  ASSUME Now, Moves, Alone', TInv', Kin', [Next]_vars, NEW p \in Procs,
         NEW c \in {"start", "startd"}, NEW n \in AllNames, NEW i \in Ids, Enter(p, c, i, n),
         cmd'[p] = c, outcome' = outcome, \A q \in Procs \ {p} : Same(q) /\ ~ Busy(q),
         outcome[i] = None, ~ Over
  PROVE  Done
<1> USE DEF Now, KInv, At, Go
<1> DEFINE x == Reservation(p, c)
<1>1. /\ Fresh(i) /\ sess' = [sess EXCEPT ![p] = [id |-> i, rec |-> file'[i]]]
      /\ pc'[p] = IF c = "start" THEN "spawn" ELSE "launch"
  BY DEF Enter, TInv, PrivOK
<1>2. /\ file'[i] \in Record /\ file'[i].meta = x
      /\ \A k \in Ids \ {i} : file'[k] = file[k]
  BY EnterSets
<1>3. sess'[p] = [id |-> i, rec |-> file'[i]] /\ file[i] = None
  BY <1>1 DEF TInv, PrivOK, Fresh
<1>4. /\ x.status = "running" /\ x.turn = 0 /\ x.worker = None
      /\ x.proc = IF c = "start" THEN p ELSE None
  BY DEF Reservation
<1> HIDE DEF x
<1>5. Wrote(i, "running", 0, x.proc, None)
  BY <1>2, <1>4, NoneAssumption DEF Wrote
<1>6. p \in Launchers' BY DEF Launchers
<1>8. First(i) BY <1>1 DEF Fresh, First
<1>9. Effect BY <1>3, <1>5, <1>8, WroteEffect, NoneAssumption DEF Status
<1>10. ~ Untouched' BY <1>1, <1>6 DEF Untouched, Before
<1>13. Follows(p)' /\ Awaits(p)'
  <2>1. /\ Id(p)' = i /\ MetaOf(p)' = x /\ Own(p)' = x /\ file'[i] # None
        /\ ~ IsWorker(p)' /\ cmd'[p] # "wait"
    BY <1>2, <1>3, <1>5 DEF Id, MetaOf, Own, IsWorker, Wrote
  <2> QED BY <1>1, <1>4, <2>1 DEF Follows, Awaits, Claimed, Running, Leads
<1> DEFINE D == {p}
<1>14. /\ \A q \in D \cap Procs : Follows(q)' /\ Awaits(q)'
       /\ \A q \in Procs \ D : Same(q) /\ ~ Busy(q)
  BY <1>13
<1> HIDE DEF D
<1> QED BY <1>9, <1>10, <1>14, Gather

LEMMA ReserveDone ==
  ASSUME Now, Moves, Alone', TInv', Kin', [Next]_vars, NEW p \in Procs, NEW i \in Ids,
         Reserve(p, i)
  PROVE  Done
<1> USE DEF Now, KInv
<1>1. /\ At(p, "reserve") /\ Enter(p, cmd[p], i, sess[p].rec.name)
      /\ cmd' = cmd /\ outcome' = outcome
  BY DEF Reserve, os, hist
<1>2. cmd[p] \in {"start", "startd"} BY <1>1 DEF Kin, Fits, At
<1>3. sess[p].rec.name \in AllNames BY <1>1, SessIn DEF At
<1>4. Busy(p) BY <1>1, <1>2 DEF Busy, At
<1>5. \A q \in Procs \ {p} : ~ Busy(q) BY <1>1, <1>4, BusyPair DEF At
<1>6. \A q \in Procs \ {p} : Same(q)
  <2>1. Walks(p) BY DEF Walks
  <2> QED BY <2>1, WalksOthers
<1>7. ~ Over BY <1>4, OverNoneBusy
<1>8. Untouched
  <2>1. p \in Launchers BY <1>2 DEF Launchers
  <2> QED BY <1>1, <2>1 DEF Untouched, Before, Alone, At
<1>9. outcome[i] = None BY <1>8 DEF Nothing
<1> QED BY <1>1, <1>2, <1>3, <1>5, <1>6, <1>7, <1>9, EnterDone

LEMMA StartDone ==
  ASSUME Now, Moves, Alone', TInv', Kin', [Next]_vars, NEW p \in Procs,
         NEW c \in Commands, NEW n \in Names, NEW i \in Ids, Start(p, c, i, n)
  PROVE  Done
<1> USE DEF Now, KInv
<1>1. /\ pc[p] = "new" /\ c \in {"start", "startd"} /\ Enter(p, c, i, n)
      /\ cmd'[p] = c /\ outcome' = outcome
  BY DEF Start, Begin, hist, TInv, OsOK, At
<1>2. \A q \in Procs \ {p} : Same(q)
  BY DEF Start, Enter, Begin, Go, TInv, PrivOK, OsOK, Same
<1>3. cmd[p] = None /\ p \in Launchers' BY <1>1 DEF Kin, Fits, Launchers, At
<1>4. Launchers = {} /\ outcome[i] = None BY <1>3, FirstLauncher
<1>5. ~ Over BY <1>4 DEF Over
<1>6. \A q \in Procs : ~ Busy(q) BY <1>4, BusyWho
<1>7. n \in AllNames BY DEF AllNames
<1> QED BY <1>1, <1>2, <1>4, <1>5, <1>6, <1>7, EnterDone

LEMMA WalksDone ==
  ASSUME Now, Moves, Alone', TInv', Kin', [Next]_vars, NEW p \in Procs, Walks(p)
  PROVE  Done
<1> USE DEF Now, KInv, At
<1> DEFINE W == \/ \E i \in Ids : WaitFind(p, i)
                \/ WaitScan(p) \/ WaitAgain(p) \/ WaitCondemns(p)
<1>1. CASE W BY <1>1, WaitDone
<1>3. ASSUME NEW i \in Ids, Reserve(p, i) PROVE Done BY <1>3, ReserveDone
<1>2. CASE ~ W /\ ~ \E i \in Ids : Reserve(p, i)
  <2>1. Acts(p) BY <1>2, ReleaseActs, ResumeActs, ProviderActs, ReportActs DEF Walks
  <2>2. Busy(p) /\ pc[p] \notin {"register", "poll"}
    <3>1. pc[p] \in {"release", "check", "snapshot", "claim", "reread", "spawn", "observe", "early",
                     "event", "turn", "report", "swap", "wrap", "wrapup"}
      BY <1>2 DEF Walks, Release, ResumeChecked, Snapshot, SnapshotFails, Claim, Reread,
         Spawn, SpawnFails, Observe, ReadEvent, SaveEvent, EndTurn, FinishStart,
         DropReserved, FailStart, FinishResume, FailResume, Wrap, WrapUp
    <3> QED BY <3>1 DEF Busy, Kin, Fits, Turner, IsStart, IsWorker
  <2>3. Awaits(p)'
    <3>1. cmd'[p] # "wait" BY <2>2 DEF Busy, Moves
    <3> QED BY <3>1 DEF Awaits, Kin, Fits
  <2>4. ~ Over BY <2>2, OverNoneBusy
  <2>5. \A q \in Procs \ {p} : ~ Busy(q) BY <2>2, BusyPair
  <2> DEFINE D == {p}
  <2>6. /\ \A q \in D \cap Procs : Follows(q)' /\ Awaits(q)'
        /\ \A q \in Procs \ D : Same(q) /\ ~ Busy(q)
    BY <2>1, <2>3, <2>5, WalksOthers DEF Acts
  <2> HIDE DEF D
  <2> QED BY <2>1, <2>4, <2>6, Gather DEF Acts
<1> QED BY <1>1, <1>2, <1>3

LEMMA OpensDone ==
  ASSUME Now, Moves, Alone', TInv', Kin', [Next]_vars, NEW p \in Procs, Opens(p)
  PROVE  Done
<1> USE DEF Now, KInv, At, Go
<1>1. PICK c \in Commands, i \in Ids, l \in {"release", "check", "scan", "stop", "rate", "delete"} :
        /\ Open(p, c, i, l)
        /\ \/ c \in {"start", "startd"} /\ l = "release"
           \/ c \in {"resume", "resumed"} /\ l = "check"
           \/ c = "wait" /\ l = "scan"
           \/ c \in {"stop", "rate", "delete"}
  BY OpensAt
<1>2. /\ pc[p] = "new" /\ UNCHANGED <<store, outcome>>
      /\ file[i] # None /\ sess'[p] = [id |-> i, rec |-> file[i]]
      /\ cmd'[p] = c /\ pc'[p] = l
      /\ \A q \in Procs \ {p} : Same(q)
  BY <1>1 DEF Open, Begin, Present, hist, TInv, PrivOK, OsOK, Same
<1>3. Calm BY <1>2 DEF Calm, store
<1>4. cmd[p] = None BY <1>2 DEF Kin, Fits
<1>5. c \notin {"stop", "rate", "delete"} BY <1>2 DEF Alone
<1>6. Follows(p)' /\ Awaits(p)'
  <2>3. CASE l = "release"
    <3>1. /\ Id(p)' = i /\ MetaOf(p)' = file[i].meta /\ Own(p)' = file[i].meta
          /\ file'[i] # None /\ c \in {"start", "startd"}
      BY <1>1, <1>2, <1>5, <2>3 DEF Id, MetaOf, Own, store
    <3> QED
      BY <1>2, <2>3, <3>1 DEF Follows, Awaits, Claimed, Running, IsWorker
  <2>1. CASE l = "check"
    <3>1. p \in Launchers' BY <1>1, <1>2, <1>5, <2>1 DEF Launchers
    <3>2. outcome[i] = None BY <1>4, <3>1, FirstLauncher
    <3> QED
      BY <1>1, <1>2, <1>5, <2>1, <3>2
      DEF Follows, Awaits, Claimed, Running, Id, MetaOf, Own, store
  <2>2. CASE l = "scan"
    BY <1>1, <1>2, <1>5, <2>2
    DEF Follows, Awaits, Claimed, Running, Id, MetaOf, Own, store
  <2> QED BY <1>1, <1>5, <2>1, <2>2, <2>3
<1> DEFINE D == {p}
<1>7. /\ \A q \in D \cap Procs : Follows(q)' /\ Awaits(q)'
      /\ \A q \in Procs \ D : Same(q)
  BY <1>2, <1>6
<1> HIDE DEF D
<1> QED BY <1>3, <1>7, Gather

LEMMA LaunchDone ==
  ASSUME Now, Moves, Alone', TInv', Kin', [Next]_vars, NEW p \in Procs, NEW w \in Procs,
         Launch(p, w)
  PROVE  Done
<1> USE DEF Now, KInv, At
<1>1. /\ pc[p] = "launch" /\ pc[w] = "new" /\ p # w /\ UNCHANGED <<store, outcome, cur>>
      /\ cmd'[p] = cmd[p] /\ cmd'[w] = (IF cmd[p] = "startd" THEN "startw" ELSE "resumew")
      /\ sess'[p] = sess[p] /\ sess'[w] = sess[p]
      /\ pc'[p] = "register" /\ pc'[w] = "poll"
      /\ \A q \in Procs \ {p, w} : Same(q)
  BY DEF Launch, hist, TInv, PrivOK, OsOK, Same
<1>2. cmd[w] = None /\ cmd[p] \in {"startd", "resumed"} BY <1>1 DEF Kin, Fits
<1>3. /\ Follows(p) /\ file[Id(p)] # None /\ outcome[Id(p)] = None /\ sess[p] # None
      /\ Own(p).turn = MetaOf(p).turn /\ Own(p).status = "running" /\ Id(p) \in Ids
  BY <1>1, InTurnFacts DEF Follows, Claimed
<1>4. Own(p).proc # w
  <2>1. Own(p).proc \in Able BY <1>3 DEF Started, FileStarted, Own
  <2>2. ~ Turner(w) BY <1>2, NoneAssumption DEF Turner, Commands
  <2> QED BY <2>1, <2>2, TurnAssumption DEF Able, TurnAssumption
<1>5. Calm BY <1>1 DEF Calm, store
<1>6. Follows(p)' /\ Awaits(p)'
  BY <1>1, <1>2, <1>3
  DEF Follows, Awaits, Claimed, Running, Id, MetaOf, Own, store, IsWorker
<1>7. Follows(w)' /\ Awaits(w)'
  <2>1. /\ Id(w)' = Id(p) /\ MetaOf(w)' = MetaOf(p) /\ Own(w)' = Own(p)
        /\ file'[Id(p)] # None /\ outcome'[Id(p)] = None
    BY <1>1, <1>3 DEF Id, MetaOf, Own, store
  <2>2. cmd'[w] = "startw" => MetaOf(p).turn = 0
    BY <1>1, <1>3 DEF Follows
  <2> QED BY <1>1, <1>3, <1>4, <2>1, <2>2
          DEF Follows, Awaits, Claimed, Running
<1> DEFINE D == {p, w}
<1>8. /\ \A q \in D \cap Procs : Follows(q)' /\ Awaits(q)'
      /\ \A q \in Procs \ D : Same(q)
  BY <1>1, <1>6, <1>7
<1> HIDE DEF D
<1> QED BY <1>5, <1>8, Gather

LEMMA PollDone ==
  ASSUME Now, Moves, Alone', TInv', Kin', [Next]_vars, NEW p \in Procs, Poll(p)
  PROVE  Done
<1> USE DEF Now, KInv, At, Go
<1>1. /\ pc[p] = "poll" /\ UNCHANGED <<store, sess, cur, cmd, outcome>>
      /\ file[Id(p)] # None /\ Own(p).proc = p /\ IsWorker(p)
      /\ pc'[p] = IF cmd[p] = "startw" THEN "spawn" ELSE "reread"
      /\ \A q \in Procs \ {p} : Same(q)
  BY DEF Poll, Own, priv, os, hist, TInv, PrivOK, Kin, Fits, Same
<1>2. Calm BY <1>1 DEF Calm, store
<1>3. Follows(p) BY DEF Now
<1>4. Follows(p)' /\ Awaits(p)'
  BY <1>1, <1>3
  DEF Follows, Awaits, Claimed, Running, Leads, Id, MetaOf, Own, store, IsWorker
<1> DEFINE D == {p}
<1>5. /\ \A q \in D \cap Procs : Follows(q)' /\ Awaits(q)'
      /\ \A q \in Procs \ D : Same(q)
  BY <1>1, <1>4
<1> HIDE DEF D
<1> QED BY <1>2, <1>5, Gather

LEMMA RegisterDone ==
  ASSUME Now, Moves, Alone', TInv', Kin', [Next]_vars, NEW p \in Procs, NEW w \in Procs,
         Register(p, w)
  PROVE  Done
<1> USE DEF Now, KInv, At, Go
<1>1. pc[p] = "register" /\ boss[w] = p BY DEF Register
<1>2. IsWorker(w) /\ cmd[p] \in {"startd", "resumed"} /\ w # p /\ w # None /\ w \in Pid
  BY <1>1, TurnAssumption DEF Kin, Belongs, Fits, IsWorker, TurnAssumption, Pid
<1>3. /\ Follows(p) /\ file[Id(p)] # None /\ outcome[Id(p)] = None
      /\ Own(p).turn = MetaOf(p).turn /\ Own(p).status = "running"
  BY <1>1 DEF Follows, Claimed
<1>4. /\ Id(p) \in Ids /\ MetaOf(p) \in Meta /\ MetaOf(p).turn \in Nat
  BY <1>1, InTurnFacts
<1> DEFINE x == [MetaOf(p) EXCEPT !.status = "running", !.proc = w, !.worker = w]
<1>5. /\ x \in Meta /\ x.status = "running" /\ x.turn = MetaOf(p).turn
      /\ x.proc = w /\ x.worker = w
  BY <1>2, <1>4 DEF Meta, Status
<1>6. SaveOn(p, x) BY DEF Register
<1> HIDE DEF x
<1>7. /\ Wrote(Id(p), "running", MetaOf(p).turn, w, w)
      /\ sess' = [sess EXCEPT ![p] = [id |-> Id(p), rec |-> file'[Id(p)]]]
  BY <1>1, <1>5, <1>6, SaveWrote, SaveOnSess DEF SaveOn
<1>8. /\ UNCHANGED <<outcome, cmd, cur>> /\ pc'[p] = "watch"
      /\ sess'[p] = [id |-> Id(p), rec |-> file'[Id(p)]]
      /\ \A q \in Procs \ {p} : Same(q)
  BY <1>7 DEF Register, os, hist, TInv, PrivOK, Same
<1>9. Effect
  BY <1>3, <1>4, <1>7, <1>8, WroteEffect, NoneAssumption DEF Own, Status
<1>10. ~ Untouched'
  BY <1>2, <1>8 DEF Before, Untouched, Launchers
<1>11. ~ Over BY <1>1, <1>2 DEF Over, Launchers, Past
<1>12. Follows(p)' /\ Awaits(p)'
  <2>1. cmd[p] = "startd" => MetaOf(p).turn = 0
    BY <1>1, InTurnFacts DEF Follows
  <2>2. MetaOf(p)'.turn = MetaOf(p).turn
    BY <1>7, <1>8 DEF MetaOf, Wrote
  <2> QED BY <1>2, <1>8, <2>1, <2>2 DEF Follows, Awaits, Claimed, Running
<1>13. Busy(p) BY <1>1, FollowersBusy DEF Claimed
<1>14. ASSUME NEW q \in Procs \ {p}, Busy(q) PROVE q = w /\ pc[w] = "poll"
  <2>1. pc[q] = "poll" /\ boss[q] = p BY <1>1, <1>13, <1>14, BusyPair
  <2>2. IsWorker(q) BY <2>1, TurnAssumption DEF Kin, TurnAssumption
  <2> QED BY <1>1, <1>2, <2>1, <2>2 DEF Kin
<1>15. Follows(w)'
  <2>1. CASE ~ Busy(w) BY <1>2, <1>8, <2>1, SameFollows
  <2>2. CASE Busy(w)
    <3>1. /\ Follows(w) /\ pc[w] = "poll" /\ file[Id(w)] # None /\ outcome[Id(w)] = None
          /\ Own(w).turn = MetaOf(w).turn /\ Own(w).status = "running"
      BY <1>2, <1>14, <2>2 DEF Follows, Claimed
    <3>2. /\ pc'[w] = "poll" /\ Id(w)' = Id(w) /\ MetaOf(w)' = MetaOf(w)
          /\ cmd'[w] = cmd[w]
      BY <1>2, <1>8, <3>1 DEF Same, Id, MetaOf
    <3>3. Id(w) \in Ids BY <3>1, InTurnFacts
    <3>4. /\ Own(w)'.status = "running" /\ Own(w)'.turn = MetaOf(w).turn
          /\ Own(w)'.proc = w => Own(w)'.worker = w
          /\ file'[Id(w)] # None
      <4>1. CASE Id(w) = Id(p)
        BY <1>3, <1>7, <3>1, <3>2, <4>1 DEF Own, Wrote
      <4>2. CASE Id(w) # Id(p)
        BY <1>7, <3>1, <3>2, <3>3, <4>2 DEF Own, Wrote, Follows
      <4> QED BY <4>1, <4>2
    <3>5. sess[w] # None /\ (cmd[w] = "startw" => MetaOf(w).turn = 0)
      BY <1>2, <3>1, InTurnFacts DEF Follows
    <3>6. cmd[w] \in {"startw", "resumew"} BY <1>2 DEF IsWorker
    <3> QED BY <1>8, <3>1, <3>2, <3>4, <3>5, <3>6 DEF Follows, Claimed, Running
  <2> QED BY <2>1, <2>2
<1>16. Awaits(w)'
  BY <1>2, <1>8 DEF Awaits, IsWorker, Kin, Fits
<1> DEFINE D == {p, w}
<1>17. /\ \A q \in D \cap Procs : Follows(q)' /\ Awaits(q)'
       /\ \A q \in Procs \ D : Same(q) /\ ~ Busy(q)
  BY <1>8, <1>12, <1>14, <1>15, <1>16
<1> HIDE DEF D
<1> QED BY <1>9, <1>10, <1>11, <1>17, Gather

LEMMA DoneStep ==
  ASSUME Now, Moves, Alone', TInv', Kin', [Next]_vars PROVE Done
<1>1. CASE Stands BY <1>1, StandsDone
<1>2. ASSUME NEW p \in Procs,
             \/ Ends(p) \/ Walks(p) \/ Opens(p) \/ Poll(p)
             \/ \E c \in Commands, n \in Names, i \in Ids : Start(p, c, i, n)
             \/ \E w \in Procs : Launch(p, w) \/ Register(p, w)
      PROVE  Done
  BY <1>2, EndsDone, WalksDone, OpensDone, PollDone, StartDone, LaunchDone, RegisterDone
<1> QED BY <1>1, <1>2, NextSorted

\* An outcome is never "running", however many commands run.
LEMMA EndsRecorded == ASSUME TInv, OutcomeEnds, [Next]_vars PROVE OutcomeEnds'
<1> USE NoneAssumption DEF TInv, PrivOK, HistOK, Status
<1>1. ASSUME UNCHANGED outcome PROVE OutcomeEnds' BY <1>1 DEF OutcomeEnds
<1>2. ASSUME NEW i, NEW o, o # "running", outcome' = [outcome EXCEPT ![i] = o]
      PROVE  OutcomeEnds'
  BY <1>2 DEF OutcomeEnds
<1>3. ASSUME NEW p \in Procs, Walks(p) PROVE OutcomeEnds'
  <2>1. out[p] # "running" OBVIOUS
  <2>2. CASE \/ Claim(p) \/ (\E j \in Ids : FinishStart(p, j)) \/ FailStart(p)
             \/ FinishResume(p) \/ FailResume(p) \/ WrapUp(p)
    BY <1>1, <1>2, <2>1, <2>2
    DEF Claim, FinishStart, FailStart, FinishResume, FailResume, WrapUp
  <2>3. CASE \/ Release(p) \/ (\E i \in Ids : Reserve(p, i)) \/ ResumeChecked(p) \/ Snapshot(p) \/ (SnapshotFails(p) /\ IsWorker(p))
             \/ Reread(p) \/ Spawn(p) \/ SpawnFails(p) \/ Observe(p) \/ ReadEvent(p)
             \/ SaveEvent(p) \/ \E o \in {"completed", "failed", "stopped"} : EndTurn(p, o)
             \/ DropReserved(p) \/ Wrap(p)
             \/ \E i \in Ids : WaitFind(p, i)
             \/ WaitScan(p) \/ WaitAgain(p) \/ WaitCondemns(p)
    BY <1>1, <2>3
    DEF Release, Reserve, ResumeChecked, Snapshot, SnapshotFails, Reread, Spawn, SpawnFails, Observe,
        ReadEvent, SaveEvent, EndTurn, DropReserved, Wrap, WaitFind, WaitScan, WaitAgain,
        WaitCondemns, hist
  <2> QED BY <1>3, <2>2, <2>3 DEF Walks
<1>4. ASSUME NEW p \in Procs,
             \/ Ends(p) \/ Opens(p) \/ Poll(p)
             \/ \E c \in Commands, n \in Names, i \in Ids : Start(p, c, i, n)
             \/ \E w \in Procs : Launch(p, w) \/ Register(p, w)
      PROVE  OutcomeEnds'
  <2>1. CASE Ends(p) BY <1>1, <2>1, EndsFrame
  <2>2. CASE Opens(p)
    <3>1. UNCHANGED outcome BY <2>2, OpensAt DEF Open, Begin, hist
    <3> QED BY <1>1, <3>1
  <2>3. CASE \/ Poll(p)
             \/ \E c \in Commands, n \in Names, i \in Ids : Start(p, c, i, n)
             \/ \E w \in Procs : Launch(p, w) \/ Register(p, w)
    <3>1. ASSUME Poll(p) PROVE UNCHANGED outcome BY <3>1 DEF Poll, hist
    <3>2. ASSUME NEW c \in Commands, NEW n \in Names, NEW i \in Ids, Start(p, c, i, n)
          PROVE  UNCHANGED outcome
      BY <3>2 DEF Start, Begin, hist
    <3>3. ASSUME NEW w \in Procs, Launch(p, w) PROVE UNCHANGED outcome
      BY <3>3 DEF Launch, hist
    <3>4. ASSUME NEW w \in Procs, Register(p, w) PROVE UNCHANGED outcome
      BY <3>4 DEF Register, hist
    <3> QED BY <1>1, <2>3, <3>1, <3>2, <3>3, <3>4
  <2> QED BY <1>4, <2>1, <2>2, <2>3
<1> QED BY <1>1, <1>3, <1>4, NextSorted, StandsAll

LEMMA OInvStep ==
  ASSUME OInv, [Next]_vars PROVE OInv' /\ (OneCommand' => Effect)
<1> USE DEF OInv
<1>1. KInv' /\ Moves BY KInvStep
<1>2. OutcomeEnds' BY EndsRecorded DEF KInv
<1>3. ASSUME Alone' PROVE Done
  <2>1. Alone BY <1>1, <1>3, AloneBefore DEF KInv
  <2>2. Now BY <2>1 DEF Now, One
  <2> QED BY <1>1, <1>3, <2>2, DoneStep DEF KInv
<1>4. One' BY <1>3 DEF Done, One
<1>5. OneCommand' => Alone' BY OneCommandAlone
<1> QED BY <1>1, <1>2, <1>3, <1>4, <1>5 DEF Done

LEMMA InitOInv == Init => OInv
<1> SUFFICES ASSUME Init PROVE OInv OBVIOUS
<1>1. KInv BY InitKInv
<1>2. OutcomeEnds BY NoneAssumption DEF Init, OutcomeEnds, Status
<1>3. \A i \in Ids : outcome[i] = None /\ (file[i] # None => file[i].meta.status # "running")
  <2>1. \A i \in Ids : outcome[i] = None BY DEF Init
  <2>2. Idle.status # "running" /\ Unborn.status # "running" BY DEF Idle, Unborn
  <2>3. ASSUME NEW i \in Ids, file[i] # None PROVE file[i].meta.status # "running"
    <3>1. PICK n \in Names, E \in Existing, x \in {Idle, Unborn} :
            file = [k \in Ids |-> IF k \in E THEN [name |-> n, meta |-> x, pending |-> {}]
                                  ELSE None]
      BY DEF Init
    <3>2. file[i] = [name |-> n, meta |-> x, pending |-> {}] BY <2>3, <3>1
    <3>3. file[i].meta = x BY <3>2
    <3> QED BY <2>2, <3>3
  <2> QED BY <2>1, <2>3
<1>4. \A p \in Procs : pc[p] = "new" /\ sess[p] = None /\ cmd[p] = None BY DEF Init
<1>5. Nothing /\ OutcomeFits BY <1>3, <1>4 DEF Nothing, OutcomeFits
<1>6. \A p \in Procs : Follows(p) /\ Awaits(p)
  BY <1>4, NoneAssumption DEF Follows, Awaits, Claimed, Before, Running, At, Commands
<1>7. One BY <1>5, <1>6 DEF One
<1> QED BY <1>1, <1>2, <1>7 DEF OInv

\* The outcome that the process of a turn has saved stays in the record.
THEOREM OutcomeIsKept == Spec => []OutcomeKept
<1>1. OInv => OutcomeKept
  BY OneCommandAlone DEF OInv, One, OutcomeFits, OutcomeKept, KInv
<1>2. OInv /\ [Next]_vars => OInv' BY OInvStep
<1> QED BY InitOInv, <1>1, <1>2, PTL DEF Spec

\* The variables have their types, and the record leads to the process that
\* works on the turn.
THEOREM TurnRecorded == Spec => []TurnIsRecorded
<1>1. OInv => TurnIsRecorded
  <2> SUFFICES ASSUME OInv PROVE TurnIsRecorded OBVIOUS
  <2> USE DEF OInv, KInv
  <2>1. TypeOK BY TypesRight
  <2>2. ASSUME OneCommand, NEW p \in Procs, pc[p] \in InTurn, file[Id(p)] # None
        PROVE  p \in Tree(file[Id(p)].meta)
    <3>1. Follows(p) BY <2>2, OneCommandAlone DEF One
    <3>2. p \in {Own(p).proc, Own(p).worker}
      BY <2>2, <3>1 DEF InTurn, Follows, Running, Leads
    <3>3. p \in Roots(Own(p)) BY <3>2, TurnAssumption DEF Roots, TurnAssumption
    <3>4. p \in Alive BY <2>2 DEF InTurn, Alive
    <3> QED BY <3>3, <3>4 DEF Tree, Own
  <2> QED BY <2>1, <2>2 DEF TurnIsRecorded
<1>2. OInv /\ [Next]_vars => OInv' BY OInvStep
<1> QED BY InitOInv, <1>1, <1>2, PTL DEF Spec

\* The turn counter of a stored session never goes back.
THEOREM TurnsGoOn == Spec => TurnsKept
<1>1. OInv /\ [Next]_vars =>
        (OneCommand' => \A i \in Ids : file[i] # None /\ file'[i] # None =>
           file[i].meta.turn <= file'[i].meta.turn)
  BY OInvStep DEF Effect, Touches
<1>2. OInv /\ [Next]_vars => OInv' BY OInvStep
<1> QED BY InitOInv, <1>1, <1>2, PTL DEF Spec, TurnsKept

-----------------------------------------------------------------------------
(* The abstract registry. *)

\* A session is in the registry or in its archive.
Stored(i) == file[i] # None \/ archive[i] # None

\* A copy is of such a session: no save meets an ID the registry never had.
CopiesStored == \A p \in Procs : sess[p] # None => Stored(Id(p))

\* What QueueExact says, and what it needs of an ID without a file.
Queues ==
  \A i \in Ids : archive[i] = None =>
    /\ acked[i] \subseteq sent[i]
    /\ file[i] = None => sent[i] = {}
    /\ file[i] # None => file[i].pending = sent[i] \ acked[i]

\* A save is one step of the abstract registry ...
LEMMA PutMoves ==
  ASSUME TInv, NEW i \in Ids, NEW r \in Record, Put(i, r) PROVE RegistryNext
<1>1. r.name \in AllNames /\ r.meta \in Meta /\ {} \in SUBSET Msgs BY DEF Record
<1>2. CASE file[i] # None
  <2>1. Rewrite(i, r.name, r.meta, {}) BY <1>2 DEF Put
  <2> QED BY <1>1, <2>1 DEF RegistryNext
<1>3. CASE file[i] = None
  <2>1. Revive(i, r) BY <1>3 DEF Put
  <2> QED BY <2>1 DEF RegistryNext
<1> QED BY <1>2, <1>3

\* ... and so is whatever else a process does to it, if anything.
LEMMA RegistryMoves ==
  ASSUME TInv, [Next]_vars PROVE [RegistryNext]_rvars
<1>1. ASSUME UNCHANGED store PROVE UNCHANGED rvars BY <1>1 DEF store, rvars
<1>2. ASSUME NEW p \in Procs, Reads(p) \/ Saves(p) PROVE [RegistryNext]_rvars
  BY <1>1, <1>2, ReadsFrame, SavesRecord, PutMoves DEF Saved
<1>8. ASSUME NEW p \in Procs, NEW c, NEW n \in AllNames, NEW i \in Ids, Enter(p, c, i, n)
      PROVE  RegistryNext
  <2> DEFINE x == Reservation(p, c)
  <2>1. x \in Meta BY ReservationIn
  <2>2. Create(i, n, x) BY <1>8 DEF Enter
  <2> HIDE DEF x
  <2> QED BY <2>1, <2>2 DEF RegistryNext
<1>3. ASSUME NEW p \in Procs,
             \/ \E c \in Commands, n \in Names, i \in Ids : Start(p, c, i, n)
             \/ \E i \in Ids : Reserve(p, i)
      PROVE  RegistryNext
  <2>1. CASE \E c \in Commands, n \in Names, i \in Ids : Start(p, c, i, n)
    BY <1>8, <2>1 DEF Start, AllNames
  <2>2. ASSUME NEW i \in Ids, Reserve(p, i) PROVE RegistryNext
    <3>1. sess[p].rec.name \in AllNames BY <2>2, SessIn DEF Reserve, At
    <3> QED BY <1>8, <2>2, <3>1 DEF Reserve
  <2> QED BY <1>3, <2>1, <2>2
<1>4. ASSUME NEW p \in Procs, FinishResume(p) PROVE [RegistryNext]_rvars
  <2>1. CASE file[Id(p)] = None
    BY <1>1, <1>4, <2>1 DEF FinishResume
  <2>2. CASE file[Id(p)] # None
    <3>0. PICK s \in BOOLEAN :
            Rewrite(Id(p), sess[p].rec.name, TurnDone(MetaOf(p), s), snap[p])
      BY <1>4, <2>2 DEF FinishResume
    <3> DEFINE x == TurnDone(MetaOf(p), s)
               n == sess[p].rec.name
    <3>1. Rewrite(Id(p), n, x, snap[p]) BY <3>0
    <3>2. Id(p) \in Ids /\ MetaOf(p) \in Meta /\ n \in AllNames
      BY <1>4, SessIn DEF FinishResume, At
    <3>3. x \in Meta BY <3>2, TurnDoneIn
    <3>4. snap[p] \in SUBSET Msgs BY DEF TInv, PrivOK
    <3> HIDE DEF x, n
    <3> QED BY <3>1, <3>2, <3>3, <3>4 DEF RegistryNext
  <2> QED BY <2>1, <2>2
<1>5. ASSUME NEW p \in Procs, DropReserved(p) \/ DeleteDone(p) PROVE [RegistryNext]_rvars
  <2>1. Id(p) \in Ids BY <1>5, SessIn DEF DropReserved, DeleteDone, At
  <2>2. CASE UNCHANGED store BY <1>1, <2>2
  <2>3. CASE Delete(Id(p)) BY <2>1, <2>3 DEF RegistryNext
  <2> QED BY <1>5, <2>2, <2>3 DEF DropReserved, DeleteDone
<1>6. ASSUME NEW i \in Ids, NEW m \in Msgs, Send(i, m) PROVE RegistryNext
  <2>1. Enqueue(i, m) BY <1>6 DEF Send
  <2> QED BY <2>1 DEF RegistryNext
<1>7. CASE UNCHANGED vars BY <1>1, <1>7 DEF vars, store
<1> QED BY <1>2, <1>3, <1>4, <1>5, <1>6, <1>7, NextSplit

\* What a step of the registry does to one session.
Change(i) ==
  \/ UNCHANGED <<file[i], archive[i], sent[i], acked[i]>>
  \/ /\ file[i] = None /\ file'[i] # None /\ UNCHANGED <<archive[i], sent[i], acked[i]>>
     /\ archive[i] = None => file'[i].pending = {}
  \/ /\ file[i] # None /\ file'[i] # None /\ UNCHANGED <<archive[i], sent[i]>>
     /\ \E S \in SUBSET Msgs : /\ file'[i].pending = file[i].pending \ S
                               /\ acked'[i] = acked[i] \cup (file[i].pending \cap S)
  \/ /\ file[i] # None /\ file'[i] # None /\ UNCHANGED <<archive[i], acked[i]>>
     /\ \E m \in Msgs : /\ m \notin sent[i]
                        /\ file'[i].pending = file[i].pending \cup {m}
                        /\ sent'[i] = sent[i] \cup {m}
  \/ /\ file[i] # None /\ archive'[i] # None
     /\ file'[i] = None => archive'[i] = file[i]

\* Every operation of the registry is one of these for every session.
LEMMA Changes ==
  ASSUME RegistryTypeOK, [RegistryNext]_rvars, NEW i \in Ids PROVE Change(i)
<1> USE NoneAssumption DEF RegistryTypeOK
<1>1. CASE UNCHANGED rvars BY <1>1 DEF rvars, Change
<1>2. ASSUME NEW n \in AllNames, NEW x \in Meta, NEW S \in SUBSET Msgs
      PROVE  [name |-> n, meta |-> x, pending |-> S] # None
  BY <1>2 DEF Record
<1>3. file[i] # None => file[i].pending \in SUBSET Msgs BY DEF Record
<1>4. ASSUME NEW n \in AllNames, NEW x \in Meta, Create(i, n, x) PROVE Change(i)
  <2>1. file'[i] = [name |-> n, meta |-> x, pending |-> {}] /\ file[i] = None
    BY <1>4 DEF Create, Clash, Present
  <2>2. file'[i] # None /\ file'[i].pending = {} BY <1>2, <2>1
  <2> QED BY <1>4, <2>1, <2>2 DEF Create, Change
<1>5. ASSUME NEW n \in AllNames, NEW x \in Meta, NEW S \in SUBSET Msgs, Rewrite(i, n, x, S)
      PROVE  Change(i)
  <2>1. file'[i] = [name |-> n, meta |-> x, pending |-> file[i].pending \ S]
        /\ file[i] # None /\ acked'[i] = acked[i] \cup (file[i].pending \cap S)
        /\ archive' = archive /\ sent' = sent
    BY <1>5 DEF Rewrite
  <2>2. file[i].pending \ S \in SUBSET Msgs BY <1>3, <2>1
  <2>3. file'[i] # None /\ file'[i].pending = file[i].pending \ S BY <1>2, <2>1, <2>2
  <2> QED BY <2>1, <2>3 DEF Change
<1>6. ASSUME NEW r \in Record, Revive(i, r) PROVE Change(i)
  BY <1>6 DEF Revive, Change
<1>7. ASSUME NEW m \in Msgs, Enqueue(i, m) PROVE Change(i)
  <2>1. /\ file'[i] = [file[i] EXCEPT !.pending = @ \cup {m}] /\ file[i] # None
        /\ sent'[i] = sent[i] \cup {m} /\ m \notin sent[i]
        /\ archive' = archive /\ acked' = acked
    BY <1>7 DEF Enqueue
  <2>2. file[i] \in Record BY <2>1
  <2>3. file'[i] \in Record /\ file'[i].pending = file[i].pending \cup {m}
    BY <2>1, <2>2 DEF Record
  <2>4. file'[i] # None BY <2>3
  <2> QED BY <2>1, <2>3, <2>4 DEF Change
<1>8. CASE Archive(i) \/ Remove(i) \/ Delete(i)
  BY <1>8 DEF Archive, Remove, Delete, Change
<1>9. CASE RegistryNext
  <2>1. PICK j \in Ids :
          \/ \E n \in AllNames, x \in Meta :
               Create(j, n, x) \/ \E S \in SUBSET Msgs : Rewrite(j, n, x, S)
          \/ \E r \in Record : Revive(j, r)
          \/ \E m \in Msgs : Enqueue(j, m)
          \/ Archive(j) \/ Remove(j) \/ Delete(j)
    BY <1>9 DEF RegistryNext
  <2>2. CASE j = i BY <1>4, <1>5, <1>6, <1>7, <1>8, <2>1, <2>2
  <2>3. CASE j # i
    <3>1. UNCHANGED <<file[i], archive[i], sent[i], acked[i]>>
      BY <2>1, <2>3 DEF Create, Rewrite, Revive, Enqueue, Archive, Remove, Delete
    <3> QED BY <3>1 DEF Change
  <2> QED BY <2>2, <2>3
<1> QED BY <1>1, <1>9

\* Nothing leaves the registry unarchived.
LEMMA StoredStays ==
  ASSUME NEW i \in Ids, Change(i), Stored(i) PROVE Stored(i)'
BY DEF Change, Stored

\* The queues stay exact, whichever operations they go through.
LEMMA QueuesStep ==
  ASSUME Queues, \A i \in Ids : Change(i) PROVE Queues'
<1> SUFFICES ASSUME NEW i \in Ids, archive'[i] = None
             PROVE  /\ acked'[i] \subseteq sent'[i]
                    /\ file'[i] = None => sent'[i] = {}
                    /\ file'[i] # None => file'[i].pending = sent'[i] \ acked'[i]
  BY DEF Queues
<1>1. Change(i) OBVIOUS
<1>2. archive[i] = None BY <1>1 DEF Change
<1>3. /\ acked[i] \subseteq sent[i]
      /\ file[i] = None => sent[i] = {}
      /\ file[i] # None => file[i].pending = sent[i] \ acked[i]
  BY <1>2 DEF Queues
<1> QED BY <1>1, <1>2, <1>3 DEF Change

\* A copy is taken of what is stored, or handed on to a worker.
LEMMA CopiesStep ==
  ASSUME TInv, TInv', CopiesStored, \A i \in Ids : Change(i), [Next]_vars
  PROVE  CopiesStored'
<1>1. ASSUME NEW q \in Procs, sess'[q] # None
      PROVE  file'[sess'[q].id] # None \/ archive'[sess'[q].id] # None
  <2>1. sess'[q].id \in Ids BY <1>1 DEF TInv, PrivOK
  <2>2. CASE \E o \in Procs : SessOld(q, o)
    <3>1. Stored(sess'[q].id) BY <2>2 DEF SessOld, CopiesStored
    <3> QED BY <2>1, <3>1, StoredStays DEF Stored
  <2>3. CASE SessFile(q)
    <3>1. Stored(sess'[q].id) BY <2>3 DEF SessFile, Stored
    <3> QED BY <2>1, <3>1, StoredStays DEF Stored
  <2>4. CASE SessNew(q) BY <2>4 DEF SessNew
  <2> QED BY <1>1, <2>2, <2>3, <2>4, SessFrom
<1> QED BY <1>1 DEF CopiesStored, Stored, Id

\* The inductive invariant for the registry.
RInv == TInv /\ CopiesStored /\ Queues

\* It holds initially.
LEMMA InitRInv == Init => RInv
<1> SUFFICES ASSUME Init PROVE RInv OBVIOUS
<1>1. CopiesStored BY DEF Init, CopiesStored
<1>2. Queues
  <2>1. \A i \in Ids : sent[i] = {} /\ acked[i] = {} BY DEF Init
  <2>2. \A i \in Ids : file[i] # None => file[i].pending = {} BY DEF Init
  <2> QED BY <2>1, <2>2 DEF Queues
<1> QED BY <1>1, <1>2, InitTInv DEF RInv

\* A step keeps it, and is a step of the registry or none.
LEMMA RInvStep == ASSUME RInv, [Next]_vars PROVE RInv' /\ [RegistryNext]_rvars
<1> USE DEF RInv
<1>1. TInv' BY TInvStep
<1>2. [RegistryNext]_rvars BY RegistryMoves
<1>3. \A i \in Ids : Change(i) BY <1>2, Changes DEF TInv
<1> QED BY <1>1, <1>2, <1>3, CopiesStep, QueuesStep

\* The turns implement the registry: each step of the processes is one of the
\* atomic operations of session.go on the records, or none.
THEOREM TurnsUseRegistry == Spec => [][RegistryNext]_rvars
<1>1. RInv /\ [Next]_vars => RInv' /\ [RegistryNext]_rvars BY RInvStep
<1> QED BY InitRInv, <1>1, PTL DEF Spec

\* A copy that a process still holds, however old, is of a session that is in
\* the registry or was archived, so the condition under which Revive writes a
\* queue back (session_queue.go:49) excludes none of their saves.
THEOREM SavesAreKnown == Spec => []CopiesStored
<1>1. RInv => CopiesStored BY DEF RInv
<1>2. RInv /\ [Next]_vars => RInv' BY RInvStep
<1> QED BY InitRInv, <1>1, <1>2, PTL DEF Spec

\* Of a session that was never deleted the stored queue is exactly what was
\* accepted and not acknowledged, whatever stale copies the commands write
\* (session_queue.go: "they must neither drop nor resurrect messages").
THEOREM QueuesAreExact == Spec => []QueueExact
<1>1. RInv => QueueExact BY DEF RInv, Queues, QueueExact
<1>2. RInv /\ [Next]_vars => RInv' BY RInvStep
<1> QED BY InitRInv, <1>1, <1>2, PTL DEF Spec

\* A record that leaves the registry, by a delete or as the reservation of a
\* start, is in the archive with the queue it had.
THEOREM RemovedAreArchived == Spec => RemovedIsArchived
<1>1. RInv /\ [Next]_vars =>
        \A i \in Ids : file[i] # None /\ file'[i] = None => archive'[i] = file[i]
  <2> SUFFICES ASSUME RInv, [Next]_vars, NEW i \in Ids, file[i] # None, file'[i] = None
               PROVE  archive'[i] = file[i]
    OBVIOUS
  <2>1. Change(i) BY RInvStep, Changes DEF RInv, TInv
  <2> QED BY <2>1 DEF Change
<1>2. RInv /\ [Next]_vars => RInv' BY RInvStep
<1> QED BY InitRInv, <1>1, <1>2, PTL DEF Spec, RemovedIsArchived
=============================================================================
