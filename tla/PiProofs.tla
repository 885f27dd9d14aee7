------------------------------ MODULE PiProofs ------------------------------
(***************************************************************************)
(* Proofs about the two machines that the Pi extension runs for a session. *)
(*                                                                         *)
(* BackgroundTasks, for any finite set of tasks, any choice of captured    *)
(* ones and any retention limit.  A handler of the runner calls several    *)
(* methods, so what holds of a record is split: Sound holds halfway        *)
(* through a handler too, Told and Over hold when its part of the work is  *)
(* done, Ret when the retention has had its turn.  One lemma per method    *)
(* says what it does to a table that satisfies TableInv, the lemmas of the *)
(* methods that call it cite that, and each action is then one method      *)
(* call.  Tried, which ties an attempt or the watcher to the phase of a    *)
(* running task, is broken inside cancel and conclude and is therefore not *)
(* a part of TableInv; the inductive invariant RunnerIInv adds it for the  *)
(* states between handlers.                                                *)
(*                                                                         *)
(* CompletionDelivery, for any number of follow-ups and any size of a      *)
(* batch.  The inductive invariant DeliveryIInv says of the queue which    *)
(* numbers it holds (Queue), so that a batch and the rest are disjoint,    *)
(* and of the timers that the batch window and the flush poll exclude each *)
(* other (Looks); both hold for a shut-down object because it is empty.    *)
(***************************************************************************)
EXTENDS BackgroundTasks, CompletionDelivery, FiniteSetTheorems,
        SequenceTheorems, TLAPS

-----------------------------------------------------------------------------
(* The runner *)

Table == [Tasks -> Task]

\* What holds of a task at all times, also halfway through a handler.
Sound(x) ==
  /\ x.watch => x.status = "running" /\ x.phase = "unconfirmed"
  /\ x.attempt # "none" =>
       x.phase = "cancelling" /\ x.status \in {"running", "cancelled"}
  /\ x.finishSeq = 0 <=> x.status \in {"none", "running"}
  /\ x.status = "none" =>
       /\ ~ x.leaderGone /\ ~ x.kept /\ x.phase = "live" /\ ~ x.members
       /\ ~ x.outputDone /\ ~ x.drainTimer /\ x.leader # "alive"
  /\ x.leaderGone => x.leader # "alive"
  /\ x.members => x.leader = "dead"
  /\ x.status = "cancelled" => x.leaderGone /\ ~ x.members
  /\ "cancelled" \in x.answers => x.status = "cancelled"
  /\ "already-ended" \in x.answers => x.status \notin {"none", "running"}
  /\ x.notified => x.status = "ended" /\ x.outputDone /\ CaptureDone(x)
  /\ x.deliveryHeld => x.notified

\* A natural end whose output and capture are final has had its follow-up.
Told(x, quiet) ==
  x.status = "ended" /\ x.outputDone /\ CaptureDone(x) /\ ~ quiet => x.notified

\* Of a task that left the map nothing more is to be said.
Over(x, quiet) ==
  ~ quiet /\ x.status # "none" /\ ~ x.kept =>
    (x.status = "cancelled" \/ x.notified) /\ Evictable(x)

\* A running task that was cancelled is in an attempt, or is watched.
Tried(x) ==
  x.status = "running" =>
    /\ x.phase = "cancelling" => x.attempt # "none"
    /\ x.phase = "unconfirmed" => x.watch \/ x.released

\* The tasks beyond the retention limit are the ones that may not go yet.
Ret(T) == \A t \in Excess(T) : ~ Evictable(T[t])

\* The table after the work of a method is done.
TableInv(T, quiet) ==
  /\ T \in Table
  /\ \A t \in Tasks : Sound(T[t]) /\ Told(T[t], quiet) /\ Over(T[t], quiet)
  /\ ~ quiet => Ret(T)

-----------------------------------------------------------------------------
\* The finished tasks that settled after t.
Newer(T, t) == {u \in Finished(T) : T[u].finishSeq > T[t].finishSeq}

\* The sets that the retention counts are finite.
LEMMA FinishedFinite ==
  ASSUME NEW T, NEW S \in SUBSET Finished(T)
  PROVE  IsFiniteSet(S) /\ Cardinality(S) \in Nat
<1>1. S \in SUBSET Tasks BY DEF Finished
<1>2. IsFiniteSet(S) BY <1>1, RunnerAssumption, FS_Subset DEF RunnerAssumption
<1> QED BY <1>2, FS_CardinalityType

\* Tasks are numbered from zero.
LEMMA SeqIsNat ==
  ASSUME NEW T \in Table, NEW t \in Tasks PROVE T[t].finishSeq \in Nat
<1>1. T[t].finishSeq \in 0..Cardinality(Tasks) BY DEF Table, Task
<1>2. Cardinality(Tasks) \in Nat
  BY RunnerAssumption, FS_CardinalityType DEF RunnerAssumption
<1> QED BY <1>1, <1>2

\* A finished task is beyond the retention limit when that many are newer.
LEMMA ExcessByNewer ==
  ASSUME NEW T \in Table, NEW t \in Finished(T)
  PROVE  t \in Excess(T) <=> Cardinality(Newer(T, t)) >= Limit
<1> DEFINE F == Finished(T)
           A == {u \in F : T[u].finishSeq <= T[t].finishSeq}
           B == Newer(T, t)
<1>1. A \in SUBSET F /\ B \in SUBSET F /\ F \in SUBSET F BY DEF Newer
<1>2. /\ IsFiniteSet(A) /\ Cardinality(A) \in Nat
      /\ IsFiniteSet(B) /\ Cardinality(B) \in Nat
      /\ Cardinality(F) \in Nat
  BY <1>1, FinishedFinite
<1>3. \A u \in F : T[u].finishSeq \in Nat BY SeqIsNat DEF Finished
<1>4. A \cap B = {} /\ A \cup B = F
  BY <1>3 DEF Newer
<1>5. Cardinality(A \cup B) = Cardinality(A) + Cardinality(B) - Cardinality(A \cap B)
  BY <1>2, FS_Union
<1>6. Cardinality(F) = Cardinality(A) + Cardinality(B)
  <2>1. Cardinality(A \cap B) = 0 BY <1>4, FS_EmptySet
  <2> HIDE DEF A, B, F
  <2>2. Cardinality(A \cup B) = Cardinality(F) BY Zenon, <1>4
  <2> QED BY <1>2, <1>5, <2>1, <2>2
<1>7. t \in Excess(T) <=> Cardinality(A) <= Cardinality(F) - Limit
  BY DEF Excess
<1>8. Limit \in Nat BY RunnerAssumption DEF RunnerAssumption
<1> HIDE DEF A, B, F
<1>9. t \in Excess(T) <=> Cardinality(B) >= Limit BY <1>2, <1>6, <1>7, <1>8
<1> QED BY <1>9 DEF B

\* Fewer finished tasks, in the same order, have no more beyond the limit.
LEMMA ExcessMonotone ==
  ASSUME NEW T \in Table, NEW R \in Table,
         Finished(R) \subseteq Finished(T),
         \A u \in Tasks : R[u].finishSeq = T[u].finishSeq
  PROVE  Excess(R) \subseteq Excess(T)
<1> SUFFICES ASSUME NEW t \in Excess(R) PROVE t \in Excess(T) OBVIOUS
<1>1. t \in Finished(R) /\ t \in Finished(T) /\ t \in Tasks BY DEF Excess, Finished
<1>2. Cardinality(Newer(R, t)) >= Limit BY <1>1, ExcessByNewer
<1>3. Newer(R, t) \in SUBSET Newer(T, t)
  BY <1>1 DEF Newer, Finished
<1>4. Newer(T, t) \in SUBSET Finished(T) /\ Newer(R, t) \in SUBSET Finished(R)
  BY DEF Newer
<1>5. /\ IsFiniteSet(Newer(T, t)) /\ Cardinality(Newer(T, t)) \in Nat
      /\ Cardinality(Newer(R, t)) \in Nat
  BY <1>4, FinishedFinite
<1>6. Cardinality(Newer(R, t)) <= Cardinality(Newer(T, t))
  BY <1>3, <1>5, FS_Subset
<1>7. Limit \in Nat BY RunnerAssumption DEF RunnerAssumption
<1>8. Cardinality(Newer(T, t)) >= Limit BY <1>2, <1>5, <1>6, <1>7
<1> QED BY <1>1, <1>8, ExcessByNewer

\* Two tables that agree in all that the retention depends on.
LEMMA RetAlike ==
  ASSUME NEW T \in Table, NEW R \in Table, Ret(T),
         Finished(R) \subseteq Finished(T),
         \A u \in Tasks : /\ R[u].finishSeq = T[u].finishSeq
                          /\ u \in Finished(R) /\ Evictable(R[u]) => Evictable(T[u])
  PROVE  Ret(R)
<1>1. Excess(R) \subseteq Excess(T) BY ExcessMonotone
<1>2. Excess(R) \subseteq Finished(R) /\ Finished(R) \subseteq Tasks
  BY DEF Excess, Finished
<1> QED BY <1>1, <1>2 DEF Ret

-----------------------------------------------------------------------------
\* y is x, perhaps without its place in the map.
OrGone(x, y) == y = x \/ (x.kept /\ y = [x EXCEPT !.kept = FALSE])

\* evictFinished drops a task beyond the limit that may go, and nothing else.
LEMMA EvictFrame ==
  ASSUME NEW T \in Table, NEW quiet \in BOOLEAN, NEW u \in Tasks
  PROVE  LET R == EvictFinished(T, quiet) IN
         /\ R \in Table
         /\ R[u] = T[u] \/ /\ ~ quiet /\ u \in Excess(T) /\ Evictable(T[u])
                           /\ R[u] = [T[u] EXCEPT !.kept = FALSE]
         /\ ~ quiet /\ u \in Excess(T) /\ Evictable(T[u]) => ~ R[u].kept
<1> DEFINE R == EvictFinished(T, quiet)
<1>1. \A v \in Tasks : T[v] \in Task BY DEF Table
<1>2. \A v \in Tasks : [T[v] EXCEPT !.kept = FALSE] \in Task
  <2>1. ASSUME NEW x \in Task PROVE [x EXCEPT !.kept = FALSE] \in Task
    BY Zenon DEF Task
  <2> QED BY <1>1, <2>1
<1>3. \A v \in Tasks :
        R[v] = IF ~ quiet /\ v \in Excess(T) /\ Evictable(T[v])
               THEN [T[v] EXCEPT !.kept = FALSE] ELSE T[v]
  BY Zenon DEF EvictFinished
<1>4. \A v \in Tasks : R[v] \in Task
  BY Zenon, <1>1, <1>2, <1>3
<1>5. R = [v \in Tasks |-> R[v]] BY Zenon DEF EvictFinished
<1>6. R \in Table BY Zenon, <1>4, <1>5 DEF Table
<1>7. ~ [T[u] EXCEPT !.kept = FALSE].kept BY Zenon, <1>1 DEF Task
<1> HIDE DEF R
<1>8. /\ R[u] = T[u] \/ /\ ~ quiet /\ u \in Excess(T) /\ Evictable(T[u])
                        /\ R[u] = [T[u] EXCEPT !.kept = FALSE]
      /\ ~ quiet /\ u \in Excess(T) /\ Evictable(T[u]) => ~ R[u].kept
  BY Zenon, <1>3, <1>7
<1> QED BY Zenon, <1>6, <1>8 DEF R

\* Leaving the map changes nothing else about a task.
LEMMA GoneTried ==
  ASSUME NEW x \in Task, NEW y, OrGone(x, y)
  PROVE  /\ Tried(x) => Tried(y)
         /\ y \in Task /\ y.status = x.status
         /\ y.phase = x.phase /\ y.attempt = x.attempt /\ y.answers = x.answers
BY DEF OrGone, Tried, Task

\* A finished task about which nothing is left to say may leave the map.
LEMMA GoneInv ==
  ASSUME NEW x \in Task, NEW quiet \in BOOLEAN, ~ quiet, Sound(x), Told(x, quiet),
         x.status \in {"cancelled", "ended"}, Evictable(x)
  PROVE  LET y == [x EXCEPT !.kept = FALSE] IN
         Sound(y) /\ Told(y, quiet) /\ Over(y, quiet)
BY DEF Sound, Told, Over, Task, Evictable, CaptureDone

\* evictFinished leaves no task beyond the limit that might go.
LEMMA EvictInv ==
  ASSUME NEW T \in Table, NEW quiet \in BOOLEAN,
         \A u \in Tasks : Sound(T[u]) /\ Told(T[u], quiet) /\ Over(T[u], quiet)
  PROVE  LET R == EvictFinished(T, quiet) IN
         TableInv(R, quiet) /\ \A u \in Tasks : OrGone(T[u], R[u])
<1> DEFINE R == EvictFinished(T, quiet)
<1>1. R \in Table /\ \A u \in Tasks :
         /\ R[u] = T[u] \/ /\ ~ quiet /\ u \in Excess(T) /\ Evictable(T[u])
                           /\ R[u] = [T[u] EXCEPT !.kept = FALSE]
         /\ ~ quiet /\ u \in Excess(T) /\ Evictable(T[u]) => ~ R[u].kept
  <2>1. CASE Tasks = {}
    BY <2>1 DEF EvictFinished, Table
  <2>2. CASE Tasks # {}
    <3>1. ASSUME NEW u \in Tasks
          PROVE  /\ R \in Table
                 /\ R[u] = T[u] \/ /\ ~ quiet /\ u \in Excess(T) /\ Evictable(T[u])
                                   /\ R[u] = [T[u] EXCEPT !.kept = FALSE]
                 /\ ~ quiet /\ u \in Excess(T) /\ Evictable(T[u]) => ~ R[u].kept
      BY EvictFrame
    <3> HIDE DEF R
    <3> QED BY Zenon, <2>2, <3>1
  <2> QED BY <2>1, <2>2
<1> HIDE DEF R
<1>2. \A u \in Excess(T) :
        u \in Tasks /\ T[u].status \in {"cancelled", "ended"} /\ T[u].kept
  BY DEF Excess, Finished
<1>3. \A u \in Tasks : OrGone(T[u], R[u]) BY <1>1, <1>2 DEF OrGone
<1>4. \A u \in Tasks : T[u] \in Task BY DEF Table
<1>5. \A u \in Tasks : Sound(R[u]) /\ Told(R[u], quiet) /\ Over(R[u], quiet)
  <2> TAKE u \in Tasks
  <2>1. CASE R[u] = T[u] BY <2>1
  <2>2. CASE R[u] # T[u]
    <3>1. /\ ~ quiet /\ Evictable(T[u]) /\ R[u] = [T[u] EXCEPT !.kept = FALSE]
          /\ T[u].status \in {"cancelled", "ended"} /\ T[u] \in Task
      BY <1>1, <1>2, <1>4, <2>2
    <3> QED BY Zenon, <3>1, GoneInv
  <2> QED BY <2>1, <2>2
<1>6. ASSUME ~ quiet PROVE Ret(R)
  <2>1. \A u \in Tasks : /\ R[u].finishSeq = T[u].finishSeq
                         /\ Evictable(R[u]) <=> Evictable(T[u])
                         /\ R[u].status = T[u].status
                         /\ R[u].kept => T[u].kept
    <3> TAKE u \in Tasks
    <3>1. OrGone(T[u], R[u]) /\ T[u] \in Task BY <1>3, <1>4
    <3> QED BY <3>1 DEF OrGone, Task, Evictable, CaptureDone
  <2>2. Finished(R) \subseteq Finished(T) BY <2>1 DEF Finished
  <2>3. Excess(R) \subseteq Excess(T) BY <1>1, <2>1, <2>2, ExcessMonotone
  <2>4. \A u \in Excess(R) : u \in Tasks /\ R[u].kept BY DEF Excess, Finished
  <2> QED BY <1>1, <1>6, <2>1, <2>3, <2>4 DEF Ret
<1> QED BY <1>1, <1>3, <1>5, <1>6 DEF TableInv, R

\* One task of the table is replaced.
LEMMA Put ==
  ASSUME NEW T \in Table, NEW t \in Tasks, NEW x \in Task
  PROVE  LET R == [T EXCEPT ![t] = x] IN
         /\ R \in Table /\ R[t] = x
         /\ \A u \in Tasks \ {t} : R[u] = T[u]
BY DEF Table

\* A change that the retention does not see.
LEMMA PutInv ==
  ASSUME NEW T, NEW quiet \in BOOLEAN, TableInv(T, quiet),
         NEW t \in Tasks, NEW x \in Task,
         Sound(x), Told(x, quiet), Over(x, quiet),
         x.finishSeq = T[t].finishSeq,
         x.kept /\ x.status \in {"cancelled", "ended"} =>
           /\ T[t].kept /\ T[t].status \in {"cancelled", "ended"}
           /\ Evictable(x) => Evictable(T[t])
  PROVE  TableInv([T EXCEPT ![t] = x], quiet)
<1> DEFINE R == [T EXCEPT ![t] = x]
<1>0. T \in Table BY DEF TableInv
<1>1. R \in Table /\ R[t] = x /\ \A u \in Tasks \ {t} : R[u] = T[u] BY <1>0, Put
<1> HIDE DEF R
<1>2. \A u \in Tasks : Sound(R[u]) /\ Told(R[u], quiet) /\ Over(R[u], quiet)
  BY <1>1 DEF TableInv
<1>3. Finished(R) \subseteq Finished(T) BY <1>1 DEF Finished
<1>4. \A u \in Tasks : /\ R[u].finishSeq = T[u].finishSeq
                       /\ u \in Finished(R) /\ Evictable(R[u]) => Evictable(T[u])
  BY <1>1 DEF Finished
<1>5. ASSUME ~ quiet PROVE Ret(R)
  <2>1. Ret(T) BY <1>5 DEF TableInv
  <2> QED BY <1>0, <1>1, <1>3, <1>4, <2>1, RetAlike
<1> QED BY <1>1, <1>2, <1>5 DEF TableInv, R

\* What the listener of "finished" may change.
OnlyNotified(x, y) ==
  y = [x EXCEPT !.notified = y.notified, !.deliveryHeld = y.deliveryHeld]

\* The listener of "finished" restores what was told of t.
LEMMA NotifyInv ==
  ASSUME NEW T \in Table, NEW t \in Tasks, NEW quiet \in BOOLEAN,
         Sound(T[t]), Over(T[t], quiet)
  PROVE  LET R == NotifyFinished(T, t, quiet) IN
         /\ R \in Table /\ \A u \in Tasks \ {t} : R[u] = T[u]
         /\ Sound(R[t]) /\ Told(R[t], quiet) /\ Over(R[t], quiet)
         /\ OnlyNotified(T[t], R[t])
<1> DEFINE x == T[t]
           y == [x EXCEPT !.notified = TRUE, !.deliveryHeld = TRUE]
           R == NotifyFinished(T, t, quiet)
<1>0. x \in Task BY DEF Table
<1>1. CASE \/ x.notified \/ ~ x.outputDone \/ ~ CaptureDone(x) \/ quiet
           \/ x.status # "ended"
  <2>1. R = T BY Zenon, <1>1 DEF NotifyFinished
  <2>2. Told(x, quiet) BY <1>1 DEF Told
  <2>3. OnlyNotified(x, x) BY <1>0 DEF Task, OnlyNotified
  <2> QED BY Zenon, <2>1, <2>2, <2>3
<1>2. CASE ~ (\/ x.notified \/ ~ x.outputDone \/ ~ CaptureDone(x) \/ quiet
              \/ x.status # "ended")
  <2>1. R = [T EXCEPT ![t].notified = TRUE, ![t].deliveryHeld = TRUE]
    BY Zenon, <1>2 DEF NotifyFinished
  <2>2. y \in Task BY <1>0 DEF Task
  <2>3. R = [T EXCEPT ![t] = y] BY <2>1 DEF Table, Task
  <2>4. R \in Table /\ R[t] = y /\ \A u \in Tasks \ {t} : R[u] = T[u]
    <3> HIDE DEF y
    <3>1. LET Q == [T EXCEPT ![t] = y] IN
          Q \in Table /\ Q[t] = y /\ \A u \in Tasks \ {t} : Q[u] = T[u]
      BY <2>2, Put
    <3> QED BY Zenon, <2>3, <3>1
  <2>5. Sound(y) /\ Told(y, quiet) /\ Over(y, quiet)
    BY <1>0, <1>2 DEF Sound, Told, Over, Task, CaptureDone, Evictable
  <2>6. y.notified /\ y.deliveryHeld BY <1>0 DEF Task
  <2>7. OnlyNotified(x, y) BY <1>0 DEF Task, OnlyNotified
  <2> QED BY Zenon, <2>4, <2>5, <2>7
<1> QED BY Zenon, <1>1, <1>2

\* What settling leaves of a task.
Settled(x, y, status) ==
  /\ y.status = status /\ ~ y.watch
  /\ y.phase = x.phase /\ y.attempt = x.attempt /\ y.answers = x.answers
  /\ y.outputDone = x.outputDone /\ y.awaited = x.awaited

\* The number of the next task to settle.
LEMMA NextSeq ==
  ASSUME NEW T \in Table, NEW t \in Tasks, T[t].finishSeq = 0
  PROVE  LET seq == Cardinality({u \in Tasks : T[u].finishSeq > 0}) + 1 IN
         seq \in 0..Cardinality(Tasks) /\ seq # 0
<1> DEFINE S == {u \in Tasks : T[u].finishSeq > 0}
<1>1. S \in SUBSET Tasks /\ S \in SUBSET (Tasks \ {t}) BY SeqIsNat
<1>2. IsFiniteSet(Tasks) BY RunnerAssumption DEF RunnerAssumption
<1>3. /\ IsFiniteSet(Tasks \ {t})
      /\ Cardinality(Tasks \ {t}) = Cardinality(Tasks) - 1
  BY <1>2, FS_RemoveElement
<1>4. Cardinality(S) <= Cardinality(Tasks \ {t}) /\ IsFiniteSet(S)
  BY <1>1, <1>3, FS_Subset
<1>5. Cardinality(S) \in Nat /\ Cardinality(Tasks) \in Nat
  BY <1>2, <1>4, FS_CardinalityType
<1> HIDE DEF S
<1>6. Cardinality(S) + 1 \in 0..Cardinality(Tasks) /\ Cardinality(S) + 1 # 0
  BY <1>3, <1>4, <1>5
<1> QED BY <1>6 DEF S

\* settle, with the listener and the retention it calls, settles one task.
LEMMA SettleInv ==
  ASSUME NEW T, NEW quiet \in BOOLEAN, TableInv(T, quiet), NEW t \in Tasks,
         NEW status \in {"cancelled", "ended"}, T[t].status = "running",
         T[t].attempt # "none" => status = "cancelled",
         status = "cancelled" => T[t].leaderGone /\ ~ T[t].members
  PROVE  LET R == SettleTask(T, t, status, quiet) IN
         /\ TableInv(R, quiet) /\ Settled(T[t], R[t], status)
         /\ \A u \in Tasks \ {t} : OrGone(T[u], R[u])
<1> DEFINE x == T[t]
           seq == Cardinality({u \in Tasks : T[u].finishSeq > 0}) + 1
           y == [x EXCEPT !.status = status, !.finishSeq = seq, !.watch = FALSE]
           U == [T EXCEPT ![t] = y]
           Nt == NotifyFinished(U, t, quiet)
           R == EvictFinished(Nt, quiet)
<1>1. /\ T \in Table
      /\ \A u \in Tasks : Sound(T[u]) /\ Told(T[u], quiet) /\ Over(T[u], quiet)
  BY DEF TableInv
<1>2. x \in Task /\ Sound(x) /\ Over(x, quiet) BY <1>1 DEF Table
<1>3. seq \in 0..Cardinality(Tasks) /\ seq # 0
  <2>1. x.finishSeq = 0 BY <1>2 DEF Sound
  <2> QED BY <1>1, <2>1, NextSeq
<1>4. SettleTask(T, t, status, quiet) = R BY DEF SettleTask
<1> HIDE DEF seq
<1>5. y \in Task BY <1>2, <1>3 DEF Task
<1>6. Sound(y) /\ Over(y, quiet)
  BY <1>2, <1>3 DEF Sound, Over, Task, CaptureDone, Evictable
<1>7. Settled(x, y, status) BY <1>2 DEF Settled, Task
<1> HIDE DEF y
<1>8. U \in Table /\ U[t] = y /\ \A u \in Tasks \ {t} : U[u] = T[u]
  BY <1>1, <1>5, Put
<1> HIDE DEF U
<1>9. /\ Nt \in Table /\ \A u \in Tasks \ {t} : Nt[u] = U[u]
      /\ Sound(Nt[t]) /\ Told(Nt[t], quiet) /\ Over(Nt[t], quiet)
      /\ OnlyNotified(U[t], Nt[t])
  BY <1>6, <1>8, NotifyInv
<1> HIDE DEF Nt
<1>10. \A u \in Tasks : Sound(Nt[u]) /\ Told(Nt[u], quiet) /\ Over(Nt[u], quiet)
  BY <1>1, <1>8, <1>9
<1>11. TableInv(R, quiet) /\ \A u \in Tasks : OrGone(Nt[u], R[u])
  BY <1>9, <1>10, EvictInv
<1> HIDE DEF R
<1>12. Nt[t] \in Task BY <1>9 DEF Table
<1>13. Settled(x, Nt[t], status)
  <2>1. OnlyNotified(y, Nt[t]) BY <1>8, <1>9
  <2> QED BY <1>5, <1>7, <2>1 DEF Settled, Task, OnlyNotified
<1>14. Settled(x, R[t], status)
  <2>1. OrGone(Nt[t], R[t]) BY <1>11
  <2> QED BY <1>12, <1>13, <2>1 DEF Settled, OrGone, Task
<1>15. \A u \in Tasks \ {t} : OrGone(T[u], R[u]) BY <1>8, <1>9, <1>11
<1> QED BY <1>4, <1>11, <1>14, <1>15

\* checkTermination settles an ended group, as what the phase says.
LEMMA CheckInv ==
  ASSUME NEW T, NEW quiet \in BOOLEAN, TableInv(T, quiet), NEW t \in Tasks
  PROVE  LET R == CheckTermination(T, t, quiet) IN
         /\ TableInv(R, quiet)
         /\ \A u \in Tasks \ {t} : OrGone(T[u], R[u])
         /\ \/ R = T
            \/ /\ T[t].status = "running" /\ T[t].phase # "live"
               /\ Settled(T[t], R[t], IF T[t].phase = "cancelling"
                                      THEN "cancelled" ELSE "ended")
<1> DEFINE x == T[t]
           status == IF x.phase = "cancelling" THEN "cancelled" ELSE "ended"
           R == CheckTermination(T, t, quiet)
<1>1. Sound(x) BY DEF TableInv
<1>2. CASE \/ x.status # "running" \/ ~ x.leaderGone \/ x.phase = "live" \/ x.members
  <2>1. R = T BY Zenon, <1>2 DEF CheckTermination
  <2> QED BY <2>1 DEF OrGone
<1>3. CASE ~ (\/ x.status # "running" \/ ~ x.leaderGone \/ x.phase = "live"
              \/ x.members)
  <2>1. R = SettleTask(T, t, status, quiet) BY Zenon, <1>3 DEF CheckTermination
  <2>2. x.attempt # "none" => status = "cancelled" BY <1>1 DEF Sound
  <2>3. status \in {"cancelled", "ended"} OBVIOUS
  <2> HIDE DEF status, R
  <2>4. /\ TableInv(R, quiet) /\ Settled(x, R[t], status)
        /\ \A u \in Tasks \ {t} : OrGone(T[u], R[u])
    BY <1>3, <2>1, <2>2, <2>3, SettleInv
  <2> QED BY <1>3, <2>4 DEF status, R
<1> QED BY <1>2, <1>3

\* The record of a task whose leader is gone.
LeaderLess(x) == [x EXCEPT !.leaderGone = TRUE]

\* The event "exit" may be noted of any task that has no living leader.
LEMMA LeaderLessInv ==
  ASSUME NEW T, NEW quiet \in BOOLEAN, TableInv(T, quiet), NEW t \in Tasks,
         T[t].leader # "alive", T[t].status # "none"
  PROVE  TableInv([T EXCEPT ![t] = LeaderLess(T[t])], quiet)
<1> DEFINE x == T[t]
           y == LeaderLess(x)
<1>1. /\ T \in Table /\ x \in Task /\ Sound(x) /\ Told(x, quiet) /\ Over(x, quiet)
  BY DEF TableInv, Table
<1>2. y \in Task BY <1>1 DEF Task, LeaderLess
<1>3. /\ Sound(y) /\ Told(y, quiet) /\ Over(y, quiet)
      /\ y.finishSeq = x.finishSeq /\ y.kept = x.kept /\ y.status = x.status
      /\ Evictable(y) => Evictable(x)
  BY <1>1 DEF Task, LeaderLess, Sound, Told, Over, CaptureDone, Evictable
<1> HIDE DEF y
<1>4. TableInv([T EXCEPT ![t] = y], quiet) BY <1>1, <1>2, <1>3, PutInv
<1> QED BY <1>4 DEF y

\* Arming or clearing the drain timer is nothing to the invariant.
LEMMA DrainInv ==
  ASSUME NEW T, NEW quiet \in BOOLEAN, TableInv(T, quiet), NEW t \in Tasks,
         NEW b \in BOOLEAN, T[t].status # "none"
  PROVE  LET y == [T[t] EXCEPT !.drainTimer = b] IN
         /\ TableInv([T EXCEPT ![t] = y], quiet)
         /\ Tried(T[t]) => Tried(y)
<1> DEFINE x == T[t]
           y == [x EXCEPT !.drainTimer = b]
<1>1. /\ T \in Table /\ x \in Task /\ Sound(x) /\ Told(x, quiet) /\ Over(x, quiet)
  BY DEF TableInv, Table
<1>2. y \in Task BY <1>1 DEF Task
<1>3. /\ Sound(y) /\ Told(y, quiet) /\ Over(y, quiet)
      /\ y.finishSeq = x.finishSeq /\ y.kept = x.kept /\ y.status = x.status
      /\ Evictable(y) => Evictable(x)
      /\ Tried(x) => Tried(y)
  BY <1>1 DEF Task, Sound, Told, Over, CaptureDone, Evictable, Tried
<1> HIDE DEF y
<1>4. TableInv([T EXCEPT ![t] = y], quiet) BY <1>1, <1>2, <1>3, PutInv
<1> QED BY <1>3, <1>4 DEF y

\* leaderGone settles a live task and asks checkTermination otherwise.
LEMMA LeaderGoneInv ==
  ASSUME NEW T, NEW quiet \in BOOLEAN, TableInv(T, quiet), NEW t \in Tasks,
         T[t].leader # "alive", T[t].status # "none", \A u \in Tasks : Tried(T[u])
  PROVE  LET R == LeaderGone(T, t, quiet) IN
         /\ TableInv(R, quiet) /\ \A u \in Tasks : Tried(R[u])
         /\ \A u \in Tasks : R[u].status # "none" <=> T[u].status # "none"
<1> DEFINE x == T[t]
           U == [T EXCEPT ![t] = LeaderLess(x)]
           V == IF x.phase = "live" THEN SettleTask(U, t, "ended", quiet)
                ELSE CheckTermination(U, t, quiet)
           b == V[t].drainTimer \/ ~ V[t].outputDone
           R == LeaderGone(T, t, quiet)
<1>1. CASE x.leaderGone \/ x.released
  <2>1. R = T BY Zenon, <1>1 DEF LeaderGone
  <2> QED BY <2>1
<1>2. CASE ~ (x.leaderGone \/ x.released)
  <2>0. T \in Table /\ x \in Task /\ Sound(x) /\ LeaderLess(x) \in Task
    <3>1. T \in Table /\ x \in Task /\ Sound(x) BY DEF TableInv, Table
    <3> QED BY <3>1 DEF Task, LeaderLess
  <2>1. TableInv(U, quiet) BY LeaderLessInv
  <2>2. U[t] = LeaderLess(x) /\ \A u \in Tasks \ {t} : U[u] = T[u]
    BY <2>0 DEF Table
  <2>3. /\ U[t].status = x.status /\ U[t].phase = x.phase /\ U[t].attempt = x.attempt
        /\ U[t].watch = x.watch /\ U[t].released = x.released
    BY <2>0, <2>2 DEF LeaderLess, Task
  <2>4. U = [T EXCEPT ![t].leaderGone = TRUE] BY <2>0 DEF Table, LeaderLess
  <2>5. R = [V EXCEPT ![t].drainTimer = b]
    BY <1>2, <2>3, <2>4 DEF LeaderGone
  <2> HIDE DEF U, R
  <2>6. \A u \in Tasks : Tried(U[u]) BY <2>2, <2>3 DEF Tried
  <2>7. /\ TableInv(V, quiet)
        /\ \A u \in Tasks \ {t} : OrGone(U[u], V[u])
        /\ \/ V[t] = U[t]
           \/ V[t].status \in {"cancelled", "ended"} /\ U[t].status = "running"
    <3>1. CASE x.phase = "live" /\ x.status = "running"
      <4>1. x.attempt = "none" BY <2>0, <3>1 DEF Sound
      <4>2. V = SettleTask(U, t, "ended", quiet) BY <3>1
      <4> HIDE DEF V
      <4>3. /\ TableInv(V, quiet) /\ Settled(U[t], V[t], "ended")
            /\ \A u \in Tasks \ {t} : OrGone(U[u], V[u])
        BY <2>1, <2>3, <3>1, <4>1, <4>2, SettleInv
      <4> QED BY <2>3, <3>1, <4>3 DEF Settled
    <3>2. CASE x.phase = "live" /\ x.status # "running"
      <4>1. V = U BY <2>3, <3>2 DEF SettleTask
      <4> QED BY <2>1, <4>1 DEF OrGone
    <3>3. CASE x.phase # "live"
      <4>1. V = CheckTermination(U, t, quiet) BY <3>3
      <4> HIDE DEF V
      <4> QED BY <2>1, <4>1, CheckInv DEF Settled
    <3> QED BY <3>1, <3>2, <3>3
  <2> HIDE DEF V
  <2>8. V \in Table /\ \A u \in Tasks : V[u] \in Task BY <2>7 DEF TableInv, Table
  <2>9. \A u \in Tasks : U[u] \in Task BY <2>1 DEF TableInv, Table
  <2>10. \A u \in Tasks : /\ Tried(V[u])
                          /\ V[u].status # "none" <=> T[u].status # "none"
    <3> TAKE u \in Tasks
    <3>1. CASE u # t
      <4>1. OrGone(U[u], V[u]) /\ U[u] \in Task /\ Tried(U[u]) /\ U[u] = T[u]
        BY <2>2, <2>6, <2>7, <2>9, <3>1
      <4> QED BY <4>1, GoneTried
    <3>2. CASE u = t
      BY <2>3, <2>6, <2>7, <3>2 DEF Tried
    <3> QED BY <3>1, <3>2
  <2>11. b \in BOOLEAN OBVIOUS
  <2> HIDE DEF b
  <2> DEFINE y == [V[t] EXCEPT !.drainTimer = b]
  <2>12. R = [V EXCEPT ![t] = y] BY <2>5, <2>8 DEF Table
  <2>13. /\ TableInv([V EXCEPT ![t] = y], quiet)
         /\ Tried(V[t]) => Tried(y)
    <3>1. V[t].status # "none" BY <2>3, <2>7
    <3> QED BY <2>7, <2>11, <3>1, DrainInv
  <2>14. y.status = V[t].status /\ y \in Task BY <2>8, <2>11 DEF Task
  <2> HIDE DEF y
  <2>15. R[t] = y /\ \A u \in Tasks \ {t} : R[u] = V[u]
    BY <2>8, <2>12 DEF Table
  <2>16. TableInv(R, quiet) BY <2>12, <2>13
  <2>17. \A u \in Tasks : Tried(R[u]) /\ (R[u].status # "none" <=> T[u].status # "none")
    BY <2>10, <2>13, <2>14, <2>15
  <2> QED BY <2>16, <2>17 DEF R
<1> QED BY <1>1, <1>2

\* Every running task is being tried or watched.
AllTried(T) == \A u \in Tasks : Tried(T[u])

\* A method that settles one task and evicts others leaves them so.
LEMMA OthersTried ==
  ASSUME NEW T \in Table, NEW R, NEW t \in Tasks,
         \A u \in Tasks \ {t} : OrGone(T[u], R[u]) /\ Tried(T[u]),
         Tried(R[t])
  PROVE  AllTried(R)
<1> SUFFICES ASSUME NEW u \in Tasks PROVE Tried(R[u]) BY DEF AllTried
<1>1. CASE u # t
  <2>1. T[u] \in Task /\ OrGone(T[u], R[u]) /\ Tried(T[u]) BY <1>1 DEF Table
  <2> QED BY <2>1, GoneTried
<1> QED BY <1>1

\* The last event of a task: one record changes, then the listener and the
\* retention have their turn.
LEMMA FinishInv ==
  ASSUME NEW T, NEW quiet \in BOOLEAN, TableInv(T, quiet), AllTried(T),
         NEW t \in Tasks, NEW y \in Task, Sound(y), Over(y, quiet), Tried(y)
  PROVE  LET R == EvictFinished(NotifyFinished([T EXCEPT ![t] = y], t, quiet), quiet)
         IN TableInv(R, quiet) /\ AllTried(R)
<1> DEFINE U == [T EXCEPT ![t] = y]
           Nt == NotifyFinished(U, t, quiet)
           R == EvictFinished(Nt, quiet)
<1>1. /\ T \in Table
      /\ \A u \in Tasks : Sound(T[u]) /\ Told(T[u], quiet) /\ Over(T[u], quiet)
  BY DEF TableInv
<1>2. U \in Table /\ U[t] = y /\ \A u \in Tasks \ {t} : U[u] = T[u]
  BY <1>1, Put
<1> HIDE DEF U
<1>3. /\ Nt \in Table /\ \A u \in Tasks \ {t} : Nt[u] = U[u]
      /\ Sound(Nt[t]) /\ Told(Nt[t], quiet) /\ Over(Nt[t], quiet)
      /\ OnlyNotified(U[t], Nt[t])
  <2>1. U \in Table /\ Sound(U[t]) /\ Over(U[t], quiet) BY <1>2
  <2> QED BY <1>2, <2>1, NotifyInv
<1> HIDE DEF Nt
<1>4. \A u \in Tasks : Sound(Nt[u]) /\ Told(Nt[u], quiet) /\ Over(Nt[u], quiet)
  BY <1>1, <1>2, <1>3
<1>5. TableInv(R, quiet) /\ \A u \in Tasks : OrGone(Nt[u], R[u])
  BY <1>3, <1>4, EvictInv
<1> HIDE DEF R
<1>6. Tried(Nt[t]) BY <1>2, <1>3 DEF Tried, Task, OnlyNotified
<1>7. \A u \in Tasks : Tried(Nt[u]) BY <1>2, <1>3, <1>6 DEF AllTried
<1>8. Nt[t] \in Task BY <1>3 DEF Table
<1>9. Tried(R[t]) BY <1>5, <1>6, <1>8, GoneTried
<1>10. AllTried(R) BY <1>3, <1>5, <1>7, <1>9, OthersTried
<1> QED BY <1>5, <1>10 DEF R, Nt, U

\* finishOutput marks the output final and tells the listener.
LEMMA FinishOutputInv ==
  ASSUME NEW T, NEW quiet \in BOOLEAN, TableInv(T, quiet), AllTried(T),
         NEW t \in Tasks, T[t].status # "none"
  PROVE  LET R == FinishOutput(T, t, quiet) IN
         TableInv(R, quiet) /\ AllTried(R)
<1> DEFINE x == T[t]
           y == [x EXCEPT !.outputDone = TRUE, !.drainTimer = FALSE]
<1>1. /\ T \in Table /\ x \in Task /\ Sound(x) /\ Over(x, quiet) /\ Tried(x)
  BY DEF TableInv, Table, AllTried
<1>2. CASE x.outputDone
  BY <1>2 DEF FinishOutput
<1>3. CASE ~ x.outputDone
  <2>1. y \in Task BY <1>1 DEF Task
  <2>2. Sound(y) /\ Over(y, quiet) /\ Tried(y)
    BY <1>1, <1>3 DEF Sound, Over, Tried, Task, Evictable, CaptureDone
  <2>3. [T EXCEPT ![t].outputDone = TRUE, ![t].drainTimer = FALSE]
          = [T EXCEPT ![t] = y]
    BY <1>1 DEF Table, Task
  <2>4. FinishOutput(T, t, quiet) =
          EvictFinished(NotifyFinished([T EXCEPT ![t] = y], t, quiet), quiet)
    BY <1>3, <2>3 DEF FinishOutput
  <2> HIDE DEF y
  <2> QED BY <2>1, <2>2, <2>4, FinishInv
<1> QED BY <1>2, <1>3

\* What a caller of cancel is told is true.
LEMMA AnswerInv ==
  ASSUME NEW T, NEW quiet \in BOOLEAN, TableInv(T, quiet), NEW t \in Tasks,
         NEW a \in {"cancelled", "already-ended"},
         a = "cancelled" => T[t].status = "cancelled",
         T[t].status \in {"cancelled", "ended"},
         \A u \in Tasks \ {t} : Tried(T[u])
  PROVE  LET R == Answer(T, t, a) IN TableInv(R, quiet) /\ AllTried(R)
<1> DEFINE x == T[t]
           y == [x EXCEPT !.answers = @ \cup {a}]
           R == Answer(T, t, a)
<1>1. /\ T \in Table /\ x \in Task /\ Sound(x) /\ Told(x, quiet) /\ Over(x, quiet)
  BY DEF TableInv, Table
<1>2. y \in Task BY <1>1 DEF Task
<1>3. /\ Sound(y) /\ Told(y, quiet) /\ Over(y, quiet)
      /\ y.finishSeq = x.finishSeq /\ y.kept = x.kept /\ y.status = x.status
      /\ Evictable(y) => Evictable(x)
  BY <1>1 DEF Task, Sound, Told, Over, CaptureDone, Evictable
<1>4. R = [T EXCEPT ![t] = y] BY <1>1 DEF Answer, Table
<1> HIDE DEF y, R
<1>5. TableInv(R, quiet) BY <1>1, <1>2, <1>3, <1>4, PutInv
<1>6. R[t] = y /\ \A u \in Tasks \ {t} : R[u] = T[u] BY <1>1, <1>2, <1>4, Put
<1>7. AllTried(R) BY <1>3, <1>6 DEF AllTried, Tried
<1> QED BY <1>5, <1>7 DEF R

\* cancel answers for a task that has ended, joins an attempt or starts one.
LEMMA CancelInv ==
  ASSUME NEW T, NEW quiet \in BOOLEAN, TableInv(T, quiet), AllTried(T),
         NEW t \in Tasks, T[t].status # "none"
  PROVE  LET R == CancelTask(T, t, quiet) IN TableInv(R, quiet) /\ AllTried(R)
<1> DEFINE x == T[t]
           U == CheckTermination(T, t, quiet)
           y == [x EXCEPT !.watch = FALSE, !.phase = "cancelling", !.attempt = "term"]
           R == CancelTask(T, t, quiet)
<1>1. /\ T \in Table /\ x \in Task /\ Sound(x) /\ Told(x, quiet) /\ Over(x, quiet)
  BY DEF TableInv, Table
<1>2. CASE x.status # "running"
  <2>1. R = Answer(T, t, "already-ended") BY <1>2 DEF CancelTask
  <2>2. x.status \in {"cancelled", "ended"} BY <1>1, <1>2 DEF Task
  <2> QED BY <2>1, <2>2, AnswerInv DEF AllTried
<1>3. CASE x.status = "running" /\ x.attempt # "none"
  BY <1>3 DEF CancelTask
<1>4. CASE x.status = "running" /\ x.attempt = "none"
  <2>1. /\ TableInv(U, quiet)
        /\ \A u \in Tasks \ {t} : OrGone(T[u], U[u])
        /\ \/ U = T
           \/ U[t].status \in {"cancelled", "ended"}
    BY CheckInv DEF Settled
  <2>2. R = IF U[t].status # "running" THEN Answer(U, t, "already-ended")
            ELSE [U EXCEPT ![t] = [@ EXCEPT !.watch = FALSE, !.phase = "cancelling",
                                            !.attempt = "term"]]
    BY <1>4 DEF CancelTask
  <2> HIDE DEF U
  <2>3. CASE U[t].status # "running"
    <3>1. U[t].status \in {"cancelled", "ended"} BY <1>4, <2>1, <2>3
    <3>2. \A u \in Tasks \ {t} : Tried(U[u])
      <4> TAKE u \in Tasks \ {t}
      <4>1. T[u] \in Task /\ OrGone(T[u], U[u]) /\ Tried(T[u])
        BY <1>1, <2>1 DEF Table, AllTried
      <4> QED BY <4>1, GoneTried
    <3>3. R = Answer(U, t, "already-ended") BY <2>2, <2>3
    <3> HIDE DEF R
    <3> QED BY <2>1, <3>1, <3>2, <3>3, AnswerInv DEF R
  <2>4. CASE U[t].status = "running"
    <3>1. U = T BY <2>1, <2>4
    <3>2. R = [T EXCEPT ![t] = y] BY <1>1, <2>2, <2>4, <3>1 DEF Table
    <3>3. y \in Task BY <1>1 DEF Task
    <3>4. /\ Sound(y) /\ Told(y, quiet) /\ Over(y, quiet) /\ Tried(y)
          /\ y.finishSeq = x.finishSeq /\ y.status = "running"
      BY <1>1, <1>4 DEF Task, Sound, Told, Over, CaptureDone, Evictable, Tried
    <3> HIDE DEF y, R
    <3>5. TableInv(R, quiet) BY <3>2, <3>3, <3>4, PutInv
    <3>6. R[t] = y /\ \A u \in Tasks \ {t} : R[u] = T[u] BY <1>1, <3>2, <3>3, Put
    <3>7. AllTried(R) BY <3>4, <3>6 DEF AllTried
    <3> QED BY <3>5, <3>7 DEF R
  <2> QED BY <2>3, <2>4
<1> QED BY <1>2, <1>3, <1>4

\* concludeAttempt tells its callers "cancelled" or watches the task again.
LEMMA ConcludeInv ==
  ASSUME NEW T, NEW quiet \in BOOLEAN, TableInv(T, quiet), AllTried(T),
         NEW t \in Tasks, T[t].attempt # "none"
  PROVE  LET R == ConcludeAttempt(T, t, quiet) IN TableInv(R, quiet) /\ AllTried(R)
<1> DEFINE x == T[t]
           y == [x EXCEPT !.attempt = "none", !.awaited = FALSE]
           U0 == [T EXCEPT ![t] = y]
           U == CheckTermination(U0, t, quiet)
           R == ConcludeAttempt(T, t, quiet)
<1>1. /\ T \in Table /\ x \in Task /\ Sound(x) /\ Told(x, quiet) /\ Over(x, quiet)
  BY DEF TableInv, Table
<1>2. y \in Task BY <1>1 DEF Task
<1>3. /\ Sound(y) /\ Told(y, quiet) /\ Over(y, quiet)
      /\ y.finishSeq = x.finishSeq /\ y.kept = x.kept /\ y.status = x.status
      /\ Evictable(y) => Evictable(x)
      /\ y.phase = "cancelling" /\ y.attempt = "none"
      /\ y.status \in {"running", "cancelled"}
  BY <1>1 DEF Task, Sound, Told, Over, CaptureDone, Evictable
<1>4. R = IF U[t].status # "running" THEN Answer(U, t, "cancelled")
          ELSE [U EXCEPT ![t].phase = "unconfirmed", ![t].watch = TRUE]
  <2>1. U0 = [T EXCEPT ![t].attempt = "none", ![t].awaited = FALSE]
    BY <1>1 DEF Table, Task
  <2>2. U = CheckTermination([T EXCEPT ![t].attempt = "none", ![t].awaited = FALSE],
                             t, quiet)
    BY <2>1
  <2> HIDE DEF U
  <2> QED BY <2>2 DEF ConcludeAttempt
<1> HIDE DEF y
<1>5. TableInv(U0, quiet) BY <1>1, <1>2, <1>3, PutInv
<1>6. U0 \in Table /\ U0[t] = y /\ \A u \in Tasks \ {t} : U0[u] = T[u]
  BY <1>1, <1>2, Put
<1> HIDE DEF U0
<1>7. /\ TableInv(U, quiet)
      /\ \A u \in Tasks \ {t} : OrGone(U0[u], U[u])
      /\ U = U0 \/ U[t].status = "cancelled"
  BY <1>3, <1>5, <1>6, CheckInv DEF Settled
<1> HIDE DEF U
<1>8. \A u \in Tasks \ {t} : Tried(U[u])
  <2> TAKE u \in Tasks \ {t}
  <2>1. U0[u] \in Task /\ OrGone(U0[u], U[u]) /\ Tried(U0[u])
    BY <1>6, <1>7 DEF Table, AllTried
  <2> QED BY <2>1, GoneTried
<1>9. CASE U[t].status # "running"
  <2>1. U[t].status = "cancelled" BY <1>3, <1>6, <1>7, <1>9
  <2>2. R = Answer(U, t, "cancelled") BY <1>4, <1>9
  <2> HIDE DEF R
  <2> QED BY <1>7, <1>8, <2>1, <2>2, AnswerInv DEF R
<1>10. CASE U[t].status = "running"
  <2>1. U = U0 BY <1>7, <1>10
  <2> DEFINE z == [y EXCEPT !.phase = "unconfirmed", !.watch = TRUE]
  <2>2. R = [U0 EXCEPT ![t] = z]
    BY <1>2, <1>4, <1>6, <1>10, <2>1 DEF Table, Task
  <2>3. z \in Task BY <1>2 DEF Task
  <2>4. y.status = "running" BY <1>6, <1>10, <2>1
  <2>5. /\ Sound(z) /\ Told(z, quiet) /\ Over(z, quiet) /\ Tried(z)
        /\ z.finishSeq = U0[t].finishSeq /\ z.status = "running"
    BY <1>2, <1>3, <1>6, <2>4 DEF Task, Sound, Told, Over, CaptureDone, Evictable, Tried
  <2> HIDE DEF z, R
  <2>6. TableInv(R, quiet) BY <1>5, <2>2, <2>3, <2>5, PutInv
  <2>7. R[t] = z /\ \A u \in Tasks \ {t} : R[u] = U0[u] BY <1>6, <2>2, <2>3, Put
  <2>8. AllTried(R) BY <1>8, <2>1, <2>5, <2>7 DEF AllTried
  <2> QED BY <2>6, <2>8 DEF R
<1> QED BY <1>9, <1>10

\* checkTermination leaves every task tried or watched.
LEMMA CheckTried ==
  ASSUME NEW T, NEW quiet \in BOOLEAN, TableInv(T, quiet), AllTried(T), NEW t \in Tasks
  PROVE  LET R == CheckTermination(T, t, quiet) IN TableInv(R, quiet) /\ AllTried(R)
<1> DEFINE R == CheckTermination(T, t, quiet)
<1>1. /\ TableInv(R, quiet)
      /\ \A u \in Tasks \ {t} : OrGone(T[u], R[u])
      /\ R = T \/ R[t].status \in {"cancelled", "ended"}
  BY CheckInv DEF Settled
<1>2. T \in Table BY DEF TableInv
<1> HIDE DEF R
<1>3. CASE R = T BY <1>1, <1>3 DEF R
<1>4. CASE R[t].status \in {"cancelled", "ended"}
  <2>1. Tried(R[t]) BY <1>4 DEF Tried
  <2>2. AllTried(R) BY <1>1, <1>2, <2>1, OthersTried DEF AllTried
  <2> QED BY <1>1, <2>2 DEF R
<1> QED BY <1>1, <1>3, <1>4

-----------------------------------------------------------------------------
\* The inductive invariant.
RunnerIInv ==
  /\ TableInv(task, Quiet) /\ AllTried(task)
  /\ down \in {"no", "stopping", "released", "cleared"}

\* No task has been started at first.
LEMMA InitInv == RunnerInit => RunnerIInv
<1> SUFFICES ASSUME RunnerInit PROVE RunnerIInv OBVIOUS
<1> DEFINE x == [status |-> "none", phase |-> "live", attempt |-> "none",
        leader |-> "absent", members |-> FALSE,
        leaderGone |-> FALSE, outputDone |-> FALSE, drainTimer |-> FALSE,
        watch |-> FALSE, capture |-> "off", notified |-> FALSE,
        deliveryHeld |-> FALSE, released |-> FALSE, finishSeq |-> 0,
        kept |-> FALSE, awaited |-> FALSE, answers |-> {}]
<1>1. task = [t \in Tasks |-> x] /\ down = "no" BY DEF RunnerInit
<1>2. 0 \in 0..Cardinality(Tasks)
  BY RunnerAssumption, FS_CardinalityType DEF RunnerAssumption
<1>3. x \in Task BY <1>2 DEF Task
<1>4. Sound(x) /\ Told(x, FALSE) /\ Over(x, FALSE) /\ Tried(x) /\ ~ x.kept
  BY DEF Sound, Told, Over, Tried
<1> HIDE DEF x
<1>5. task \in Table /\ \A t \in Tasks : task[t] = x BY <1>1, <1>3 DEF Table
<1>6. Excess(task) = {} BY <1>4, <1>5 DEF Excess, Finished
<1>7. Ret(task) BY <1>6 DEF Ret
<1>8. Quiet = FALSE BY <1>1 DEF Quiet
<1> QED BY <1>1, <1>4, <1>5, <1>7, <1>8 DEF RunnerIInv, TableInv, AllTried

\* A step that changes one record in a way the retention does not see.
LEMMA RecordStep ==
  ASSUME RunnerIInv, NEW t \in Tasks, NEW y \in Task, task' = [task EXCEPT ![t] = y],
         UNCHANGED down, Sound(y), Told(y, Quiet), Over(y, Quiet), Tried(y),
         y.finishSeq = task[t].finishSeq,
         y.kept /\ y.status \in {"cancelled", "ended"} =>
           /\ task[t].kept /\ task[t].status \in {"cancelled", "ended"}
           /\ Evictable(y) => Evictable(task[t])
  PROVE  RunnerIInv'
<1>1. Quiet \in BOOLEAN /\ Quiet' = Quiet BY DEF Quiet
<1>2. TableInv(task, Quiet) /\ AllTried(task) /\ task \in Table BY DEF RunnerIInv, TableInv
<1>3. TableInv(task', Quiet) BY <1>1, <1>2, PutInv
<1>4. task'[t] = y /\ \A u \in Tasks \ {t} : task'[u] = task[u] BY <1>2, Put
<1>5. AllTried(task') BY <1>2, <1>4 DEF AllTried
<1>6. TableInv(task', Quiet') BY <1>1, <1>3
<1> QED BY <1>5, <1>6 DEF RunnerIInv, AllTried, TableInv, Quiet

\* A step that is a method of the runner on the table.
LEMMA MethodStep ==
  ASSUME RunnerIInv, NEW R, TableInv(R, Quiet) /\ AllTried(R), task' = R, UNCHANGED down
  PROVE  RunnerIInv'
BY DEF RunnerIInv, TableInv, AllTried, Quiet

\* What the invariant says of one task.
LEMMA Facts ==
  ASSUME RunnerIInv, NEW t \in Tasks
  PROVE  /\ task \in Table /\ task[t] \in Task /\ Sound(task[t]) /\ Tried(task[t])
         /\ Told(task[t], Quiet) /\ Over(task[t], Quiet) /\ Quiet \in BOOLEAN
         /\ TableInv(task, Quiet) /\ AllTried(task)
BY DEF RunnerIInv, TableInv, AllTried, Table, Quiet

\* A task is started.
LEMMA StartInv == ASSUME RunnerIInv, NEW t \in Tasks, Start(t) PROVE RunnerIInv'
<1>1. PICK leader \in {"alive", "absent"} :
        task' = [task EXCEPT ![t] =
         [@ EXCEPT !.status = "running", !.kept = TRUE, !.leader = leader,
                   !.capture = IF t \in Captured THEN "open" ELSE "off"]]
  BY DEF Start
<1> DEFINE capture == IF t \in Captured THEN "open" ELSE "off"
           x == task[t]
           y == [x EXCEPT !.status = "running", !.kept = TRUE, !.leader = leader,
                          !.capture = capture]
<1>2. /\ task \in Table /\ x \in Task /\ Sound(x) /\ x.status = "none"
      /\ UNCHANGED down
  BY Facts DEF Start
<1>3. capture \in {"off", "open"} OBVIOUS
<1>4. task' = [task EXCEPT ![t] = y] BY <1>1, <1>2 DEF Table
<1> HIDE DEF capture
<1>5. y \in Task BY <1>2, <1>3 DEF Task
<1>6. /\ Sound(y) /\ Told(y, Quiet) /\ Over(y, Quiet) /\ Tried(y)
      /\ y.finishSeq = x.finishSeq /\ y.status = "running"
  BY <1>2 DEF Task, Sound, Told, Over, Tried
<1> HIDE DEF y
<1> QED BY <1>2, <1>4, <1>5, <1>6, RecordStep

\* The processes of a group die.
LEMMA ProcessInv ==
  ASSUME RunnerIInv, NEW t \in Tasks, LeaderDies(t) \/ MembersDie(t) PROVE RunnerIInv'
<1> DEFINE x == task[t]
<1>1. /\ task \in Table /\ x \in Task /\ Sound(x) /\ Told(x, Quiet)
      /\ Over(x, Quiet) /\ Tried(x) /\ UNCHANGED down
  BY Facts DEF LeaderDies, MembersDie
<1>2. CASE LeaderDies(t)
  <2>1. PICK members \in BOOLEAN :
          task' = [task EXCEPT ![t] = [@ EXCEPT !.leader = "dead", !.members = members]]
    BY <1>2 DEF LeaderDies
  <2> DEFINE y == [x EXCEPT !.leader = "dead", !.members = members]
  <2>2. task' = [task EXCEPT ![t] = y] BY <1>1, <2>1 DEF Table
  <2>3. y \in Task BY <1>1 DEF Task
  <2>4. x.leader = "alive" BY <1>2 DEF LeaderDies
  <2>5. /\ Sound(y) /\ Told(y, Quiet) /\ Over(y, Quiet) /\ Tried(y)
        /\ y.finishSeq = x.finishSeq /\ y.status = x.status /\ y.kept = x.kept
        /\ Evictable(y) => Evictable(x)
    BY <1>1, <2>4 DEF Task, Sound, Told, Over, Tried, Evictable, CaptureDone
  <2> HIDE DEF y
  <2> QED BY <1>1, <2>2, <2>3, <2>5, RecordStep
<1>3. CASE MembersDie(t)
  <2> DEFINE y == [x EXCEPT !.members = FALSE]
  <2>2. task' = [task EXCEPT ![t] = y] BY <1>1, <1>3 DEF Table, MembersDie
  <2>3. y \in Task BY <1>1 DEF Task
  <2>5. /\ Sound(y) /\ Told(y, Quiet) /\ Over(y, Quiet) /\ Tried(y)
        /\ y.finishSeq = x.finishSeq /\ y.status = x.status /\ y.kept = x.kept
        /\ Evictable(y) => Evictable(x)
    BY <1>1 DEF Task, Sound, Told, Over, Tried, Evictable, CaptureDone
  <2> HIDE DEF y
  <2> QED BY <1>1, <2>2, <2>3, <2>5, RecordStep
<1> QED BY <1>2, <1>3

\* The events of the child, of its streams and of its capture file.
LEMMA EventInv ==
  ASSUME RunnerIInv, NEW t \in Tasks,
         ExitEvent(t) \/ CloseEvent(t) \/ DrainTimer(t) \/ CaptureSettled(t)
  PROVE  RunnerIInv'
<1> DEFINE x == task[t]
           L == LeaderGone(task, t, Quiet)
<1>1. /\ task \in Table /\ x \in Task /\ Sound(x) /\ Tried(x) /\ Over(x, Quiet)
      /\ Quiet \in BOOLEAN /\ TableInv(task, Quiet) /\ AllTried(task)
      /\ UNCHANGED down
  BY Facts DEF ExitEvent, CloseEvent, DrainTimer, CaptureSettled
<1>2. ASSUME x.status # "none", x.leader # "alive"
      PROVE  TableInv(L, Quiet) /\ AllTried(L) /\ L[t].status # "none"
  BY <1>1, <1>2, LeaderGoneInv DEF AllTried
<1> HIDE DEF L
<1>3. CASE ExitEvent(t)
  <2>1. TableInv(L, Quiet) /\ AllTried(L) /\ task' = L
    BY <1>2, <1>3 DEF ExitEvent, L
  <2> QED BY <1>1, <2>1, MethodStep
<1>4. CASE CloseEvent(t)
  <2>1. /\ TableInv(L, Quiet) /\ AllTried(L) /\ L[t].status # "none"
        /\ task' = FinishOutput(L, t, Quiet)
    BY <1>2, <1>4 DEF CloseEvent, L
  <2>2. TableInv(task', Quiet) /\ AllTried(task')
    BY <1>1, <2>1, FinishOutputInv
  <2> QED BY <1>1, <2>2, MethodStep
<1>5. CASE DrainTimer(t)
  <2>1. x.status # "none" /\ task' = FinishOutput(task, t, Quiet)
    BY <1>1, <1>5 DEF DrainTimer, Sound
  <2>2. TableInv(task', Quiet) /\ AllTried(task')
    BY <1>1, <2>1, FinishOutputInv
  <2> QED BY <1>1, <2>2, MethodStep
<1>6. CASE CaptureSettled(t)
  <2> DEFINE y == [x EXCEPT !.capture = "settled"]
  <2>1. y \in Task BY <1>1 DEF Task
  <2>2. Sound(y) /\ Over(y, Quiet) /\ Tried(y)
    BY <1>1, <1>6 DEF CaptureSettled, Sound, Over, Tried, Task, Evictable, CaptureDone
  <2>3. [task EXCEPT ![t].capture = "settled"] = [task EXCEPT ![t] = y]
    BY <1>1 DEF Table
  <2>4. task' = EvictFinished(NotifyFinished([task EXCEPT ![t] = y], t, Quiet), Quiet)
    BY <1>6, <2>3 DEF CaptureSettled
  <2> HIDE DEF y
  <2>5. TableInv(task', Quiet) /\ AllTried(task')
    BY <1>1, <2>1, <2>2, <2>4, FinishInv
  <2> QED BY <1>1, <2>5, MethodStep
<1> QED BY <1>3, <1>4, <1>5, <1>6

\* The polls, the waits of an attempt, and cancel.
LEMMA CommandInv ==
  ASSUME RunnerIInv, NEW t \in Tasks, Poll(t) \/ Cancel(t) \/ EndWait(t) PROVE RunnerIInv'
<1> DEFINE x == task[t]
<1>1. /\ task \in Table /\ x \in Task /\ Sound(x) /\ Tried(x) /\ Over(x, Quiet)
      /\ Told(x, Quiet)
      /\ Quiet \in BOOLEAN /\ TableInv(task, Quiet) /\ AllTried(task)
      /\ UNCHANGED down
  BY Facts DEF Poll, Cancel, EndWait
<1>2. CASE Poll(t)
  <2>1. TableInv(task', Quiet) /\ AllTried(task')
    BY <1>1, <1>2, CheckTried DEF Poll
  <2> QED BY <1>1, <2>1, MethodStep
<1>3. CASE Cancel(t)
  <2>1. x.status # "none" BY <1>1, <1>3 DEF Cancel, Sound
  <2>2. TableInv(task', Quiet) /\ AllTried(task')
    BY <1>1, <1>3, <2>1, CancelInv DEF Cancel
  <2> QED BY <1>1, <2>2, MethodStep
<1>4. CASE EndWait(t) /\ x.status = "running" /\ x.attempt = "term"
  <2> DEFINE y == [x EXCEPT !.attempt = "kill"]
             U == [task EXCEPT ![t] = y]
  <2>1. y \in Task BY <1>1 DEF Task
  <2>2. /\ Sound(y) /\ Told(y, Quiet) /\ Over(y, Quiet) /\ Tried(y)
        /\ y.finishSeq = x.finishSeq /\ y.status = x.status /\ y.kept = x.kept
        /\ Evictable(y) => Evictable(x)
    BY <1>1, <1>4 DEF Task, Sound, Told, Over, Tried, Evictable, CaptureDone
  <2>3. U = [task EXCEPT ![t].attempt = "kill"] BY <1>1 DEF Table
  <2>4. task' = CheckTermination(U, t, Quiet) BY <1>4, <2>3 DEF EndWait
  <2> HIDE DEF y
  <2>5. TableInv(U, Quiet) BY <1>1, <2>1, <2>2, PutInv
  <2>6. U[t] = y /\ \A u \in Tasks \ {t} : U[u] = task[u]
    BY <1>1, <2>1 DEF Table
  <2>7. AllTried(U) BY <1>1, <2>2, <2>6 DEF AllTried
  <2> HIDE DEF U
  <2>8. TableInv(task', Quiet) /\ AllTried(task')
    BY <1>1, <2>4, <2>5, <2>7, CheckTried
  <2> QED BY <1>1, <2>8, MethodStep
<1>5. CASE EndWait(t) /\ ~ (x.status = "running" /\ x.attempt = "term")
  <2>1. x.attempt # "none" /\ task' = ConcludeAttempt(task, t, Quiet)
    BY <1>5 DEF EndWait
  <2>2. TableInv(task', Quiet) /\ AllTried(task')
    BY <1>1, <2>1, ConcludeInv
  <2> QED BY <1>1, <2>2, MethodStep
<1> QED BY <1>2, <1>3, <1>4, <1>5

\* The delivery lets go of a follow-up.
LEMMA LetGo ==
  ASSUME NEW x \in Task, NEW quiet \in BOOLEAN,
         Sound(x), Told(x, quiet), Over(x, quiet), Tried(x)
  PROVE  LET y == [x EXCEPT !.deliveryHeld = FALSE] IN
         /\ y \in Task /\ Sound(y) /\ Told(y, quiet) /\ Over(y, quiet)
         /\ Tried(y)
<1> DEFINE y == [x EXCEPT !.deliveryHeld = FALSE]
<1>1. y \in Task BY DEF Task
<1>2. Sound(y) /\ Told(y, quiet) /\ Over(y, quiet) /\ Tried(y)
  BY DEF Task, Sound, Told, Over, Tried, Evictable, CaptureDone
<1> QED BY <1>1, <1>2

\* ... of any set of them, and the retention has its turn.
LEMMA LetGoInv ==
  ASSUME NEW U, NEW quiet \in BOOLEAN, U \in Table,
         \A u \in Tasks : Sound(U[u]) /\ Told(U[u], quiet) /\ Over(U[u], quiet),
         AllTried(U)
  PROVE  LET R == EvictFinished(U, quiet) IN TableInv(R, quiet) /\ AllTried(R)
<1> DEFINE R == EvictFinished(U, quiet)
<1>1. TableInv(R, quiet) /\ \A u \in Tasks : OrGone(U[u], R[u]) BY EvictInv
<1> HIDE DEF R
<1>2. AllTried(R)
  <2> SUFFICES ASSUME NEW u \in Tasks PROVE Tried(R[u]) BY DEF AllTried
  <2>1. U[u] \in Task /\ Tried(U[u]) /\ OrGone(U[u], R[u])
    BY <1>1 DEF Table, AllTried
  <2> QED BY <2>1, GoneTried
<1> QED BY <1>1, <1>2 DEF R

\* A follow-up was sent.
LEMMA DeliveredInv == ASSUME RunnerIInv, NEW t \in Tasks, Delivered(t) PROVE RunnerIInv'
<1> DEFINE x == task[t]
           y == [x EXCEPT !.deliveryHeld = FALSE]
           U == [task EXCEPT ![t] = y]
<1>1. /\ task \in Table /\ x \in Task /\ Sound(x) /\ Tried(x) /\ Over(x, Quiet)
      /\ Told(x, Quiet) /\ Quiet \in BOOLEAN
      /\ TableInv(task, Quiet) /\ AllTried(task) /\ UNCHANGED down
  BY Facts DEF Delivered
<1>2. y \in Task /\ Sound(y) /\ Told(y, Quiet) /\ Over(y, Quiet) /\ Tried(y)
  BY <1>1, LetGo
<1>3. [task EXCEPT ![t].deliveryHeld = FALSE] = U BY <1>1 DEF Table
<1>4. task' = EvictFinished(U, Quiet) BY <1>3 DEF Delivered
<1> HIDE DEF y
<1>5. U \in Table /\ U[t] = y /\ \A u \in Tasks \ {t} : U[u] = task[u]
  BY <1>1, <1>2 DEF Table
<1> HIDE DEF U
<1>6. \A u \in Tasks : Sound(U[u]) /\ Told(U[u], Quiet) /\ Over(U[u], Quiet)
  BY <1>1, <1>2, <1>5 DEF TableInv
<1>7. AllTried(U) BY <1>1, <1>2, <1>5 DEF AllTried
<1>8. TableInv(task', Quiet) /\ AllTried(task')
  BY <1>1, <1>4, <1>5, <1>6, <1>7, LetGoInv
<1> QED BY <1>1, <1>8, MethodStep

\* In a shutdown nothing is owed to the listener and the retention.
LEMMA QuietTable ==
  ASSUME NEW R, R \in Table, \A t \in Tasks : Sound(R[t]) PROVE TableInv(R, TRUE)
BY DEF TableInv, Told, Over

\* Shutdown cancels what runs, all together.
LEMMA ShutdownInv == ASSUME RunnerIInv, Shutdown PROVE RunnerIInv'
<1> DEFINE U == [t \in Tasks |-> [task[t] EXCEPT !.deliveryHeld = FALSE]]
           T == EvictFinished(U, FALSE)
           X(t) == CancelTask(T, t, TRUE)[t]
           Y(t) == IF T[t].kept /\ T[t].status = "running"
                   THEN [X(t) EXCEPT !.awaited = X(t).attempt # "none"] ELSE T[t]
<1>1. /\ task \in Table /\ TableInv(task, FALSE) /\ AllTried(task)
      /\ task' = [t \in Tasks |-> Y(t)] /\ down' = "stopping"
  BY DEF Shutdown, RunnerIInv, TableInv, Quiet
<1>2. \A u \in Tasks : /\ U[u] \in Task /\ Sound(U[u]) /\ Told(U[u], FALSE)
                       /\ Over(U[u], FALSE) /\ Tried(U[u])
  <2> TAKE u \in Tasks
  <2>1. /\ task[u] \in Task /\ Sound(task[u]) /\ Told(task[u], FALSE)
        /\ Over(task[u], FALSE) /\ Tried(task[u])
    BY <1>1 DEF TableInv, AllTried, Table
  <2>2. U[u] = [task[u] EXCEPT !.deliveryHeld = FALSE] OBVIOUS
  <2> QED BY <2>1, <2>2, LetGo
<1>3. U \in Table BY <1>2 DEF Table
<1> HIDE DEF U
<1>4. TableInv(T, FALSE) /\ AllTried(T)
  BY <1>2, <1>3, LetGoInv DEF AllTried
<1> HIDE DEF T
<1>5. TableInv(T, TRUE) /\ T \in Table BY <1>4, QuietTable DEF TableInv
<1>6. ASSUME NEW t \in Tasks PROVE Y(t) \in Task /\ Sound(Y(t)) /\ Tried(Y(t))
  <2>1. CASE ~ (T[t].kept /\ T[t].status = "running")
    <3>1. Y(t) = T[t] BY <2>1
    <3> QED BY <1>4, <3>1 DEF TableInv, Table, AllTried
  <2>2. CASE T[t].kept /\ T[t].status = "running"
    <3> DEFINE C == CancelTask(T, t, TRUE)
               x == C[t]
               b == x.attempt # "none"
               y == [x EXCEPT !.awaited = b]
    <3>1. TableInv(C, TRUE) /\ AllTried(C)
      BY <1>4, <1>5, <2>2, CancelInv
    <3>2. Y(t) = y BY <2>2
    <3> HIDE DEF C
    <3>3. x \in Task /\ Sound(x) /\ Tried(x)
      BY <3>1 DEF TableInv, Table, AllTried
    <3>4. b \in BOOLEAN OBVIOUS
    <3> HIDE DEF b, x
    <3>5. y \in Task BY <3>3, <3>4 DEF Task
    <3>6. Sound(y) /\ Tried(y) BY <3>3 DEF Task, Sound, Tried, CaptureDone
    <3> QED BY <3>2, <3>5, <3>6
  <2> QED BY <2>1, <2>2
<1> HIDE DEF Y
<1>7. task' \in Table /\ \A t \in Tasks : Sound(task'[t]) /\ Tried(task'[t])
  BY <1>1, <1>6 DEF Table
<1>8. TableInv(task', TRUE) BY <1>7, QuietTable
<1>9. Quiet' = TRUE BY <1>1 DEF Quiet
<1> QED BY <1>1, <1>7, <1>8, <1>9 DEF RunnerIInv, AllTried, TableInv

\* Shutdown releases every task, then forgets them.
LEMMA ReleaseInv == ASSUME RunnerIInv, ReleaseAll \/ Clear PROVE RunnerIInv'
<1>1. task \in Table /\ Quiet' = TRUE /\ down' \in {"released", "cleared"}
  BY DEF RunnerIInv, TableInv, ReleaseAll, Clear, Quiet
<1>2. ASSUME NEW t \in Tasks
      PROVE  /\ task[t] \in Task /\ Sound(task[t]) /\ Tried(task[t])
  BY Facts
<1>3. CASE ReleaseAll
  <2>1. ASSUME NEW t \in Tasks
        PROVE  LET y == Release(task[t]) IN y \in Task /\ Sound(y) /\ Tried(y)
    <3> DEFINE x == task[t]
               capture == IF x.capture = "off" THEN "off" ELSE "settled"
               y == [x EXCEPT !.released = TRUE, !.watch = FALSE,
                              !.drainTimer = FALSE, !.outputDone = TRUE,
                              !.capture = capture]
    <3>1. CASE ~ x.kept
      <4>1. Release(x) = x BY <3>1 DEF Release
      <4> QED BY <1>2, <4>1
    <3>2. CASE x.kept
      <4>1. Release(x) = y BY <1>2, <3>2 DEF Release, Task
      <4>2. capture \in {"off", "settled"} OBVIOUS
      <4>0. x \in Task BY <1>2
      <4> HIDE DEF capture, x
      <4>3. y \in Task BY <4>0, <4>2 DEF Task
      <4>4. Sound(y) /\ Tried(y)
        BY <1>2, <3>2, <4>0, <4>2 DEF Task, Sound, Tried, CaptureDone, x
      <4> QED BY <4>1, <4>3, <4>4 DEF x
    <3> QED BY <3>1, <3>2
  <2>2. task' = [t \in Tasks |-> Release(task[t])] BY <1>3 DEF ReleaseAll
  <2>3. task' \in Table /\ \A t \in Tasks : Sound(task'[t]) /\ Tried(task'[t])
    BY <2>1, <2>2 DEF Table
  <2>4. TableInv(task', TRUE) BY <2>3, QuietTable
  <2> QED BY <1>1, <2>3, <2>4 DEF RunnerIInv, AllTried, TableInv
<1>4. CASE Clear
  <2>1. ASSUME NEW t \in Tasks
        PROVE  LET y == [task[t] EXCEPT !.kept = FALSE] IN
               y \in Task /\ Sound(y) /\ Tried(y)
    <3> DEFINE x == task[t]
               y == [x EXCEPT !.kept = FALSE]
    <3>0. x \in Task /\ Sound(x) /\ Tried(x) BY <1>2
    <3> HIDE DEF x
    <3>1. y \in Task BY <3>0 DEF Task
    <3>2. Sound(y) /\ Tried(y) BY <3>0 DEF Task, Sound, Tried, CaptureDone
    <3> QED BY <3>1, <3>2 DEF x
  <2>2. task' = [t \in Tasks |-> [task[t] EXCEPT !.kept = FALSE]] BY <1>4 DEF Clear
  <2>3. task' \in Table /\ \A t \in Tasks : Sound(task'[t]) /\ Tried(task'[t])
    BY <2>1, <2>2 DEF Table
  <2>4. TableInv(task', TRUE) BY <2>3, QuietTable
  <2> QED BY <1>1, <2>3, <2>4 DEF RunnerIInv, AllTried, TableInv
<1> QED BY <1>3, <1>4

\* Every step of the runner preserves the invariant.
LEMMA Inductive == ASSUME RunnerIInv, [RunnerNext]_runnerVars PROVE RunnerIInv'
<1>1. CASE UNCHANGED runnerVars
  BY <1>1 DEF runnerVars, RunnerIInv, TableInv, AllTried, Quiet
<1>2. CASE RunnerNext
  BY <1>2, StartInv, ProcessInv, EventInv, CommandInv, DeliveredInv,
     ShutdownInv, ReleaseInv
     DEF RunnerNext
<1> QED BY <1>1, <1>2

-----------------------------------------------------------------------------
\* What the records of the tasks say of each other holds between any two
\* handlers of the event loop, whatever the processes, the timers and the
\* callers of the runner do: the inductive invariant.
THEOREM RunnerInvariant == RunnerSpec => []RunnerIInv
<1>1. RunnerInit => RunnerIInv BY InitInv
<1>2. RunnerIInv /\ [RunnerNext]_runnerVars => RunnerIInv' BY Inductive
<1> QED BY <1>1, <1>2, PTL DEF RunnerSpec

\* A caller of cancel is never told "cancelled" of a task that ends otherwise,
\* and evictFinished neither keeps a finished task that it should drop nor
\* drops one of which there is still something to tell.
THEOREM RecordsTrue == RunnerSpec => []RecordsAreTrue
<1>1. RunnerIInv => RecordsAreTrue
  <2> SUFFICES ASSUME RunnerIInv PROVE RecordsAreTrue OBVIOUS
  <2>1. RunnerTypeOK BY DEF RunnerIInv, TableInv, Table, RunnerTypeOK
  <2>2. AnswersAreTrue BY Facts DEF AnswersAreTrue, Sound
  <2>3. RetentionKept BY DEF RunnerIInv, TableInv, RetentionKept, Ret
  <2>4. EvictedIsOver BY Facts DEF EvictedIsOver, Over
  <2> QED BY <2>1, <2>2, <2>3, <2>4 DEF RecordsAreTrue
<1> QED BY <1>1, RunnerInvariant, PTL

\* A task is "cancelled" only after its shell is reaped and its process group
\* is empty: no interleaving of exit events, polls and the two waits of an
\* attempt settles it earlier.
THEOREM CancelledGone == RunnerSpec => []CancelledIsGone
<1>1. RunnerIInv => CancelledIsGone
  BY Facts DEF CancelledIsGone, Sound
<1> QED BY <1>1, RunnerInvariant, PTL

\* Outside a shutdown, a natural end has had its follow-up exactly when output
\* and capture are final, whichever of the three events came last.
THEOREM ToldOnce == RunnerSpec => []OneFollowUp
<1>1. RunnerIInv => OneFollowUp
  BY Facts DEF OneFollowUp, Sound, Told
<1> QED BY <1>1, RunnerInvariant, PTL

\* The watcher and an attempt never run together, and a task whose end could
\* not be confirmed stays watched until shutdown releases it.
THEOREM AlwaysWatchedOrTried == RunnerSpec => []WatchedOrTried
<1>1. RunnerIInv => WatchedOrTried
  <2> SUFFICES ASSUME RunnerIInv, NEW t \in Tasks
      PROVE  /\ task[t].watch =>
                  task[t].phase = "unconfirmed" /\ task[t].attempt = "none"
             /\ task[t].status = "running" /\ ~ task[t].released =>
                  CASE task[t].phase = "live" -> task[t].attempt = "none"
                    [] task[t].phase = "cancelling" -> task[t].attempt # "none"
                    [] task[t].phase = "unconfirmed" -> task[t].watch
    BY DEF WatchedOrTried
  <2>1. /\ Sound(task[t]) /\ Tried(task[t])
        /\ task[t].phase \in {"live", "cancelling", "unconfirmed"}
    BY Facts DEF Task
  <2> QED BY <2>1 DEF Sound, Tried
<1> QED BY <1>1, RunnerInvariant, PTL

-----------------------------------------------------------------------------
(* The delivery *)

\* What was handed over and what is held are the numbers 1, 2, 3 ... in order.
Queue ==
  /\ \A i \in 1..Len(out) : out[i] = i
  /\ \A i \in 1..Len(held) : held[i] = Len(out) + i
  /\ Len(out) + Len(held) <= count
  /\ IF closed THEN held = <<>> /\ timers = {}
     ELSE Len(out) + Len(held) = count

\* A timer looks at what is held, and there is one at most that sends.
Looks ==
  /\ ~ ("batch" \in timers /\ "flush" \in timers)
  /\ held # <<>> => IF holding THEN "watch" \in timers
                    ELSE "batch" \in timers \/ "flush" \in timers

\* An open object that was told of a compaction holds back.
Holds == compaction = "hooked" /\ ~ closed => holding

DeliveryIInv == DeliveryTypeOK /\ Queue /\ ReleasedOnce /\ Looks /\ Holds

-----------------------------------------------------------------------------
\* The invariant says what the run checks.
LEMMA QueueInOrder == ASSUME DeliveryTypeOK, Queue PROVE InOrder
<1>1. ASSUME NEW i \in 1..Len(out \o held) PROVE (out \o held)[i] = i
  <2>1. CASE i \in 1..Len(out) BY <2>1 DEF Queue, DeliveryTypeOK
  <2>2. CASE i \in (Len(out) + 1)..(Len(out) + Len(held))
    <3>1. (out \o held)[i] = held[i - Len(out)] BY <2>2 DEF DeliveryTypeOK
    <3>2. i - Len(out) \in 1..Len(held) BY <2>2 DEF DeliveryTypeOK
    <3> QED BY <3>1, <3>2 DEF Queue, DeliveryTypeOK
  <2> QED BY <2>1, <2>2 DEF DeliveryTypeOK
<1>2. Len(out \o held) = Len(out) + Len(held) BY DEF DeliveryTypeOK
<1> QED BY <1>1, <1>2 DEF InOrder, Queue

LEMMA OneTimer == ASSUME Looks PROVE SomeTimerLooks
<1>1. Cardinality({"batch"}) = 1 /\ Cardinality({"flush"}) = 1
  BY FS_Singleton
<1>2. CASE "batch" \in timers /\ "flush" \notin timers
  <2>1. timers \cap {"batch", "flush"} = {"batch"} BY <1>2
  <2> QED BY <1>1, <2>1 DEF Looks, SomeTimerLooks
<1>3. CASE "flush" \in timers /\ "batch" \notin timers
  <2>1. timers \cap {"batch", "flush"} = {"flush"} BY <1>3
  <2> QED BY <1>1, <2>1 DEF Looks, SomeTimerLooks
<1> QED BY <1>2, <1>3 DEF Looks, SomeTimerLooks

LEMMA IInvDelivers == ASSUME DeliveryIInv PROVE DeliveryInv
BY QueueInOrder, OneTimer DEF DeliveryIInv, DeliveryInv

-----------------------------------------------------------------------------
\* The follow-ups that are held, as a set.
LEMMA HeldSet ==
  ASSUME DeliveryTypeOK, Queue
  PROVE  InSeq(held) = (Len(out) + 1)..(Len(out) + Len(held))
<1>1. ASSUME NEW x \in (Len(out) + 1)..(Len(out) + Len(held))
      PROVE  x \in InSeq(held)
  <2>1. x - Len(out) \in 1..Len(held) /\ held[x - Len(out)] = x
    BY DEF DeliveryTypeOK, Queue
  <2> QED BY <2>1 DEF InSeq
<1>2. ASSUME NEW x \in InSeq(held)
      PROVE  x \in (Len(out) + 1)..(Len(out) + Len(held))
  BY DEF InSeq, DeliveryTypeOK, Queue
<1> QED BY <1>1, <1>2

\* A batch is the first of them, the rest follows it.
LEMMA BatchSet ==
  ASSUME DeliveryTypeOK, Queue, NEW k \in 1..Len(held)
  PROVE  /\ InSeq(SubSeq(held, 1, k)) = (Len(out) + 1)..(Len(out) + k)
         /\ InSeq(SubSeq(held, k + 1, Len(held)))
              = (Len(out) + k + 1)..(Len(out) + Len(held))
<1> DEFINE b == SubSeq(held, 1, k)
           r == SubSeq(held, k + 1, Len(held))
<1>1. Len(b) = k /\ \A i \in 1..k : b[i] = Len(out) + i
  BY DEF DeliveryTypeOK, Queue
<1>2. Len(r) = Len(held) - k
      /\ \A i \in 1..(Len(held) - k) : r[i] = Len(out) + k + i
  BY DEF DeliveryTypeOK, Queue
<1> HIDE DEF b, r
<1>3. k \in Nat /\ Len(out) \in Nat /\ Len(held) \in Nat BY DEF DeliveryTypeOK
<1>4. InSeq(b) = (Len(out) + 1)..(Len(out) + k)
  <2>1. ASSUME NEW x \in (Len(out) + 1)..(Len(out) + k) PROVE x \in InSeq(b)
    <3>1. x - Len(out) \in 1..k /\ b[x - Len(out)] = x BY <1>1, <1>3
    <3> QED BY <1>1, <3>1 DEF InSeq
  <2> QED BY <1>1, <1>3, <2>1 DEF InSeq
<1>5. InSeq(r) = (Len(out) + k + 1)..(Len(out) + Len(held))
  <2>1. ASSUME NEW x \in (Len(out) + k + 1)..(Len(out) + Len(held))
        PROVE  x \in InSeq(r)
    <3>1. x - Len(out) - k \in 1..(Len(held) - k) /\ r[x - Len(out) - k] = x
      BY <1>2, <1>3
    <3> QED BY <1>2, <3>1 DEF InSeq
  <2> QED BY <1>2, <1>3, <2>1 DEF InSeq
<1> QED BY <1>4, <1>5 DEF b, r

-----------------------------------------------------------------------------
LEMMA InitIInv == ASSUME DeliveryInit PROVE DeliveryIInv
<1>0. <<>> \in Seq(1..N) /\ Len(<<>>) = 0 OBVIOUS
<1>1. DeliveryTypeOK
  <2>1. freed \in [1..N -> Nat] BY DEF DeliveryInit
  <2>2. held \in Seq(1..N) /\ out \in Seq(1..N) /\ Len(out) <= N
    BY <1>0, DeliveryAssumption DEF DeliveryInit, DeliveryAssumption
  <2>3. count \in 0..N BY DeliveryAssumption DEF DeliveryInit, DeliveryAssumption
  <2> QED BY <2>1, <2>2, <2>3 DEF DeliveryInit, DeliveryTypeOK
<1>2. Queue BY <1>0 DEF DeliveryInit, Queue
<1>3. ReleasedOnce
  <2>1. InSeq(held) = {} BY DEF DeliveryInit, InSeq
  <2> QED BY <2>1, DeliveryAssumption DEF DeliveryInit, ReleasedOnce, DeliveryAssumption
<1> QED BY <1>1, <1>2, <1>3 DEF DeliveryInit, DeliveryIInv, Looks, Holds

LEMMA SubmitInv ==
  ASSUME DeliveryIInv, Submit PROVE DeliveryIInv'
<1> USE DEF DeliveryIInv, DeliveryAssumption
<1>0. count \in 0..N /\ count' \in 1..N /\ count' = count + 1 /\ N \in Nat
  BY DeliveryAssumption DEF Submit, DeliveryTypeOK
<1>s. UNCHANGED <<holding, closed, checkStranded, submitted, runActive,
                  attached, compaction, out>>
  BY DEF Submit, pi
<1>1. CASE closed
  <2>0. UNCHANGED <<held, timers>> /\ held = <<>> /\ timers = {}
        /\ freed' = [i \in 1..N |-> freed[i] + IF i = count' THEN 1 ELSE 0]
    BY <1>1 DEF Submit, Free, Queue
  <2>1. DeliveryTypeOK' BY <1>0, <1>s, <2>0 DEF DeliveryTypeOK
  <2>2. Queue' BY <1>0, <1>1, <1>s, <2>0 DEF Queue, DeliveryTypeOK
  <2>3. InSeq(held') = {} /\ InSeq(held) = {} BY <2>0 DEF InSeq
  <2>4. ReleasedOnce' BY <1>0, <2>0, <2>3 DEF ReleasedOnce, DeliveryTypeOK
  <2>5. Looks' BY <2>0 DEF Looks
  <2> QED BY <1>s, <2>1, <2>2, <2>4, <2>5 DEF Holds
<1>2. CASE ~ closed
  <2>1. held' = Append(held, count') /\ freed' = freed
    BY <1>2 DEF Submit
  <2>t. /\ timers' \subseteq {"batch", "flush", "watch"}
        /\ timers \ {"flush"} \subseteq timers'
        /\ holding => "watch" \in timers'
        /\ held = <<>> => "batch" \in timers' /\ "flush" \notin timers'
        /\ held # <<>> => timers' \ {"watch"} = timers \ {"watch"}
    BY <1>2 DEF Submit, DeliveryTypeOK, IdleIs
  <2>2. Len(held') = Len(held) + 1 /\ held' \in Seq(1..N) /\ held' # <<>>
    <3>1. held \in Seq(1..N) /\ count' \in 1..N BY <1>0 DEF DeliveryTypeOK
    <3> QED BY <2>1, <3>1
  <2>3. DeliveryTypeOK' BY <1>0, <1>s, <2>1, <2>2, <2>t DEF DeliveryTypeOK
  <2>4. Queue'
    <3>1. ASSUME NEW i \in 1..Len(held') PROVE held'[i] = Len(out) + i
      <4>1. CASE i \in 1..Len(held) BY <4>1, <2>1 DEF DeliveryTypeOK, Queue
      <4>2. CASE i = Len(held) + 1 BY <4>2, <1>0, <1>2, <2>1 DEF DeliveryTypeOK, Queue
      <4> QED BY <4>1, <4>2, <2>2 DEF DeliveryTypeOK
    <3>2. Len(out) + Len(held) = count BY <1>2 DEF Queue
    <3>3. Len(out) \in Nat /\ Len(held) \in Nat BY DEF DeliveryTypeOK
    <3>4. Len(out) + Len(held') = count' BY <1>0, <2>2, <3>2, <3>3
    <3> QED BY <1>0, <1>2, <1>s, <3>1, <3>4 DEF Queue
  <2>5. ReleasedOnce'
    <3>0. Len(out) + Len(held) = count /\ Len(out) \in Nat /\ Len(held) \in Nat
      BY <1>2 DEF Queue, DeliveryTypeOK
    <3>1. InSeq(held') = InSeq(held) \cup {count'}
      <4>1. \A i \in 1..Len(held) : held'[i] = held[i] BY <2>1 DEF DeliveryTypeOK
      <4>2. held'[Len(held) + 1] = count' BY <2>1 DEF DeliveryTypeOK
      <4>3. 1..Len(held') = 1..Len(held) \cup {Len(held) + 1}
        BY <2>2, <3>0
      <4> QED BY <4>1, <4>2, <4>3 DEF InSeq
    <3>2. InSeq(held) = (Len(out) + 1)..count BY <3>0, HeldSet
    <3>3. ASSUME NEW i \in 1..N
          PROVE  freed'[i] = IF i <= count' /\ i \notin InSeq(held') THEN 1 ELSE 0
      <4>1. freed[i] = IF i <= count /\ i \notin InSeq(held) THEN 1 ELSE 0
        BY DEF ReleasedOnce
      <4> QED BY <1>0, <2>1, <3>0, <3>1, <3>2, <4>1
    <3> QED BY <3>3 DEF ReleasedOnce
  <2>6. Looks' BY <1>s, <2>2, <2>t DEF Looks
  <2> QED BY <1>s, <2>3, <2>4, <2>5, <2>6 DEF Holds
<1> QED BY <1>1, <1>2

\* A step that leaves the queue alone keeps what is said of it.
LEMMA QueueStays ==
  ASSUME DeliveryIInv, UNCHANGED <<count, held, out, freed, closed>>,
         closed => timers' = timers
  PROVE  Queue' /\ ReleasedOnce'
BY DEF DeliveryIInv, Queue, ReleasedOnce, InSeq

LEMMA HookInv ==
  ASSUME DeliveryIInv,
         \/ Attach \/ AgentStarted \/ AgentSettled \/ GoStale \/ Guard
         \/ Begin \/ End
  PROVE  DeliveryIInv'
<1> USE DEF DeliveryIInv
<1>1. ASSUME Attach \/ AgentStarted \/ AgentSettled \/ GoStale \/ Guard
      PROVE  DeliveryIInv'
  <2>1. DeliveryTypeOK'
    BY <1>1 DEF DeliveryTypeOK, Attach, AgentStarted, AgentSettled, GoStale, Guard
  <2>2. UNCHANGED <<count, held, out, freed, closed, timers, holding>>
        /\ compaction' \in {compaction, "guard", "no"}
    BY <1>1 DEF Attach, AgentStarted, AgentSettled, GoStale, Guard
  <2> QED BY <2>1, <2>2, QueueStays DEF Looks, Holds
<1>2. ASSUME Begin PROVE DeliveryIInv'
  <2>1. DeliveryTypeOK' BY <1>2 DEF DeliveryTypeOK, Begin
  <2>2. Looks' /\ Holds' BY <1>2 DEF Looks, Holds, Begin, Queue
  <2> QED BY <1>2, <2>1, <2>2, QueueStays DEF Begin
<1>3. ASSUME End PROVE DeliveryIInv'
  <2>1. DeliveryTypeOK' BY <1>3 DEF DeliveryTypeOK, End, WithFlush
  <2>2. Looks' /\ Holds' BY <1>3 DEF Looks, Holds, End, WithFlush, Queue
  <2> QED BY <1>3, <2>1, <2>2, QueueStays DEF End
<1> QED BY <1>1, <1>2, <1>3

LEMMA WatchInv == ASSUME DeliveryIInv, WatchTimer PROVE DeliveryIInv'
<1> USE DEF DeliveryIInv
<1>0. UNCHANGED <<count, held, closed, submitted, runActive, attached,
                  compaction, out, freed>>
  BY DEF WatchTimer, pi
<1>1. CASE closed \/ held = <<>>
  <2>1. timers' = timers \ {"watch"} /\ UNCHANGED <<holding, checkStranded>>
    BY <1>1 DEF WatchTimer
  <2>2. DeliveryTypeOK' BY <1>0, <2>1 DEF DeliveryTypeOK
  <2>3. Looks' BY <1>0, <1>1, <2>1 DEF Looks, Queue
  <2> QED BY <1>0, <2>1, <2>2, <2>3, QueueStays DEF Queue, Holds
<1>2. CASE ~ closed /\ holding /\ IdleIs(TRUE) /\ held # <<>>
  <2>1. ~ holding' /\ checkStranded' /\ holding' \in BOOLEAN
        /\ checkStranded' \in BOOLEAN
        /\ timers' = IF "batch" \in timers THEN timers ELSE timers \cup {"flush"}
    BY <1>2 DEF WatchTimer, WithFlush
  <2>2. DeliveryTypeOK' BY <1>0, <2>1 DEF DeliveryTypeOK
  <2>3. Looks' BY <1>0, <2>1 DEF Looks
  <2>4. Holds' BY <1>0, <1>2 DEF Holds, IdleIs
  <2> QED BY <1>0, <1>2, <2>2, <2>3, <2>4, QueueStays
<1>3. CASE ~ closed /\ ~ (holding /\ IdleIs(TRUE)) /\ held # <<>>
  <2>1. UNCHANGED <<holding, checkStranded, timers>> BY <1>3 DEF WatchTimer
  <2> QED BY <1>0, <2>1, QueueStays DEF DeliveryTypeOK, Looks, Holds
<1> QED BY <1>1, <1>2, <1>3

LEMMA DeliveryShutdown == ASSUME DeliveryIInv, ShutdownDelivery PROVE DeliveryIInv'
<1> USE DEF DeliveryIInv, DeliveryAssumption
<1>0. held' = <<>> /\ <<>> \in Seq(1..N) /\ Len(<<>>) = 0 BY DEF ShutdownDelivery
<1>1. DeliveryTypeOK'
  <2>1. freed' \in [1..N -> Nat] BY DEF DeliveryTypeOK, ShutdownDelivery, Free
  <2> QED BY <1>0, <2>1 DEF DeliveryTypeOK, ShutdownDelivery, pi
<1>2. Queue' BY <1>0 DEF Queue, ShutdownDelivery, DeliveryTypeOK
<1>3. InSeq(held) = (Len(out) + 1)..count BY HeldSet DEF Queue, ShutdownDelivery
<1>4. InSeq(held') = {} BY DEF ShutdownDelivery, InSeq
<1>5. ReleasedOnce'
  BY <1>3, <1>4 DEF ShutdownDelivery, ReleasedOnce, Free, DeliveryTypeOK
<1>6. Looks' /\ Holds' BY DEF Looks, Holds, ShutdownDelivery
<1> QED BY <1>1, <1>2, <1>5, <1>6

-----------------------------------------------------------------------------
\* A batch moves the first follow-ups from what is held to what was sent.
LEMMA BatchSent ==
  ASSUME DeliveryIInv, ~ closed, ~ holding,
         NEW T \in SUBSET timers, "batch" \notin T, "flush" \notin T,
         SendBatch(T), UNCHANGED <<count, holding, closed, pi>>
  PROVE  DeliveryIInv'
<1> USE DEF DeliveryIInv, DeliveryAssumption
<1>1. PICK k \in 1..MaxTasks, ok \in BOOLEAN :
        /\ k <= Len(held)
        /\ out' = out \o SubSeq(held, 1, k)
        /\ held' = SubSeq(held, k + 1, Len(held))
        /\ Free(InSeq(SubSeq(held, 1, k)))
        /\ checkStranded' = FALSE
        /\ submitted' = (submitted \/ ok)
        /\ timers' = WithFlush(IF held' = <<>> THEN T \ {"watch"} ELSE T)
  BY DEF SendBatch
<1>2. k \in 1..Len(held) /\ k \in Nat BY <1>1 DEF DeliveryTypeOK
<1>3. Len(out) \in Nat /\ Len(held) \in Nat /\ count \in 0..N /\ N \in Nat
  BY DeliveryAssumption DEF DeliveryTypeOK
<1>4. Len(out') = Len(out) + k /\ out' \in Seq(1..N)
      /\ \A i \in 1..Len(out') : out'[i] = i
  <2> DEFINE b == SubSeq(held, 1, k)
  <2>1. b \in Seq(1..N) /\ Len(b) = k /\ \A i \in 1..k : b[i] = Len(out) + i
    <3>1. b \in Seq(1..N) /\ Len(b) = k /\ \A i \in 1..k : b[i] = held[i]
      BY <1>2, DeliveryAssumption DEF DeliveryTypeOK
    <3> QED BY <1>2, <3>1 DEF Queue
  <2>2. out' = out \o b BY <1>1
  <2> HIDE DEF b
  <2>3. out' \in Seq(1..N) /\ Len(out') = Len(out) + k
    <3>1. out \in Seq(1..N) BY DEF DeliveryTypeOK
    <3> QED BY <2>1, <2>2, <3>1, ConcatProperties
  <2>4. ASSUME NEW i \in 1..Len(out') PROVE out'[i] = i
    <3>1. CASE i \in 1..Len(out) BY <2>1, <2>2, <3>1 DEF DeliveryTypeOK, Queue
    <3>2. CASE i \in (Len(out) + 1)..(Len(out) + k)
      <4>1. i - Len(out) \in 1..k BY <1>2, <1>3, <3>2
      <4>2. out'[i] = b[i - Len(out)] BY <2>1, <2>2, <3>2, <1>2 DEF DeliveryTypeOK
      <4> QED BY <1>3, <2>1, <4>1, <4>2
    <3> QED BY <1>2, <1>3, <2>3, <3>1, <3>2
  <2> QED BY <2>3, <2>4
<1>5. Len(held') = Len(held) - k /\ held' \in Seq(1..N)
      /\ \A i \in 1..Len(held') : held'[i] = Len(out') + i
  <2>1. held' \in Seq(1..N) /\ Len(held') = Len(held) - k
    <3> DEFINE n == Len(held)
    <3>0. n \in Nat /\ k \in 1..n /\ held \in Seq(1..N)
      BY <1>2, <1>3 DEF DeliveryTypeOK
    <3>1. ASSUME NEW i \in (k + 1)..n PROVE held[i] \in 1..N
      <4>1. i \in 1..Len(held) BY <3>0
      <4> QED BY <3>0, <4>1, ElementOfSeq
    <3>2. held' = SubSeq(held, k + 1, n) BY <1>1
    <3> HIDE DEF n
    <3>3. /\ held' \in Seq(1..N)
          /\ Len(held') = IF k + 1 <= n THEN n - (k + 1) + 1 ELSE 0
      BY <3>0, <3>1, <3>2, SubSeqProperties
    <3>4. Len(held') = n - k BY <3>0, <3>3
    <3> QED BY <3>3, <3>4 DEF n
  <2>2. ASSUME NEW i \in 1..Len(held') PROVE held'[i] = Len(out') + i
    <3>1. held'[i] = held[k + i] /\ k + i \in 1..Len(held)
      BY <1>1, <1>2, <2>1 DEF DeliveryTypeOK
    <3> QED BY <1>2, <1>3, <1>4, <3>1 DEF Queue
  <2> QED BY <2>1, <2>2
<1>6. Queue'
  <2>1. Len(out') + Len(held') = Len(out) + Len(held) BY <1>2, <1>3, <1>4, <1>5
  <2>2. UNCHANGED <<count, closed>> OBVIOUS
  <2> QED BY <1>4, <1>5, <2>1, <2>2 DEF Queue
<1>7. timers' \subseteq {"batch", "flush", "watch"}
      /\ "batch" \notin timers' /\ "flush" \in timers'
  BY <1>1 DEF WithFlush, DeliveryTypeOK
<1>8. freed' \in [1..N -> Nat] BY <1>1 DEF Free, DeliveryTypeOK
<1>9. DeliveryTypeOK'
  <2>1. Len(out') <= N BY <1>2, <1>3, <1>4 DEF Queue
  <2>3. submitted' \in BOOLEAN /\ checkStranded' \in BOOLEAN BY <1>1 DEF DeliveryTypeOK
  <2>2. UNCHANGED <<count, holding, closed, runActive, attached, compaction>>
    BY DEF pi
  <2> QED BY <1>4, <1>5, <1>7, <1>8, <2>1, <2>2, <2>3 DEF DeliveryTypeOK
<1>10. ReleasedOnce'
  <2>1. InSeq(held) = (Len(out) + 1)..(Len(out) + Len(held)) BY HeldSet
  <2>2. InSeq(SubSeq(held, 1, k)) = (Len(out) + 1)..(Len(out) + k)
        /\ InSeq(held') = (Len(out) + k + 1)..(Len(out) + Len(held))
    BY <1>1, <1>2, BatchSet
  <2>3. Len(out) + Len(held) <= count BY DEF Queue
  <2>4. ASSUME NEW i \in 1..N
        PROVE  freed'[i] = IF i <= count /\ i \notin InSeq(held') THEN 1 ELSE 0
    <3>1. freed'[i] = freed[i] + IF i \in InSeq(SubSeq(held, 1, k)) THEN 1 ELSE 0
      BY <1>1 DEF Free
    <3>2. freed[i] = IF i <= count /\ i \notin InSeq(held) THEN 1 ELSE 0
      BY DEF ReleasedOnce
    <3> QED BY <1>2, <1>3, <2>1, <2>2, <2>3, <3>1, <3>2
  <2>5. UNCHANGED count OBVIOUS
  <2> QED BY <2>4, <2>5 DEF ReleasedOnce
<1>11. Looks' /\ Holds' BY <1>7 DEF Looks, Holds, pi
<1> QED BY <1>6, <1>9, <1>10, <1>11

\* flush with its own timer gone, and the batch window's when that one fired.
LEMMA FlushInv ==
  ASSUME DeliveryIInv, NEW T \in SUBSET timers, "flush" \notin T,
         ("batch" \in timers /\ "batch" \notin T) \/ "flush" \in timers,
         T \cup {"batch", "flush"} = timers \cup {"batch", "flush"},
         Flush(T), UNCHANGED <<count, holding, closed, pi>>
  PROVE  DeliveryIInv'
<1> USE DEF DeliveryIInv
<1>1. ~ closed BY DEF Queue
<1>2. "batch" \notin T BY DEF Looks
<1>3. ASSUME timers' = T \/ timers' = WithFlush(T),
             UNCHANGED <<held, out, freed>>,
             submitted' \in BOOLEAN, checkStranded' \in BOOLEAN,
             held # <<>> => holding \/ timers' = WithFlush(T)
      PROVE  DeliveryIInv'
  <2>1. DeliveryTypeOK' BY <1>3 DEF DeliveryTypeOK, WithFlush, pi
  <2>2. Looks' /\ Holds' BY <1>1, <1>2, <1>3 DEF Looks, Holds, WithFlush, pi
  <2> QED BY <1>1, <1>3, <2>1, <2>2, QueueStays
<1>4. CASE SendBatch(T) /\ ~ holding BY <1>1, <1>2, <1>4, BatchSent
<1>5. CASE FinishDrain(T) /\ held = <<>>
  BY <1>3, <1>5 DEF FinishDrain
<1>6. CASE /\ UNCHANGED <<held, out, freed, checkStranded, submitted>>
           /\ \/ timers' = T /\ (holding \/ held = <<>>)
              \/ timers' = WithFlush(T)
  BY <1>3, <1>6 DEF DeliveryTypeOK
<1> QED BY <1>1, <1>2, <1>4, <1>5, <1>6 DEF Flush

LEMMA TimerInv ==
  ASSUME DeliveryIInv, BatchTimer \/ FlushTimer PROVE DeliveryIInv'
<1>1. ASSUME BatchTimer PROVE DeliveryIInv'
  <2> DEFINE T == timers \ {"batch", "flush"}
  <2>1. /\ T \in SUBSET timers /\ "flush" \notin T
        /\ "batch" \in timers /\ "batch" \notin T
        /\ T \cup {"batch", "flush"} = timers \cup {"batch", "flush"}
    BY <1>1 DEF BatchTimer
  <2>2. Flush(T) /\ UNCHANGED <<count, holding, closed, pi>>
    BY <1>1 DEF BatchTimer
  <2> HIDE DEF T
  <2> QED BY <2>1, <2>2, FlushInv
<1>2. ASSUME FlushTimer PROVE DeliveryIInv'
  <2> DEFINE T == timers \ {"flush"}
  <2>1. /\ T \in SUBSET timers /\ "flush" \notin T /\ "flush" \in timers
        /\ T \cup {"batch", "flush"} = timers \cup {"batch", "flush"}
    BY <1>2 DEF FlushTimer
  <2>2. Flush(T) /\ UNCHANGED <<count, holding, closed, pi>>
    BY <1>2 DEF FlushTimer
  <2> HIDE DEF T
  <2> QED BY <2>1, <2>2, FlushInv
<1> QED BY <1>1, <1>2

LEMMA StutterInv == ASSUME DeliveryIInv, UNCHANGED deliveryVars PROVE DeliveryIInv'
BY DEF DeliveryIInv, deliveryVars, pi, DeliveryTypeOK, Queue, ReleasedOnce, Looks, Holds, InSeq

\* The inductive invariant holds in every reachable state.
THEOREM DeliveryInvariant == DeliverySpec => []DeliveryIInv
<1>1. DeliveryInit => DeliveryIInv BY InitIInv
<1>2. DeliveryIInv /\ [DeliveryNext]_deliveryVars => DeliveryIInv'
  BY SubmitInv, HookInv, TimerInv, WatchInv, DeliveryShutdown, StutterInv DEF DeliveryNext
<1> QED BY <1>1, <1>2, PTL DEF DeliverySpec

\* Follow-ups reach Pi in order, each at most once and none lost before the
\* shutdown; each is released once; a timer looks at whatever is held.
THEOREM DeliveryIsExact == DeliverySpec => []DeliveryInv
<1>1. DeliveryIInv => DeliveryInv BY IInvDelivers
<1> QED BY <1>1, DeliveryInvariant, PTL

-----------------------------------------------------------------------------
\* Only flush hands anything to Pi, and only to a ready one.
LEMMA OnlyFlushSends ==
  ASSUME [DeliveryNext]_deliveryVars, out' # out
  PROVE  ~ closed /\ ~ holding /\ Ready
<1>1. CASE BatchTimer \/ FlushTimer
  BY <1>1 DEF BatchTimer, FlushTimer, Flush, FinishDrain
<1> QED BY <1>1 DEF DeliveryNext, deliveryVars, Submit, Attach, AgentStarted, AgentSettled,
        GoStale, Guard, Begin, End, WatchTimer, ShutdownDelivery

\* No follow-up is handed to Pi in a compaction this extension was told of,
\* not even during a run, nor in any other busy phase without a known run.
THEOREM NothingIntoCompaction == DeliverySpec => HeldWhileCompacting
<1>1. ASSUME DeliveryIInv, [DeliveryNext]_deliveryVars, out' # out
      PROVE  compaction = "no" \/ (runActive /\ compaction # "hooked")
  BY <1>1, OnlyFlushSends DEF DeliveryIInv, Holds, Ready, IdleIs
<1>2. DeliveryIInv /\ [DeliveryNext]_deliveryVars =>
        [out' # out => \/ compaction = "no"
                       \/ runActive /\ compaction # "hooked"]_deliveryVars
  BY <1>1
<1> QED BY <1>2, DeliveryInvariant, PTL DEF DeliverySpec, HeldWhileCompacting

=============================================================================
