------------------------- MODULE SessionStoreProofs -------------------------
(***************************************************************************)
(* The session registry for any number of sessions, names, messages and    *)
(* clients: type correctness, the inductive invariant that the registry    *)
(* lock maintains, exactness of the stored queues, and that the locked     *)
(* multi-step store implements the atomic Registry.                        *)
(***************************************************************************)
EXTENDS SessionStore, TLAPS

\* Only the lock holder is inside an operation.
Exclusive == \A c \in Clients : pc[c] # "idle" => lock = c

\* What a client read under the lock is still what is stored.
ReadIsFresh ==
  \A c \in Clients : pc[c] # "idle" =>
    /\ sess[c] # None
    /\ pc[c] \in {"saving", "acking"} => cur[c] = file[sess[c].id]
    /\ pc[c] = "acking" => cur[c] # None
    /\ pc[c] \in {"creating", "writing"} =>
         /\ ~ Clash(sess[c].id, sess[c].rec.name)
         /\ sess[c].rec.pending = {}
    /\ pc[c] = "writing" => sess[c].id \in torn
    /\ pc[c] \in {"saving", "acking"} => sess[c].id \notin torn
    /\ pc[c] = "queueing" => sess[c].rec.meta \in Queueable
    /\ pc[c] \in {"queueing", "archiving", "removing"} =>
         file[sess[c].id] = sess[c].rec
    /\ pc[c] = "removing" => archive[sess[c].id] = sess[c].rec

\* A queue, on disk or in a stale copy, only holds messages that were sent.
QueueWasSent ==
  \A i \in Ids :
    /\ file[i] # None => file[i].pending \subseteq sent[i]
    /\ acked[i] \subseteq sent[i]
    /\ \A c \in Clients : sess[c] # None /\ sess[c].id = i =>
         sess[c].rec.pending \subseteq sent[i]
    /\ file[i] = None /\ archive[i] = None => sent[i] = {}

Inv ==
  /\ TypeOK
  /\ Exclusive
  /\ ReadIsFresh
  /\ QueueWasSent
  /\ QueueExact

USE RegistryAssumption, ClientAssumption

LEMMA InitInv == Init => Inv
  BY DEF Init, Inv, TypeOK, RegistryInit, RegistryTypeOK, Exclusive, ReadIsFresh,
         QueueWasSent, QueueExact, Step

LEMMA NextInv == Inv /\ [Next]_vars => Inv'
<1> SUFFICES ASSUME Inv, [Next]_vars PROVE Inv'
  OBVIOUS
<1> USE DEF Inv, TypeOK, RegistryTypeOK, Record, Session, Step, rvars, local
<1>1. ASSUME NEW c \in Clients, NEW i \in Ids, Load(c, i)
      PROVE  Inv'
  <2>1. TypeOK'
    BY <1>1 DEF Load
  <2>2. Exclusive'
    BY <1>1 DEF Load, Exclusive
  <2>3. ReadIsFresh'
    BY <1>1 DEF Load, Exclusive, ReadIsFresh, Clash, Present
  <2>4. QueueWasSent'
    BY <1>1 DEF Load, Exclusive, ReadIsFresh, QueueWasSent
  <2>5. QueueExact'
    BY <1>1 DEF Load, Exclusive, ReadIsFresh, QueueWasSent, QueueExact
  <2> QED
    BY <2>1, <2>2, <2>3, <2>4, <2>5
<1>2. ASSUME NEW c \in Clients, NEW i \in Ids, NEW x \in Metas, Build(c, i, x)
      PROVE  Inv'
  <2>1. TypeOK'
    BY <1>2 DEF Build
  <2>2. Exclusive'
    BY <1>2 DEF Build, Exclusive
  <2>3. ReadIsFresh'
    BY <1>2 DEF Build, Exclusive, ReadIsFresh, Clash, Present
  <2>4. QueueWasSent'
    BY <1>2 DEF Build, Exclusive, ReadIsFresh, QueueWasSent
  <2>5. QueueExact'
    BY <1>2 DEF Build, Exclusive, ReadIsFresh, QueueWasSent, QueueExact
  <2> QED
    BY <2>1, <2>2, <2>3, <2>4, <2>5
<1>3. ASSUME NEW c \in Clients, Snapshot(c)
      PROVE  Inv'
  <2>1. TypeOK'
    BY <1>3 DEF Snapshot
  <2>2. Exclusive'
    BY <1>3 DEF Snapshot, Exclusive
  <2>3. ReadIsFresh'
    BY <1>3 DEF Snapshot, Exclusive, ReadIsFresh, Clash, Present
  <2>4. QueueWasSent'
    BY <1>3 DEF Snapshot, Exclusive, ReadIsFresh, QueueWasSent
  <2>5. QueueExact'
    BY <1>3 DEF Snapshot, Exclusive, ReadIsFresh, QueueWasSent, QueueExact
  <2> QED
    BY <2>1, <2>2, <2>3, <2>4, <2>5
<1>4. ASSUME NEW c \in Clients, NEW step \in {"saving", "acking"}, NEW n \in Names, NEW x \in Metas, BeginSave(c, step, n, x)
      PROVE  Inv'
  <2>1. TypeOK'
    <3>1. sess[c] \in Session /\ sess[c].rec \in Record
      BY <1>4 DEF BeginSave
    <3>2. sess'[c] = [id |-> sess[c].id, rec |->
             [name |-> n, meta |-> x, pending |-> sess[c].rec.pending]]
      BY <1>4, <3>1 DEF BeginSave
    <3>3. sess' \in [Clients -> Session \cup {None}]
      BY <1>4, <3>1, <3>2 DEF BeginSave
    <3> QED
      BY <1>4, <3>1, <3>3 DEF BeginSave, Acquire
  <2>2. Exclusive'
    BY <1>4 DEF BeginSave, Acquire, Exclusive
  <2>3. ReadIsFresh'
    BY <1>4 DEF BeginSave, Acquire, Exclusive, ReadIsFresh, Clash, Present
  <2>4. QueueWasSent'
    BY <1>4 DEF BeginSave, Acquire, Exclusive, ReadIsFresh, QueueWasSent
  <2>5. QueueExact'
    BY <1>4 DEF BeginSave, Acquire, Exclusive, ReadIsFresh, QueueWasSent, QueueExact
  <2> QED
    BY <2>1, <2>2, <2>3, <2>4, <2>5
<1>5. ASSUME NEW c \in Clients, CommitSave(c)
      PROVE  Inv'
  <2>1. TypeOK'
    <3> DEFINE r == [sess[c].rec EXCEPT !.pending = MergedQueue(c)]
    <3>1. sess[c] \in Session /\ sess[c].rec \in Record
      BY <1>5 DEF CommitSave, ReadIsFresh
    <3>2. MergedQueue(c) \subseteq Msgs
      BY <3>1 DEF MergedQueue, Consumed
    <3>3. r \in Record
      BY <3>1, <3>2
    <3>4. sess' \in [Clients -> Session \cup {None}]
      BY <1>5, <3>1, <3>3 DEF CommitSave
    <3>5. acked' \in [Ids -> SUBSET Msgs]
      BY <1>5, <3>1 DEF CommitSave, Consumed
    <3> QED
      BY <1>5, <3>1, <3>3, <3>4, <3>5 DEF CommitSave, Release
  <2>2. Exclusive'
    BY <1>5 DEF CommitSave, Release, MergedQueue, Consumed, Exclusive
  <2>3. ReadIsFresh'
    BY <1>5 DEF CommitSave, Release, MergedQueue, Consumed, Exclusive, ReadIsFresh, Clash, Present
  <2>4. QueueWasSent'
    BY <1>5 DEF CommitSave, Release, MergedQueue, Consumed, Exclusive, ReadIsFresh, QueueWasSent
  <2>5. QueueExact'
    BY <1>5 DEF CommitSave, Release, MergedQueue, Consumed, Exclusive, ReadIsFresh, QueueWasSent, QueueExact
  <2> QED
    BY <2>1, <2>2, <2>3, <2>4, <2>5
<1>6. ASSUME NEW c \in Clients, NEW i \in Ids, NEW n \in Names, NEW x \in Metas, BeginCreate(c, i, n, x)
      PROVE  Inv'
  <2>1. TypeOK'
    BY <1>6 DEF BeginCreate, Acquire
  <2>2. Exclusive'
    BY <1>6 DEF BeginCreate, Acquire, Exclusive
  <2>3. ReadIsFresh'
    BY <1>6 DEF BeginCreate, Acquire, Exclusive, ReadIsFresh, Clash, Present
  <2>4. QueueWasSent'
    BY <1>6 DEF BeginCreate, Acquire, Exclusive, ReadIsFresh, QueueWasSent
  <2>5. QueueExact'
    BY <1>6 DEF BeginCreate, Acquire, Exclusive, ReadIsFresh, QueueWasSent, QueueExact
  <2> QED
    BY <2>1, <2>2, <2>3, <2>4, <2>5
<1>7. ASSUME NEW c \in Clients, CommitCreate(c)
      PROVE  Inv'
  <2>1. TypeOK'
    BY <1>7 DEF CommitCreate, Release, ReadIsFresh
  <2>2. Exclusive'
    BY <1>7 DEF CommitCreate, Release, Exclusive
  <2>3. ReadIsFresh'
    BY <1>7 DEF CommitCreate, Release, Exclusive, ReadIsFresh, Clash, Present
  <2>4. QueueWasSent'
    BY <1>7 DEF CommitCreate, Release, Exclusive, ReadIsFresh, QueueWasSent
  <2>5. QueueExact'
    <3>1. /\ file[sess[c].id] = None
          /\ sess[c].rec.pending = {}
      BY <1>7 DEF CommitCreate, ReadIsFresh, Clash, Present
    <3> QED
      BY <1>7, <3>1 DEF CommitCreate, QueueWasSent, QueueExact
  <2> QED
    BY <2>1, <2>2, <2>3, <2>4, <2>5
<1>8. ASSUME NEW c \in Clients, NEW i \in Ids, BeginQueue(c, i)
      PROVE  Inv'
  <2>0. file[i] # None /\ file[i] \in Record
    BY <1>8 DEF BeginQueue, Present
  <2>1. TypeOK'
    BY <1>8, <2>0 DEF BeginQueue, Acquire
  <2>2. Exclusive'
    BY <1>8 DEF BeginQueue, Acquire, Exclusive
  <2>3. ReadIsFresh'
    BY <1>8 DEF BeginQueue, Acquire, Exclusive, ReadIsFresh, Clash, Present
  <2>4. QueueWasSent'
    BY <1>8, <2>0 DEF BeginQueue, Acquire, QueueWasSent
  <2>5. QueueExact'
    BY <1>8 DEF BeginQueue, Acquire, Exclusive, ReadIsFresh, QueueWasSent, QueueExact
  <2> QED
    BY <2>1, <2>2, <2>3, <2>4, <2>5
<1>9. ASSUME NEW c \in Clients, NEW m \in Msgs, CommitQueue(c, m)
      PROVE  Inv'
  <2>1. TypeOK'
    <3> DEFINE r == [sess[c].rec EXCEPT !.pending = @ \cup {m}]
    <3>1. sess[c] \in Session /\ sess[c].rec \in Record
      BY <1>9 DEF CommitQueue, ReadIsFresh
    <3>2. r \in Record
      BY <3>1
    <3> QED
      BY <1>9, <3>1, <3>2 DEF CommitQueue, Release
  <2>2. Exclusive'
    BY <1>9 DEF CommitQueue, Release, Exclusive
  <2>3. ReadIsFresh'
    BY <1>9 DEF CommitQueue, Release, Exclusive, ReadIsFresh, Clash, Present
  <2>4. QueueWasSent'
    BY <1>9 DEF CommitQueue, Release, Exclusive, ReadIsFresh, QueueWasSent
  <2>5. QueueExact'
    BY <1>9 DEF CommitQueue, Release, Exclusive, ReadIsFresh, QueueWasSent, QueueExact
  <2> QED
    BY <2>1, <2>2, <2>3, <2>4, <2>5
<1>10. ASSUME NEW c \in Clients, NEW i \in Ids, BeginDelete(c, i)
      PROVE  Inv'
  <2>1. TypeOK'
    BY <1>10 DEF BeginDelete, Acquire
  <2>2. Exclusive'
    BY <1>10 DEF BeginDelete, Acquire, Exclusive
  <2>3. ReadIsFresh'
    BY <1>10 DEF BeginDelete, Acquire, Exclusive, ReadIsFresh, Clash, Present
  <2>4. QueueWasSent'
    BY <1>10 DEF BeginDelete, Acquire, Exclusive, ReadIsFresh, QueueWasSent
  <2>5. QueueExact'
    BY <1>10 DEF BeginDelete, Acquire, Exclusive, ReadIsFresh, QueueWasSent, QueueExact
  <2> QED
    BY <2>1, <2>2, <2>3, <2>4, <2>5
<1>11. ASSUME NEW c \in Clients, WriteArchive(c)
      PROVE  Inv'
  <2>1. TypeOK'
    BY <1>11 DEF WriteArchive, ReadIsFresh
  <2>2. Exclusive'
    BY <1>11 DEF WriteArchive, Exclusive
  <2>3. ReadIsFresh'
    BY <1>11 DEF WriteArchive, Exclusive, ReadIsFresh, Clash, Present
  <2>4. QueueWasSent'
    BY <1>11 DEF WriteArchive, Exclusive, ReadIsFresh, QueueWasSent
  <2>5. QueueExact'
    BY <1>11 DEF WriteArchive, Exclusive, ReadIsFresh, QueueWasSent, QueueExact
  <2> QED
    BY <2>1, <2>2, <2>3, <2>4, <2>5
<1>12. ASSUME NEW c \in Clients, RemoveFile(c)
      PROVE  Inv'
  <2>1. TypeOK'
    BY <1>12 DEF RemoveFile, Release
  <2>2. Exclusive'
    BY <1>12 DEF RemoveFile, Release, Exclusive
  <2>3. ReadIsFresh'
    BY <1>12 DEF RemoveFile, Release, Exclusive, ReadIsFresh, Clash, Present
  <2>4. QueueWasSent'
    BY <1>12 DEF RemoveFile, Release, Exclusive, ReadIsFresh, QueueWasSent
  <2>5. QueueExact'
    BY <1>12 DEF RemoveFile, Release, Exclusive, ReadIsFresh, QueueWasSent, QueueExact
  <2> QED
    BY <2>1, <2>2, <2>3, <2>4, <2>5
<1>13. ASSUME NEW c \in Clients, Fail(c)
      PROVE  Inv'
  <2>1. TypeOK'
    BY <1>13 DEF Fail, Release
  <2>2. Exclusive'
    BY <1>13 DEF Fail, Release, Exclusive
  <2>3. ReadIsFresh'
    BY <1>13 DEF Fail, Release, Exclusive, ReadIsFresh, Clash, Present
  <2>4. QueueWasSent'
    BY <1>13 DEF Fail, Release, Exclusive, ReadIsFresh, QueueWasSent
  <2>5. QueueExact'
    BY <1>13 DEF Fail, Release, Exclusive, ReadIsFresh, QueueWasSent, QueueExact
  <2> QED
    BY <2>1, <2>2, <2>3, <2>4, <2>5
<1>14. ASSUME NEW c \in Clients, Exit(c)
      PROVE  Inv'
  <2>1. TypeOK'
    BY <1>14 DEF Exit
  <2>2. Exclusive'
    BY <1>14 DEF Exit, Exclusive
  <2>3. ReadIsFresh'
    BY <1>14 DEF Exit, Exclusive, ReadIsFresh, Clash, Present
  <2>4. QueueWasSent'
    BY <1>14 DEF Exit, Exclusive, ReadIsFresh, QueueWasSent
  <2>5. QueueExact'
    BY <1>14 DEF Exit, Exclusive, ReadIsFresh, QueueWasSent, QueueExact
  <2> QED
    BY <2>1, <2>2, <2>3, <2>4, <2>5
<1>15. ASSUME NEW c \in Clients, OpenNew(c)
      PROVE  Inv'
  <2>1. TypeOK'
    BY <1>15 DEF OpenNew, ReadIsFresh
  <2>2. Exclusive'
    BY <1>15 DEF OpenNew, Exclusive
  <2>3. ReadIsFresh'
    BY <1>15 DEF OpenNew, Exclusive, ReadIsFresh, Clash, Present
  <2>4. QueueWasSent'
    BY <1>15 DEF OpenNew, QueueWasSent
  <2>5. QueueExact'
    BY <1>15 DEF OpenNew, QueueExact
  <2> QED
    BY <2>1, <2>2, <2>3, <2>4, <2>5
<1>16. CASE UNCHANGED vars
  BY <1>16 DEF vars, Exclusive, ReadIsFresh, QueueWasSent, QueueExact, Clash, Present
<1> HIDE DEF Inv, TypeOK, RegistryTypeOK, Record, Session, Step, rvars, local
<1> QED
  BY <1>1, <1>2, <1>3, <1>4, <1>5, <1>6, <1>7, <1>8, <1>9, <1>10, <1>11, <1>12, <1>13, <1>14, <1>15, <1>16 DEF Next

\* The inductive invariant holds in every reachable state.
THEOREM InvHolds == Spec => []Inv
  BY InitInv, NextInv, PTL DEF Spec

\* Every variable keeps its type, whoever reads, writes, fails or dies.
THEOREM TypeCorrect == Spec => []TypeOK
<1>1. Inv => TypeOK
  BY DEF Inv
<1> QED
  BY <1>1, InvHolds, PTL

\* Session saves with stale copies, queued sends, acknowledgements, deletes
\* and crashes in any order leave the queue of a session that was never
\* deleted equal to what was sent and not yet acknowledged.
THEOREM QueueIsExact == Spec => []QueueExact
<1>1. Inv => QueueExact
  BY DEF Inv
<1> QED
  BY <1>1, InvHolds, PTL

-----------------------------------------------------------------------------
\* Each step of the locked store is one atomic registry operation, or none.
LEMMA StepRefines == Inv /\ [Next]_vars => [RegistryNext]_rvars
<1> SUFFICES ASSUME Inv, [Next]_vars PROVE [RegistryNext]_rvars
  OBVIOUS
<1> USE DEF Inv
<1>1. ASSUME NEW c \in Clients, CommitSave(c)
      PROVE  RegistryNext
  <2> DEFINE i == sess[c].id
             r == [sess[c].rec EXCEPT !.pending = MergedQueue(c)]
  <2>1. /\ i \in Ids
        /\ sess[c].rec \in Record
        /\ cur[c] = file[i]
        /\ archive[i] = None /\ file[i] = None => sess[c].rec.pending = {}
    BY <1>1 DEF CommitSave, ReadIsFresh, TypeOK, Session, QueueWasSent
  <2>2. file' = [file EXCEPT ![i] = r] /\ UNCHANGED <<archive, sent>>
    BY <1>1 DEF CommitSave
  <2>3. CASE cur[c] = None
    <3>1. r = sess[c].rec
      BY <2>1, <2>3 DEF MergedQueue, Record
    <3>2. UNCHANGED acked
      BY <1>1, <2>3 DEF CommitSave
    <3>3. Revive(i, sess[c].rec)
      BY <2>1, <2>2, <2>3, <3>1, <3>2 DEF Revive
    <3> QED
      BY <2>1, <3>3 DEF RegistryNext
  <2>4. CASE cur[c] # None
    <3>1. Consumed(c) \in SUBSET Msgs
      BY DEF Consumed, TypeOK
    <3>2. r = [name |-> sess[c].rec.name, meta |-> sess[c].rec.meta,
               pending |-> file[i].pending \ Consumed(c)]
      BY <2>1, <2>4 DEF MergedQueue, Record
    <3>3. acked' = [acked EXCEPT ![i] =
                      @ \cup (file[i].pending \cap Consumed(c))]
      BY <1>1, <2>1, <2>4 DEF CommitSave
    <3>4. Rewrite(i, sess[c].rec.name, sess[c].rec.meta, Consumed(c))
      BY <2>1, <2>2, <2>4, <3>2, <3>3 DEF Rewrite
    <3> QED
      BY <2>1, <3>1, <3>4 DEF RegistryNext, Record
  <2> QED
    BY <2>3, <2>4
<1>2. ASSUME NEW c \in Clients, CommitCreate(c)
      PROVE  RegistryNext
  <2> DEFINE i == sess[c].id
             n == sess[c].rec.name
             x == sess[c].rec.meta
  <2>1. sess[c] # None /\ ~ Clash(i, n) /\ sess[c].rec.pending = {}
    BY <1>2 DEF CommitCreate, ReadIsFresh
  <2>2. i \in Ids /\ sess[c].rec \in Record
    BY <2>1 DEF TypeOK, Session
  <2>3. /\ n \in Names /\ x \in Metas
        /\ sess[c].rec = [name |-> n, meta |-> x, pending |-> {}]
    BY <2>1, <2>2 DEF Record
  <2>4. file' = [file EXCEPT ![i] = sess[c].rec] /\ UNCHANGED <<archive, sent, acked>>
    BY <1>2 DEF CommitCreate
  <2>5. Create(i, n, x)
    BY <2>1, <2>3, <2>4 DEF Create
  <2> QED
    BY <2>2, <2>3, <2>5 DEF RegistryNext
<1>3. ASSUME NEW c \in Clients, NEW m \in Msgs, CommitQueue(c, m)
      PROVE  RegistryNext
  <2> DEFINE i == sess[c].id
  <2>1. /\ i \in Ids
        /\ file[i] = sess[c].rec
        /\ sess[c].rec \in Record
        /\ sess[c].rec.meta \in Queueable
    BY <1>3 DEF CommitQueue, ReadIsFresh, TypeOK, Session
  <2>2. Enqueue(i, m)
    BY <1>3, <2>1 DEF CommitQueue, Enqueue, TypeOK, RegistryTypeOK, Record
  <2> QED
    BY <2>1, <2>2 DEF RegistryNext
<1>4. ASSUME NEW c \in Clients, WriteArchive(c)
      PROVE  RegistryNext
  <2>1. /\ sess[c].id \in Ids
        /\ sess[c].rec \in Record
        /\ file[sess[c].id] = sess[c].rec
    BY <1>4 DEF WriteArchive, ReadIsFresh, TypeOK, Session
  <2>2. Archive(sess[c].id)
    BY <1>4, <2>1 DEF WriteArchive, Archive, Record
  <2> QED
    BY <2>1, <2>2 DEF RegistryNext
<1>5. ASSUME NEW c \in Clients, RemoveFile(c)
      PROVE  RegistryNext
  <2>1. /\ sess[c].id \in Ids
        /\ sess[c].rec \in Record
        /\ file[sess[c].id] = sess[c].rec
        /\ archive[sess[c].id] = sess[c].rec
    BY <1>5 DEF RemoveFile, ReadIsFresh, TypeOK, Session
  <2>2. Remove(sess[c].id)
    BY <1>5, <2>1 DEF RemoveFile, Remove, Record
  <2> QED
    BY <2>1, <2>2 DEF RegistryNext
<1>6. ASSUME NEW c \in Clients,
             \/ \E i \in Ids : Load(c, i) \/ BeginQueue(c, i) \/ BeginDelete(c, i)
             \/ \E i \in Ids, x \in Metas :
                  Build(c, i, x) \/ \E n \in Names : BeginCreate(c, i, n, x)
             \/ \E step \in {"saving", "acking"}, n \in Names, x \in Metas :
                  BeginSave(c, step, n, x)
             \/ Snapshot(c)
             \/ OpenNew(c)
             \/ Fail(c)
             \/ Exit(c)
      PROVE  UNCHANGED rvars
  BY <1>6 DEF Load, BeginQueue, BeginDelete, Build, BeginCreate, BeginSave,
              Snapshot, OpenNew, Fail, Exit
<1>7. CASE UNCHANGED vars
  BY <1>7 DEF vars, rvars
<1> HIDE DEF Inv
<1> QED
  BY <1>1, <1>2, <1>3, <1>4, <1>5, <1>6, <1>7 DEF Next

\* The locked, multi-step store implements the atomic registry.
THEOREM StoreImplementsRegistry == Spec => RegistrySpec
<1>1. Init => RegistryInit
  BY DEF Init
<1> QED
  BY <1>1, InvHolds, StepRefines, PTL DEF Spec, RegistrySpec

\* A creation never clashes with what is stored when its file is written.
THEOREM CreationsAreApart == Spec => CreatedApart
<1>1. Inv => \A c \in Clients : CommitCreate(c) =>
               ~ Clash(sess[c].id, sess[c].rec.name)
  BY DEF Inv, ReadIsFresh, CommitCreate
<1> QED
  BY <1>1, InvHolds, PTL DEF Spec, CreatedApart

\* No record leaves the registry without an exact copy in the archive.
THEOREM DeletedIsArchived == Spec => RemovedIsArchived
<1> DEFINE A == \A i \in Ids : file[i] # None /\ file'[i] = None =>
                  archive'[i] = file[i]
<1>1. Inv /\ [Next]_vars => [A]_rvars
  <2> SUFFICES ASSUME Inv, RegistryNext PROVE A
    BY StepRefines DEF rvars
  <2> QED
    BY DEF Inv, TypeOK, RegistryTypeOK, RegistryNext, Create, Rewrite, Revive,
           Enqueue, Archive, Remove, Delete, Record
<1> QED
  BY <1>1, InvHolds, PTL DEF Spec, RemovedIsArchived
=============================================================================
