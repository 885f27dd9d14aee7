---------------------------- MODULE SessionStore ----------------------------
(***************************************************************************)
(* FileSessionStore: the JSON session registry that every agent command,   *)
(* detached worker and observer of one machine shares.  The clients are    *)
(* processes.  A client loads a record without a lock, works on its copy   *)
(* for any time and writes it back; every writer holds the exclusive flock *)
(* of .registry.lock while it reads the current state and writes the new   *)
(* one.  A client may fail or die between any two steps; the kernel then   *)
(* releases its flock.                                                     *)
(***************************************************************************)
EXTENDS Registry

CONSTANTS
  Clients,  \* processes that use the registry
  Free,     \* no process holds the registry lock
  Failed,   \* metas of a start that failed before it had a provider session
  Released  \* the name "<name>-failed-<id>" such a start's record is moved to

ASSUME ClientAssumption ==
  /\ Free \notin Clients
  /\ Failed \subseteq Metas
  /\ Released \in [Ids -> Names]
  /\ None \notin [id : Ids, rec : Record]

VARIABLES
  torn,  \* IDs whose <id>.json Create has opened but not (fully) written
  lock,  \* holder of .registry.lock
  pc,    \* the operation a client is in the middle of
  sess,  \* the *Session the client has in memory: an ID and a record
  cur,   \* what saveQueued read under the lock
  snap   \* the queue snapshot of the turn the client runs

vars == <<file, archive, sent, acked, torn, lock, pc, sess, cur, snap>>

local == <<sess, cur, snap>>

Session == [id : Ids, rec : Record]

Step == {"idle", "saving", "acking", "queueing", "creating",
         "writing", "archiving", "removing"}

TypeOK ==
  /\ RegistryTypeOK
  /\ torn \subseteq Ids
  /\ lock \in Clients \cup {Free}
  /\ pc \in [Clients -> Step]
  /\ sess \in [Clients -> Session \cup {None}]
  /\ cur \in [Clients -> Record \cup {None}]
  /\ snap \in [Clients -> SUBSET Msgs]

Init ==
  /\ RegistryInit
  /\ torn = {}
  /\ lock = Free
  /\ pc = [c \in Clients |-> "idle"]
  /\ sess = [c \in Clients |-> None]
  /\ cur = [c \in Clients |-> None]
  /\ snap = [c \in Clients |-> {}]

-----------------------------------------------------------------------------
\* Get, List, Find: a read without the lock.  save renames a finished file
\* into place, so a reader sees the old or the new record, never a mix.
Load(c, i) ==
  /\ pc[c] = "idle"
  /\ file[i] # None
  /\ sess' = [sess EXCEPT ![c] = [id |-> i, rec |-> file[i]]]
  /\ snap' = [snap EXCEPT ![c] = {}]
  /\ UNCHANGED <<rvars, torn, lock, pc, cur>>

\* A start that ends well builds a new record for its reserved name, under
\* the ID the provider gave the session.
Build(c, i, x) ==
  /\ pc[c] = "idle"
  /\ sess[c] # None
  /\ sess' = [sess EXCEPT ![c] = [id |-> i, rec |->
       [name |-> sess[c].rec.name, meta |-> x, pending |-> {}]]]
  /\ snap' = [snap EXCEPT ![c] = {}]
  /\ UNCHANGED <<rvars, torn, lock, pc, cur>>

\* A resume notes the queue it is about to prepend to its prompt.
Snapshot(c) ==
  /\ pc[c] = "idle"
  /\ sess[c] # None
  /\ file[sess[c].id] # None
  /\ snap' = [snap EXCEPT ![c] = file[sess[c].id].pending]
  /\ UNCHANGED <<rvars, torn, lock, pc, sess, cur>>

-----------------------------------------------------------------------------
\* Mutant of Acquire: the flock is shared, or not waited for.
AcquireShared(c, step) ==
  /\ pc[c] = "idle"
  /\ lock' = c
  /\ pc' = [pc EXCEPT ![c] = step]

Acquire(c, step) ==
  /\ pc[c] = "idle"
  /\ lock = Free
  /\ lock' = c
  /\ pc' = [pc EXCEPT ![c] = step]

\* The deferred unlock; what was read under the lock goes out of scope.
Release(c) ==
  /\ lock' = Free
  /\ pc' = [pc EXCEPT ![c] = "idle"]
  /\ cur' = [cur EXCEPT ![c] = None]

\* releaseFailedStartName: the only change of a name.
NewNames(r, i) ==
  {r.name} \cup (IF r.meta \in Failed THEN {Released[i]} ELSE {})

\* saveQueued up to the read of the current record.  The client has changed
\* its copy since it loaded it; SaveQueuedTurn ("acking") gives up when the
\* file is gone, Save ("saving") goes on, and both when it does not parse.
BeginSave(c, step, n, x) ==
  /\ sess[c] # None
  /\ Acquire(c, step)
  /\ sess[c].id \notin torn
  /\ n \in NewNames(sess[c].rec, sess[c].id)
  /\ step = "acking" => file[sess[c].id] # None /\ n = sess[c].rec.name
  /\ sess' = [sess EXCEPT ![c].rec.name = n, ![c].rec.meta = x]
  /\ cur' = [cur EXCEPT ![c] = file[sess[c].id]]
  /\ UNCHANGED <<rvars, torn, snap>>

Consumed(c) == IF pc[c] = "acking" THEN snap[c] ELSE {}

\* Mutant of MergedQueue: the writer's own, stale copy of the queue.
StaleQueue(c) == sess[c].rec.pending \ Consumed(c)

\* The queue saveQueued writes: the stored one without the acknowledged
\* messages; the caller's own when there is no stored record.
MergedQueue(c) ==
  IF cur[c] = None THEN sess[c].rec.pending ELSE cur[c].pending \ Consumed(c)

\* The rest of saveQueued: merge, write, rename, unlock.
CommitSave(c) ==
  LET i == sess[c].id
      r == [sess[c].rec EXCEPT !.pending = MergedQueue(c)]
  IN
  /\ pc[c] \in {"saving", "acking"}
  /\ file' = [file EXCEPT ![i] = r]
  /\ sess' = [sess EXCEPT ![c].rec = r]
  /\ acked' = IF cur[c] = None THEN acked
              ELSE [acked EXCEPT ![i] = @ \cup (cur[c].pending \cap Consumed(c))]
  /\ Release(c)
  /\ UNCHANGED <<archive, sent, torn, snap>>

\* Mutant of BeginCreate: only names are compared, not names with IDs.
CreateByName(c, i, n, x) ==
  /\ Acquire(c, "creating")
  /\ file[i] = None
  /\ \A e \in Present : file[e].name # n
  /\ sess' = [sess EXCEPT ![c] =
       [id |-> i, rec |-> [name |-> n, meta |-> x, pending |-> {}]]]
  /\ UNCHANGED <<rvars, torn, cur, snap>>

\* Create: lock, list, refuse a clash, open with O_EXCL and write.  Unlike
\* save it writes the file in place; List skips and Get refuses a file that
\* is not complete.
BeginCreate(c, i, n, x) ==
  /\ Acquire(c, "creating")
  /\ ~ Clash(i, n)
  /\ sess' = [sess EXCEPT ![c] =
       [id |-> i, rec |-> [name |-> n, meta |-> x, pending |-> {}]]]
  /\ UNCHANGED <<rvars, torn, cur, snap>>

OpenNew(c) ==
  /\ pc[c] = "creating"
  /\ sess[c].id \notin torn /\ file[sess[c].id] = None
  /\ torn' = torn \cup {sess[c].id}
  /\ pc' = [pc EXCEPT ![c] = "writing"]
  /\ UNCHANGED <<rvars, lock, local>>

CommitCreate(c) ==
  /\ pc[c] = "writing"
  /\ file' = [file EXCEPT ![sess[c].id] = sess[c].rec]
  /\ torn' = torn \ {sess[c].id}
  /\ Release(c)
  /\ UNCHANGED <<archive, sent, acked, sess, snap>>

\* QueueMessage: lock, list, take the one record of that name ...
BeginQueue(c, i) ==
  /\ Acquire(c, "queueing")
  /\ i \in Present
  /\ {e \in Present : file[e].name = file[i].name} = {i}
  /\ file[i].meta \in Queueable
  /\ sess' = [sess EXCEPT ![c] = [id |-> i, rec |-> file[i]]]
  /\ UNCHANGED <<rvars, torn, cur, snap>>

\* ... append a message with a new uuid, save and unlock; the caller only
\* prints the name of the session it gets back.
CommitQueue(c, m) ==
  LET i == sess[c].id
      r == [sess[c].rec EXCEPT !.pending = @ \cup {m}]
  IN
  /\ pc[c] = "queueing"
  /\ \A j \in Ids : m \notin sent[j]
  /\ file' = [file EXCEPT ![i] = r]
  /\ sess' = [sess EXCEPT ![c] = None]
  /\ sent' = [sent EXCEPT ![i] = @ \cup {m}]
  /\ Release(c)
  /\ UNCHANGED <<archive, acked, torn, snap>>

\* Delete: lock and read, write the archive copy, remove the record.
BeginDelete(c, i) ==
  /\ file[i] # None
  /\ Acquire(c, "archiving")
  /\ sess' = [sess EXCEPT ![c] = [id |-> i, rec |-> file[i]]]
  /\ UNCHANGED <<rvars, torn, cur, snap>>

\* Mutant of WriteArchive: an older archive copy is kept.
KeepArchive(c) ==
  /\ pc[c] = "archiving"
  /\ archive' = [archive EXCEPT ![sess[c].id] = IF @ = None THEN sess[c].rec ELSE @]
  /\ pc' = [pc EXCEPT ![c] = "removing"]
  /\ UNCHANGED <<file, sent, acked, torn, lock, local>>

WriteArchive(c) ==
  /\ pc[c] = "archiving"
  /\ archive' = [archive EXCEPT ![sess[c].id] = sess[c].rec]
  /\ pc' = [pc EXCEPT ![c] = "removing"]
  /\ UNCHANGED <<file, sent, acked, torn, lock, local>>

RemoveFile(c) ==
  /\ pc[c] = "removing"
  /\ file' = [file EXCEPT ![sess[c].id] = None]
  /\ sess' = [sess EXCEPT ![c] = None]
  /\ Release(c)
  /\ UNCHANGED <<archive, sent, acked, torn, snap>>

\* An I/O error inside the critical section: the deferred unlock runs, the
\* caller keeps its copy.  Delete keeps the archive it has already written,
\* Create removes the file it could not write.
Fail(c) ==
  /\ pc[c] # "idle"
  /\ torn' = IF pc[c] = "writing" THEN torn \ {sess[c].id} ELSE torn
  /\ Release(c)
  /\ UNCHANGED <<rvars, sess, snap>>

\* The process ends or is killed anywhere; the kernel drops its flock.
Exit(c) ==
  /\ lock' = IF lock = c THEN Free ELSE lock
  /\ pc' = [pc EXCEPT ![c] = "idle"]
  /\ sess' = [sess EXCEPT ![c] = None]
  /\ cur' = [cur EXCEPT ![c] = None]
  /\ snap' = [snap EXCEPT ![c] = {}]
  /\ UNCHANGED <<rvars, torn>>

-----------------------------------------------------------------------------
Next ==
  \E c \in Clients :
    \/ \E i \in Ids : Load(c, i) \/ BeginQueue(c, i) \/ BeginDelete(c, i)
    \/ \E i \in Ids, x \in Metas :
         Build(c, i, x) \/ \E n \in Names : BeginCreate(c, i, n, x)
    \/ \E step \in {"saving", "acking"}, n \in Names, x \in Metas :
         BeginSave(c, step, n, x)
    \/ \E m \in Msgs : CommitQueue(c, m)
    \/ Snapshot(c)
    \/ CommitSave(c)
    \/ OpenNew(c)
    \/ CommitCreate(c)
    \/ WriteArchive(c)
    \/ RemoveFile(c)
    \/ Fail(c)
    \/ Exit(c)

Spec == Init /\ [][Next]_vars

-----------------------------------------------------------------------------
\* A new record is apart from every stored ID and name when it is written,
\* and not only when Create looked: no process slips a record under the same
\* name, or an ID a name already stands for, between the test and the file.
CreatedApart ==
  [][\A c \in Clients : CommitCreate(c) =>
       ~ Clash(sess[c].id, sess[c].rec.name)]_vars

\* What the code does NOT guarantee.  A message enters a queue only by being
\* sent (docs/AgentMessaging.md: "ordinary session updates cannot drop or
\* resurrect messages").  Save writes the caller's own queue when the file is
\* gone, so a command that outlives a delete brings the session back.
NoResurrection ==
  [][\A i \in Ids : file[i] = None /\ file'[i] # None =>
       file'[i].pending \cap sent[i] = {}]_rvars
=============================================================================
