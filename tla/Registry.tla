------------------------------ MODULE Registry ------------------------------
(***************************************************************************)
(* What the session registry promises to the agent commands, without its   *)
(* lock, its files or its readers: every operation is one atomic step on   *)
(* the records.  SessionStore, which takes the registry lock and works in  *)
(* several steps, implements this module; AgentTurns builds the turn       *)
(* lifecycle on its operators.                                             *)
(*                                                                         *)
(* A record is reduced to what the properties tell apart: its short name,  *)
(* the queue of messages for the next resume, and "meta", which stands for *)
(* every other field (status, PIDs, turn counters, ...).  The queue is a   *)
(* set: the code only ever appends to the list and filters it in place, so *)
(* its order is the order in which the messages were accepted.             *)
(***************************************************************************)
CONSTANTS
  Ids,        \* registry IDs (the <id> of <id>.json)
  Names,      \* short session names; a name may equal an ID
  Metas,      \* values of the remaining fields of a record
  Queueable,  \* the metas QueueMessage accepts messages for
  Msgs,       \* message IDs (a fresh uuid per message)
  None        \* "no such file", "no session in memory"

ASSUME RegistryAssumption ==
  /\ Queueable \subseteq Metas
  /\ None \notin [name : Names, meta : Metas, pending : SUBSET Msgs]

VARIABLES
  file,     \* <id>.json, or None
  archive,  \* deleted/<id>.json, or None
  sent,     \* history: the messages accepted for each ID
  acked     \* history: the messages of each ID some turn acknowledged

rvars == <<file, archive, sent, acked>>

Record == [name : Names, meta : Metas, pending : SUBSET Msgs]

RegistryTypeOK ==
  /\ file \in [Ids -> Record \cup {None}]
  /\ archive \in [Ids -> Record \cup {None}]
  /\ sent \in [Ids -> SUBSET Msgs]
  /\ acked \in [Ids -> SUBSET Msgs]

RegistryInit ==
  /\ file = [i \in Ids |-> None]
  /\ archive = [i \in Ids |-> None]
  /\ sent = [i \in Ids |-> {}]
  /\ acked = [i \in Ids |-> {}]

Present == {i \in Ids : file[i] # None}

\* Create's reservation test: an ID and a name share one namespace.
Clash(i, n) == \E e \in Present : {e, file[e].name} \cap {i, n} # {}

-----------------------------------------------------------------------------
\* Create: a new record under a free ID and a free name.
Create(i, n, x) ==
  /\ ~ Clash(i, n)
  /\ file' = [file EXCEPT ![i] = [name |-> n, meta |-> x, pending |-> {}]]
  /\ UNCHANGED <<archive, sent, acked>>

\* Save and SaveQueuedTurn over an existing record: the caller's fields
\* replace the stored ones, the stored queue loses exactly "consumed".
Rewrite(i, n, x, consumed) ==
  /\ file[i] # None
  /\ file' = [file EXCEPT ![i] = [name |-> n, meta |-> x,
                                  pending |-> @.pending \ consumed]]
  /\ acked' = [acked EXCEPT ![i] = @ \cup (file[i].pending \cap consumed)]
  /\ UNCHANGED <<archive, sent>>

\* Save of a record that has no file: the caller's own copy becomes the file.
\* Unless the ID was deleted before, that copy carries no message.  The name
\* is not tested again: a Save is where names can collide.
Revive(i, r) ==
  /\ file[i] = None
  /\ archive[i] = None => r.pending = {}
  /\ file' = [file EXCEPT ![i] = r]
  /\ UNCHANGED <<archive, sent, acked>>

\* QueueMessage: one fresh message at the end of an existing queue.
Enqueue(i, m) ==
  /\ file[i] # None
  /\ file[i].meta \in Queueable
  /\ \A j \in Ids : m \notin sent[j]
  /\ file' = [file EXCEPT ![i].pending = @ \cup {m}]
  /\ sent' = [sent EXCEPT ![i] = @ \cup {m}]
  /\ UNCHANGED <<archive, acked>>

\* Delete, first half: the record is copied to the archive.
Archive(i) ==
  /\ file[i] # None
  /\ archive' = [archive EXCEPT ![i] = file[i]]
  /\ UNCHANGED <<file, sent, acked>>

\* Delete, second half: the record goes only once its archive is exact.
Remove(i) ==
  /\ file[i] # None
  /\ archive[i] = file[i]
  /\ file' = [file EXCEPT ![i] = None]
  /\ UNCHANGED <<archive, sent, acked>>

\* Both halves of Delete, for a client that does not look in between.
Delete(i) ==
  /\ file[i] # None
  /\ archive' = [archive EXCEPT ![i] = file[i]]
  /\ file' = [file EXCEPT ![i] = None]
  /\ UNCHANGED <<sent, acked>>

RegistryNext ==
  \E i \in Ids :
    \/ \E n \in Names, x \in Metas :
         \/ Create(i, n, x)
         \/ \E consumed \in SUBSET Msgs : Rewrite(i, n, x, consumed)
    \/ \E r \in Record : Revive(i, r)
    \/ \E m \in Msgs : Enqueue(i, m)
    \/ Archive(i)
    \/ Remove(i)
    \/ Delete(i)

RegistrySpec == RegistryInit /\ [][RegistryNext]_rvars

-----------------------------------------------------------------------------
\* As long as a session was never deleted, its stored queue is exactly the
\* messages accepted for it that no turn has acknowledged: whatever stale
\* copies the commands write back, nothing is dropped and nothing comes back
\* (session_queue.go: "they must neither drop nor resurrect messages").
QueueExact ==
  \A i \in Ids : file[i] # None /\ archive[i] = None =>
    file[i].pending = sent[i] \ acked[i]

\* A record that leaves the registry is in the archive, with the queue it had.
RemovedIsArchived ==
  [][\A i \in Ids : file[i] # None /\ file'[i] = None =>
       archive'[i] = file[i]]_rvars
=============================================================================
