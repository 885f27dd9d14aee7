----------------------------- MODULE AgentTurns -----------------------------
(***************************************************************************)
(* The life of an agent turn: harnez processes that start, resume, detach, *)
(* await, stop, rate, delete and message exec sessions, and the provider   *)
(* CLIs they run.  Every process runs one command and meets the others     *)
(* only in the session registry, whose operations are the atomic ones of   *)
(* Registry (SessionStore implements them under the flock).  What is read  *)
(* is a private copy; other processes run before it is written back.       *)
(* A process stands for its PID and start time, which are never reused.    *)
(***************************************************************************)
EXTENDS Naturals, FiniteSets

CONSTANTS
  Ids, Names, Msgs, None,
  Procs,     \* harnez processes
  Allowed,   \* Allowed[p]: the commands p may turn out to be
  Killable,  \* processes that may be killed or interrupted from outside
  Existing,  \* the sets of sessions a run may begin with
  MaxTurn,   \* bound on the turns of a session
  DiskFails  \* whether recording a worker or renaming a failed start may fail

Commands == {"start", "startd", "resume", "resumed", "worker",
             "wait", "stop", "rate", "delete"}

ASSUME TurnAssumption ==
  /\ None \notin Procs /\ IsFiniteSet(Procs)
  /\ Allowed \in [Procs -> SUBSET Commands]
  /\ Killable \subseteq Procs
  /\ Existing \subseteq SUBSET Ids /\ Existing # {}
  /\ MaxTurn \in Nat \ {0}
  /\ DiskFails \in BOOLEAN

VARIABLES
  file, archive, sent, acked,  \* the registry
  pc,       \* where a process stands in its command
  cmd,      \* the command; a worker is a "startw" or a "resumew"
  boss,     \* the process that launched it
  sess,     \* its *Session: an ID and a record
  cur,      \* a second record it holds (observer, wrap-up, undo copy)
  carried,  \* queued messages in the prompt text a worker was given
  snap,     \* the queue snapshot it put in front of its prompt
  out,      \* how its turn ended
  known,    \* the process tree a stop has discovered
  child,    \* the processes whose provider CLI is alive
  sig,      \* the processes that received SIGINT, SIGTERM or SIGHUP
  told,     \* history: the messages a successful turn of a session was told
  outcome   \* history: how the latest turn ended, once its process saved it

\* The name a failed start has once a new start took its own over: it is made
\* of the old name and the ID, and no start asks for such a name.
Aside(i) == <<"failed", i>>
ASSUME AsideAssumption == \A i \in Ids : Aside(i) \notin Names
AllNames == Names \cup {Aside(i) : i \in Ids}

store == <<file, archive, sent, acked>>
priv  == <<sess, cur, carried, snap, out, known>>
os    == <<cmd, boss, child, sig>>
hist  == <<told, outcome>>
vars  == <<file, archive, sent, acked, pc, cmd, boss, sess, cur, carried, snap,
           out, known, child, sig, told, outcome>>

Status == {"running", "completed", "failed", "stopped", "delete-failed"}
Pid == Procs \cup {None}
\* "psid" says that the record has a ProviderSessionID.
Meta == [status : Status, proc : Pid, caller : Pid, prov : Pid, worker : Pid,
         turn : Nat, psid : BOOLEAN]

INSTANCE Registry WITH
  Names <- AllNames, Metas <- Meta, Queueable <- {x \in Meta : x.status # "delete-failed"}

ASSUME NoneAssumption ==
  /\ None \notin Status \cup Commands \cup {"startw", "resumew"}
  /\ None \notin Record \cup [id : Ids, rec : Record]

Location ==
  {"new", "gone", "release", "reserve", "spawn", "observe", "early", "event", "turn", "report",
   "swap", "wrap", "wrapup", "exit", "check", "snapshot", "claim", "launch",
   "register", "watch", "poll", "reread", "find", "scan", "confirm",
   "condemn", "stop", "rate", "delete"}

TypeOK ==
  /\ RegistryTypeOK
  /\ pc \in [Procs -> Location]
  /\ cmd \in [Procs -> Commands \cup {"startw", "resumew", None}]
  /\ boss \in [Procs -> Pid]
  /\ sess \in [Procs -> [id : Ids, rec : Record] \cup {None}]
  /\ cur \in [Procs -> Record \cup {None}]
  /\ carried \in [Procs -> SUBSET Msgs]
  /\ snap \in [Procs -> SUBSET Msgs]
  /\ out \in [Procs -> {"completed", "failed", "stopped", None}]
  /\ known \in [Procs -> SUBSET Procs]
  /\ child \subseteq Procs
  /\ sig \subseteq Procs
  /\ told \in [Ids -> SUBSET Msgs]
  /\ outcome \in [Ids -> Status \cup {None}]

\* A session whose first turn was completed by a process that is long gone;
\* None stands for its PIDs, too, which no living process matches.
Idle == [status |-> "completed", proc |-> None, caller |-> None,
         prov |-> None, worker |-> None, turn |-> 1, psid |-> TRUE]
\* One whose start failed before its provider announced a session.
Unborn == [Idle EXCEPT !.status = "failed", !.turn = 0, !.psid = FALSE]

Init ==
  /\ \E n \in Names, E \in Existing, x \in {Idle, Unborn} :
       file = [i \in Ids |-> IF i \in E
                             THEN [name |-> n, meta |-> x, pending |-> {}]
                             ELSE None]
  /\ archive = [i \in Ids |-> None]
  /\ sent = [i \in Ids |-> {}]
  /\ acked = [i \in Ids |-> {}]
  /\ pc = [p \in Procs |-> "new"]
  /\ cmd = [p \in Procs |-> None]
  /\ boss = [p \in Procs |-> None]
  /\ sess = [p \in Procs |-> None]
  /\ cur = [p \in Procs |-> None]
  /\ carried = [p \in Procs |-> {}]
  /\ snap = [p \in Procs |-> {}]
  /\ out = [p \in Procs |-> None]
  /\ known = [p \in Procs |-> {}]
  /\ child = {}
  /\ sig = {}
  /\ told = [i \in Ids |-> {}]
  /\ outcome = [i \in Ids |-> None]

-----------------------------------------------------------------------------
Alive == {p \in Procs : pc[p] \notin {"new", "gone"}}

\* sessionRoots: the harnez processes a record names as its writers.
Roots(x) ==
  {x.worker} \cup (IF x.proc # None THEN {x.proc}
                   ELSE IF x.status = "running" THEN {x.caller} ELSE {})

\* TreeMembers: the living roots with their workers, and the provider CLIs
\* that are children of these or the leader of the recorded group.
Tree(x) ==
  LET r == Roots(x) \cap Alive IN r \cup {w \in Alive : boss[w] \in r}
Providers(x) == child \cap (Tree(x) \cup {x.prov})
Writers(x) == ({"harnez"} \X Tree(x)) \cup ({"provider"} \X Providers(x))

Id(p) == sess[p].id
MetaOf(p) == sess[p].rec.meta
IsStart(p) == cmd[p] \in {"start", "startw"}
IsWorker(p) == cmd[p] \in {"startw", "resumew"}

At(p, l) == pc[p] = l
Go(p, l) == pc' = [pc EXCEPT ![p] = l]

\* Processes end: their memory is gone.
LeaveAll(S) ==
  LET Clear(f, v) == [q \in Procs |-> IF q \in S THEN v ELSE f[q]] IN
  /\ pc' = Clear(pc, "gone")
  /\ sess' = Clear(sess, None)
  /\ cur' = Clear(cur, None)
  /\ carried' = Clear(carried, {})
  /\ snap' = Clear(snap, {})
  /\ out' = Clear(out, None)
  /\ known' = Clear(known, {})
Leave(p) == LeaveAll({p})

\* Mutant of Put: only an existing file is written, the error is ignored.
PutExisting(i, r) ==
  IF file[i] # None THEN Rewrite(i, r.name, r.meta, {}) ELSE UNCHANGED store

\* FileSessionStore.Save of record r under ID i.
Put(i, r) == IF file[i] # None THEN Rewrite(i, r.name, r.meta, {}) ELSE Revive(i, r)
\* ... of the process's own session, with the new fields x.
Save(p, x) == Put(Id(p), [sess[p].rec EXCEPT !.meta = x])
\* ... which it keeps using: saveQueued also replaced its queue.
SaveOn(p, x) ==
  /\ Save(p, x)
  /\ sess' = [sess EXCEPT ![p].rec = file'[Id(p)]]

\* A uuid that nobody has used.
Fresh(i) ==
  /\ file[i] = None /\ archive[i] = None
  /\ \A q \in Procs : sess[q] # None => Id(q) # i

Begin(p, c) ==
  /\ At(p, "new")
  /\ c \in Allowed[p]
  /\ cmd' = [cmd EXCEPT ![p] = c]
  /\ UNCHANGED <<boss, child, sig, hist>>

\* A command resolves its session by name and keeps the record it read.
Open(p, c, i, l) ==
  /\ Begin(p, c)
  /\ i \in Present
  /\ sess' = [sess EXCEPT ![p] = [id |-> i, rec |-> file[i]]]
  /\ Go(p, l)
  /\ UNCHANGED <<store, cur, carried, snap, out, known>>

-----------------------------------------------------------------------------
\* runStart: reserve the name and the ID.  In the foreground the record
\* carries the process itself, before a detach only the caller.
Reservation(p, c) ==
  [status |-> "running", caller |-> p, prov |-> None, turn |-> 0, psid |-> FALSE,
   proc |-> IF c = "start" THEN p ELSE None, worker |-> None]
Enter(p, c, i, n) ==
  /\ Fresh(i)
  /\ Create(i, n, Reservation(p, c))
  /\ sess' = [sess EXCEPT ![p] = [id |-> i, rec |-> file'[i]]]
  /\ Go(p, IF c = "start" THEN "spawn" ELSE "launch")
  /\ UNCHANGED <<cur, carried, snap, out, known>>

Start(p, c, i, n) ==
  /\ c \in {"start", "startd"}
  /\ Begin(p, c)
  /\ Enter(p, c, i, n)

\* releaseFailedStartName: a start that failed before it had a provider
\* session gives its name up to the next one, which renames the record it
\* found, saves that copy and goes on.
Releasable(x) == x.status = "failed" /\ ~ x.psid

StartFinds(p, c, i) ==
  /\ c \in {"start", "startd"}
  /\ Open(p, c, i, "release")
  /\ file[i].name \in Names
  /\ Releasable(file[i].meta)

Release(p) ==
  /\ At(p, "release")
  /\ Put(Id(p), [sess[p].rec EXCEPT !.name = Aside(Id(p))])
  /\ Go(p, "reserve")
  /\ UNCHANGED <<priv, os, hist>>

Reserve(p, i) ==
  /\ At(p, "reserve")
  /\ Enter(p, cmd[p], i, sess[p].rec.name)
  /\ UNCHANGED <<os, hist>>

\* The name is taken, by any other session.
StartRefused(p, c, n) ==
  /\ c \in {"start", "startd"}
  /\ Begin(p, c)
  /\ \E e \in Present : file[e].name = n /\ ~ Releasable(file[e].meta)
  /\ Leave(p)
  /\ UNCHANGED store

\* The failed start could not be renamed, or another one took the name first.
ReleaseFails(p) ==
  /\ \/ At(p, "release") /\ DiskFails
     \/ At(p, "reserve") /\ \E e \in Present : file[e].name = sess[p].rec.name
  /\ Leave(p)
  /\ UNCHANGED <<store, os, hist>>

\* runResume: read the session, check it for live writers, replace a stale
\* "running", take the queue snapshot, claim the session.
Resume(p, c, i) ==
  /\ c \in {"resume", "resumed"}
  /\ Open(p, c, i, "check")
  /\ file[i].meta.turn < MaxTurn

ResumeRefused(p) ==
  /\ At(p, "check")
  /\ Writers(MetaOf(p)) # {}
  /\ Leave(p)
  /\ UNCHANGED <<store, os, hist>>

ResumeChecked(p) ==
  /\ At(p, "check")
  /\ Writers(MetaOf(p)) = {}
  /\ IF MetaOf(p).status = "running"
     THEN SaveOn(p, [MetaOf(p) EXCEPT !.status = "failed", !.proc = None])
     ELSE UNCHANGED <<store, sess>>
  /\ Go(p, "snapshot")
  /\ UNCHANGED <<cur, carried, snap, out, known, os, hist>>

Snapshot(p) ==
  /\ At(p, "snapshot")
  /\ file[Id(p)] # None
  /\ snap' = [snap EXCEPT ![p] = file[Id(p)].pending]
  /\ Go(p, IF IsWorker(p) THEN "spawn" ELSE "claim")
  /\ UNCHANGED <<store, sess, cur, carried, out, known, os, hist>>

\* The session was deleted under the resume; a worker wraps up its error.
SnapshotFails(p) ==
  /\ pc[p] \in {"snapshot", "reread"}
  /\ file[Id(p)] = None
  /\ IF IsWorker(p)
     THEN /\ out' = [out EXCEPT ![p] = "failed"]
          /\ Go(p, "wrap")
          /\ UNCHANGED <<sess, cur, carried, snap, known>>
     ELSE Leave(p)
  /\ UNCHANGED <<store, os, hist>>

\* The record says "running" from here on; a detaching resume leaves the
\* PID fields as they were and keeps an undo copy.
Claim(p) ==
  /\ At(p, "claim")
  /\ IF cmd[p] = "resume"
     THEN /\ SaveOn(p, [MetaOf(p) EXCEPT !.status = "running", !.proc = p])
          /\ Go(p, "spawn")
          /\ UNCHANGED cur
     ELSE /\ SaveOn(p, [MetaOf(p) EXCEPT !.status = "running"])
          /\ Go(p, "launch")
          /\ cur' = [cur EXCEPT ![p] = sess[p].rec]
  /\ outcome' = [outcome EXCEPT ![Id(p)] = None]
  /\ UNCHANGED <<carried, snap, out, known, os, told>>

-----------------------------------------------------------------------------
\* launchForegroundWorker / launchDetachedWithPreflight: start the worker
\* with the prompt text, then record its PID, then watch it for a while.
Launch(p, w) ==
  /\ At(p, "launch")
  /\ At(w, "new") /\ "worker" \in Allowed[w]
  /\ cmd' = [cmd EXCEPT ![w] = IF cmd[p] = "startd" THEN "startw" ELSE "resumew"]
  /\ boss' = [boss EXCEPT ![w] = p]
  /\ carried' = [carried EXCEPT ![w] = snap[p]]
  /\ sess' = [sess EXCEPT ![w] = sess[p]]
  /\ pc' = [pc EXCEPT ![p] = "register", ![w] = "poll"]
  /\ UNCHANGED <<store, cur, snap, out, known, child, sig, hist>>

LaunchFails(p) ==
  /\ At(p, "launch")
  /\ IF cmd[p] = "startd"
     THEN Save(p, [MetaOf(p) EXCEPT !.status = "failed"])
     ELSE Put(Id(p), cur[p])
  /\ Leave(p)
  /\ UNCHANGED <<os, hist>>

Register(p, w) ==
  /\ At(p, "register")
  /\ boss[w] = p
  /\ SaveOn(p, [MetaOf(p) EXCEPT !.status = "running", !.proc = w, !.worker = w])
  /\ Go(p, "watch")
  /\ UNCHANGED <<cur, carried, snap, out, known, os, hist>>

\* The record cannot be written: the worker is killed.
RegisterFails(p, w) ==
  /\ DiskFails
  /\ At(p, "register")
  /\ boss[w] = p
  /\ LeaveAll({p, w})
  /\ UNCHANGED <<store, os, hist>>

\* The turn detached after the timeout, or the worker ended before.
Watch(p) ==
  /\ At(p, "watch")
  /\ Leave(p)
  /\ UNCHANGED <<store, os, hist>>

\* The worker runs its turn only once the record names it.
Poll(w) ==
  /\ At(w, "poll")
  /\ file[Id(w)] # None
  /\ file[Id(w)].meta.proc = w
  /\ Go(w, IF cmd[w] = "startw" THEN "spawn" ELSE "reread")
  /\ UNCHANGED <<store, priv, os, hist>>

\* ... and gives up after a hundred tries, or when the record is gone.
PollFails(w) ==
  /\ At(w, "poll")
  /\ file[Id(w)] # None => file[Id(w)].meta.proc # w
  /\ Leave(w)
  /\ UNCHANGED <<store, os, hist>>

\* A resume worker enters runResume, which checks no writers for it.
Reread(w) ==
  /\ At(w, "reread")
  /\ file[Id(w)] # None
  /\ sess' = [sess EXCEPT ![w].rec = file[Id(w)]]
  /\ Go(w, "snapshot")
  /\ UNCHANGED <<store, cur, carried, snap, out, known, os, hist>>

-----------------------------------------------------------------------------
\* The provider CLI runs in its own process group; the observer records it
\* before its output is read.
Spawn(p) ==
  /\ At(p, "spawn")
  /\ file[Id(p)] # None
  /\ cur' = [cur EXCEPT ![p] = file[Id(p)]]
  /\ child' = child \cup {p}
  /\ Go(p, "observe")
  /\ UNCHANGED <<store, sess, carried, snap, out, known, cmd, boss, sig, hist>>

\* The CLI does not start, or its session is gone: the turn has failed.
SpawnFails(p) ==
  /\ At(p, "spawn")
  /\ out' = [out EXCEPT ![p] = IF p \in sig THEN "stopped" ELSE "failed"]
  /\ Go(p, "report")
  /\ UNCHANGED <<store, sess, cur, carried, snap, known, os, hist>>

Observe(p) ==
  /\ At(p, "observe")
  /\ Put(Id(p), [cur[p] EXCEPT !.meta.prov = p])
  /\ sess' = IF IsStart(p) THEN sess ELSE [sess EXCEPT ![p].rec.meta.prov = p]
  /\ cur' = [cur EXCEPT ![p] = None]
  /\ Go(p, IF IsStart(p) THEN "early" ELSE "turn")
  /\ UNCHANGED <<carried, snap, out, known, os, hist>>

\* The record a start falls back on when its reservation is gone.
InitialSession(p) ==
  [name |-> sess[p].rec.name, pending |-> {},
   meta |-> [status |-> "running", proc |-> None, caller |-> p, prov |-> None,
             worker |-> None, turn |-> 0, psid |-> FALSE]]

\* The provider may announce its session ID during a start: the record is
\* read (or rebuilt, if it is gone) and saved with it.
ReadEvent(p) ==
  /\ At(p, "early")
  /\ cur' = [cur EXCEPT ![p] =
       IF file[Id(p)] # None THEN file[Id(p)] ELSE InitialSession(p)]
  /\ Go(p, "event")
  /\ UNCHANGED <<store, sess, carried, snap, out, known, os, hist>>

SaveEvent(p) ==
  /\ At(p, "event")
  /\ Put(Id(p), [cur[p] EXCEPT !.meta.psid = TRUE])
  /\ cur' = [cur EXCEPT ![p] = None]
  /\ Go(p, "turn")
  /\ UNCHANGED <<sess, carried, snap, out, known, os, hist>>

\* The provider CLI is done, or was killed because of a signal.
EndTurn(p, o) ==
  /\ pc[p] \in {"early", "turn"}
  /\ o = "completed" => p \in child
  /\ o = "stopped" => p \in sig
  /\ o = "failed" => p \notin sig
  /\ out' = [out EXCEPT ![p] = o]
  /\ child' = child \ {p}
  /\ told' = IF o = "completed"
             THEN [told EXCEPT ![Id(p)] = @ \cup carried[p] \cup snap[p]]
             ELSE told
  /\ Go(p, "report")
  /\ UNCHANGED <<store, sess, cur, carried, snap, known, cmd, boss, sig, outcome>>

-----------------------------------------------------------------------------
\* A successful start builds a new record.  In-process it is stored under
\* the provider's ID, if there is one, and the reserved one is deleted; a worker
\* keeps the ID and copies the PIDs it knows of, which WorkerPID is not one of.
FinishStart(p, j) ==
  LET i == Id(p)
      old == IF file[i] # None THEN file[i].meta ELSE InitialSession(p).meta
      done(s) ==
              [status |-> "completed", prov |-> old.prov, worker |-> None, turn |-> 1,
               psid |-> s,
               proc |-> IF IsWorker(p) THEN old.proc ELSE None,
               caller |-> IF IsWorker(p) THEN old.caller ELSE p]
  IN
  /\ At(p, "report") /\ IsStart(p) /\ out[p] = "completed"
  /\ j = i \/ (~ IsWorker(p) /\ Fresh(j))
  /\ \E s \in IF IsWorker(p) THEN BOOLEAN ELSE {j # i} :
       Put(j, [name |-> sess[p].rec.name, meta |-> done(s), pending |-> {}])
  /\ outcome' = [outcome EXCEPT ![j] = "completed"]
  /\ Go(p, IF IsWorker(p) THEN "wrap" ELSE IF j = i THEN "exit" ELSE "swap")
  /\ UNCHANGED <<priv, os, told>>

DropReserved(p) ==
  /\ At(p, "swap")
  /\ IF file[Id(p)] # None THEN Delete(Id(p)) ELSE UNCHANGED store
  /\ Go(p, "exit")
  /\ UNCHANGED <<priv, os, hist>>

\* What is saved of a turn that failed or was stopped; s: that the provider
\* announced its session in it.
TurnLost(x, o, s) ==
  [x EXCEPT !.status = o, !.proc = None,
            !.prov = IF o = "stopped" THEN None ELSE @, !.psid = @ \/ s]

\* Whether the provider announced its session to the process: an in-process
\* start may know of one that it could not save when it was announced.
Observed(p) == IF IsWorker(p) THEN {FALSE} ELSE BOOLEAN

\* A start that failed or was stopped saves what is stored with that status;
\* a worker that failed leaves it to its wrap-up.
FailStart(p) ==
  LET r == IF file[Id(p)] # None THEN file[Id(p)] ELSE InitialSession(p) IN
  /\ At(p, "report") /\ IsStart(p) /\ out[p] # "completed"
  /\ IF IsWorker(p) /\ out[p] = "failed"
     THEN UNCHANGED <<store, outcome>>
     ELSE /\ \E s \in Observed(p) :
               Put(Id(p), [r EXCEPT !.meta = TurnLost(r.meta, out[p], s)])
          /\ outcome' = [outcome EXCEPT ![Id(p)] = out[p]]
  /\ Go(p, IF IsWorker(p) THEN "wrap" ELSE "exit")
  /\ UNCHANGED <<priv, os, told>>

\* Mutant of FinishResume: the queue of the end is acknowledged, not the snapshot.
AckAll(p) ==
  /\ At(p, "report") /\ ~ IsStart(p) /\ out[p] = "completed"
  /\ file[Id(p)] # None
  /\ Rewrite(Id(p), sess[p].rec.name,
             [MetaOf(p) EXCEPT !.status = "completed", !.proc = None, !.turn = @ + 1],
             file[Id(p)].pending)
  /\ outcome' = [outcome EXCEPT ![Id(p)] = "completed"]
  /\ Go(p, IF IsWorker(p) THEN "wrap" ELSE "exit")
  /\ UNCHANGED <<priv, os, told>>

\* ... and of a resume that succeeded: where the provider's session was lost,
\* it went on in a new one and records that (s).
TurnDone(x, s) ==
  [x EXCEPT !.status = "completed", !.proc = None, !.turn = @ + 1, !.psid = @ \/ s]

\* A successful resume acknowledges its snapshot (SaveQueuedTurn) ...
FinishResume(p) ==
  /\ At(p, "report") /\ ~ IsStart(p) /\ out[p] = "completed"
  /\ IF file[Id(p)] # None
     THEN /\ \E s \in BOOLEAN :
               Rewrite(Id(p), sess[p].rec.name, TurnDone(MetaOf(p), s), snap[p])
          /\ outcome' = [outcome EXCEPT ![Id(p)] = "completed"]
          /\ UNCHANGED out
     ELSE /\ out' = [out EXCEPT ![p] = "failed"]
          /\ UNCHANGED <<store, outcome>>
  /\ Go(p, IF IsWorker(p) THEN "wrap" ELSE "exit")
  /\ UNCHANGED <<sess, cur, carried, snap, known, os, told>>

\* ... one that failed or was stopped retains it.
FailResume(p) ==
  /\ At(p, "report") /\ ~ IsStart(p) /\ out[p] # "completed"
  /\ \E s \in BOOLEAN : Save(p, TurnLost(MetaOf(p), out[p], s))
  /\ outcome' = [outcome EXCEPT ![Id(p)] = out[p]]
  /\ Go(p, IF IsWorker(p) THEN "wrap" ELSE "exit")
  /\ UNCHANGED <<priv, os, told>>

\* Mutant of Wrap: the worker wraps up the record it has in memory.
WrapStale(p) ==
  /\ At(p, "wrap")
  /\ cur' = [cur EXCEPT ![p] = sess[p].rec]
  /\ Go(p, "wrapup")
  /\ UNCHANGED <<store, sess, carried, snap, out, known, os, hist>>

\* A worker reads the record once more, clears its PID, repeats the outcome.
Wrap(p) ==
  /\ At(p, "wrap")
  /\ cur' = [cur EXCEPT ![p] = file[Id(p)]]
  /\ Go(p, IF file[Id(p)] = None THEN "exit" ELSE "wrapup")
  /\ UNCHANGED <<store, sess, carried, snap, out, known, os, hist>>

WrapUp(p) ==
  /\ At(p, "wrapup")
  /\ Put(Id(p), [cur[p] EXCEPT !.meta.proc = None, !.meta.status = out[p]])
  /\ outcome' = [outcome EXCEPT ![Id(p)] = out[p]]
  /\ Go(p, "exit")
  /\ UNCHANGED <<priv, os, told>>

Exit(p) ==
  /\ At(p, "exit")
  /\ Leave(p)
  /\ UNCHANGED <<store, os, hist>>

-----------------------------------------------------------------------------
\* waitForAgent: find the session, look for its writers, and once there are
\* none read it again before the verdict.
Wait(p, i) == Open(p, "wait", i, "scan")

WaitFind(p, i) ==
  /\ At(p, "find")
  /\ file[i] # None /\ file[i].name = sess[p].rec.name
  /\ sess' = [sess EXCEPT ![p] = [id |-> i, rec |-> file[i]]]
  /\ Go(p, "scan")
  /\ UNCHANGED <<store, cur, carried, snap, out, known, os, hist>>

\* Mutant of WaitScan: only provider processes are looked for.
WaitScanProviders(p) ==
  /\ At(p, "scan")
  /\ Go(p, IF Providers(MetaOf(p)) = {} THEN "confirm" ELSE "find")
  /\ UNCHANGED <<store, priv, os, hist>>

WaitScan(p) ==
  /\ At(p, "scan")
  /\ Go(p, IF Writers(MetaOf(p)) = {} THEN "confirm" ELSE "find")
  /\ UNCHANGED <<store, priv, os, hist>>

\* Mutant of Unsettled: the record is not read again.
UnsettledOnce(p) == MetaOf(p).status = "running" /\ MetaOf(p).proc = None

\* The record changed while the processes were listed, or it says "running"
\* and names no process: try again.
Unsettled(p) ==
  LET x == MetaOf(p)
      y == file[Id(p)].meta
  IN  \/ x.status # y.status \/ x.proc # y.proc \/ x.prov # y.prov
      \/ x.status = "running" /\ x.proc = None

WaitAgain(p) ==
  /\ At(p, "confirm")
  /\ file[Id(p)] # None
  /\ Unsettled(p)
  /\ Go(p, "find")
  /\ UNCHANGED <<store, priv, os, hist>>

WaitCondemns(p) ==
  /\ At(p, "confirm")
  /\ file[Id(p)] # None
  /\ ~ Unsettled(p)
  /\ MetaOf(p).status = "running"
  /\ Go(p, "condemn")
  /\ UNCHANGED <<store, priv, os, hist>>

WaitReturns(p) ==
  /\ At(p, "confirm")
  /\ file[Id(p)] # None
  /\ ~ Unsettled(p)
  /\ MetaOf(p).status # "running"
  /\ Leave(p)
  /\ UNCHANGED <<store, os, hist>>

\* "session not found", by its name or by the ID it had a moment ago.
WaitLost(p) ==
  /\ \/ At(p, "confirm") /\ file[Id(p)] = None
     \/ At(p, "find") /\ \A i \in Present : file[i].name # sess[p].rec.name
  /\ Leave(p)
  /\ UNCHANGED <<store, os, hist>>

\* Mutant of Condemn: the failure is not recorded, the wait goes on.
CondemnLater(p) ==
  /\ At(p, "condemn")
  /\ Go(p, "find")
  /\ UNCHANGED <<store, priv, os, hist>>

\* "detached worker exited without recording a terminal status"
Condemn(p) ==
  /\ At(p, "condemn")
  /\ Save(p, [MetaOf(p) EXCEPT !.status = "failed", !.proc = None])
  /\ Leave(p)
  /\ UNCHANGED <<os, hist>>

-----------------------------------------------------------------------------
\* stopSession: read the record, then TERM and later KILL the tree of the
\* roots it names, remembering every process found in it.
Stop(p, i) == Open(p, "stop", i, "stop")

Survivors(p) ==
  Writers(MetaOf(p)) \cup ({"harnez"} \X (known[p] \cap Alive))
                     \cup ({"provider"} \X (known[p] \cap child))

StopTerm(p) ==
  /\ At(p, "stop")
  /\ LET tree == Tree(MetaOf(p)) \cup Providers(MetaOf(p)) IN
       /\ ~ tree \subseteq known[p] \cap sig
       /\ known' = [known EXCEPT ![p] = @ \cup tree]
       /\ sig' = sig \cup tree
  /\ UNCHANGED <<store, pc, sess, cur, carried, snap, out, cmd, boss, child, hist>>

StopKill(p) ==
  /\ At(p, "stop")
  /\ known[p] # {}
  /\ LeaveAll(known[p] \cap Alive)
  /\ child' = child \ known[p]
  /\ UNCHANGED <<store, cmd, boss, sig, hist>>

\* No process is left: the stop saves the record it read at the beginning.
StopDone(p) ==
  /\ At(p, "stop")
  /\ Survivors(p) = {}
  /\ Save(p, [MetaOf(p) EXCEPT !.status = "stopped", !.proc = None, !.prov = None])
  /\ Leave(p)
  /\ UNCHANGED <<os, hist>>

\* Some process is still exiting after the bounded KILL.
StopGivesUp(p) ==
  /\ At(p, "stop")
  /\ Survivors(p) # {}
  /\ Leave(p)
  /\ UNCHANGED <<store, os, hist>>

\* rateLatestSessionTurn: an ordinary command that reads, edits and saves.
Rate(p, i) == file[i] # None /\ file[i].meta.turn > 0 /\ Open(p, "rate", i, "rate")

RateSave(p) ==
  /\ At(p, "rate")
  /\ Save(p, MetaOf(p))
  /\ Leave(p)
  /\ UNCHANGED <<os, hist>>

\* delete asks the provider first, whatever the session is doing.
DeleteCmd(p, i) == Open(p, "delete", i, "delete")

DeleteDone(p) ==
  /\ At(p, "delete")
  /\ IF file[Id(p)] # None THEN Delete(Id(p)) ELSE UNCHANGED store
  /\ Leave(p)
  /\ UNCHANGED <<os, hist>>

DeleteRefused(p) ==
  /\ At(p, "delete")
  /\ Save(p, [MetaOf(p) EXCEPT !.status = "delete-failed"])
  /\ Leave(p)
  /\ UNCHANGED <<os, hist>>

\* send, with no live route: QueueMessage on the one session of that name.
Send(i, m) ==
  /\ i \in Present
  /\ {e \in Present : file[e].name = file[i].name} = {i}
  /\ Enqueue(i, m)
  /\ UNCHANGED <<pc, priv, os, hist>>

-----------------------------------------------------------------------------
\* From outside: a signal harnez handles, a kill it cannot, and the end of a
\* provider CLI that outlived its harnez process.
Interrupt(p) ==
  /\ p \in (Killable \cap Alive) \ sig
  /\ sig' = sig \cup {p}
  /\ UNCHANGED <<store, pc, priv, cmd, boss, child, hist>>

Kill(p) ==
  /\ p \in Killable \cap Alive
  /\ Leave(p)
  /\ UNCHANGED <<store, os, hist>>

ProviderExits(p) ==
  /\ p \in child /\ At(p, "gone")
  /\ child' = child \ {p}
  /\ UNCHANGED <<store, pc, priv, cmd, boss, sig, hist>>

WaitStep(p) ==
  \/ \E i \in Ids : WaitFind(p, i)
  \/ WaitScan(p) \/ WaitAgain(p) \/ WaitCondemns(p)
  \/ WaitReturns(p) \/ WaitLost(p) \/ Condemn(p)

TurnStep(p) ==
  \/ Spawn(p) \/ SpawnFails(p) \/ Observe(p) \/ ReadEvent(p) \/ SaveEvent(p)
  \/ \E o \in {"completed", "failed", "stopped"} : EndTurn(p, o)
  \/ \E j \in Ids : FinishStart(p, j)
  \/ DropReserved(p) \/ FailStart(p) \/ FinishResume(p) \/ FailResume(p)
  \/ Wrap(p) \/ WrapUp(p) \/ Exit(p)

Next ==
  \/ \E p \in Procs :
       \/ \E c \in Commands, n \in Names :
            (\E i \in Ids : Start(p, c, i, n)) \/ StartRefused(p, c, n)
       \/ \E i \in Ids : Reserve(p, i) \/ \E c \in Commands : StartFinds(p, c, i)
       \/ Release(p) \/ ReleaseFails(p)
       \/ \E i \in Ids :
            \/ \E c \in Commands : Resume(p, c, i)
            \/ Wait(p, i) \/ Stop(p, i) \/ Rate(p, i) \/ DeleteCmd(p, i)
       \/ ResumeRefused(p) \/ ResumeChecked(p)
       \/ Snapshot(p) \/ SnapshotFails(p) \/ Claim(p)
       \/ \E w \in Procs : Launch(p, w) \/ Register(p, w) \/ RegisterFails(p, w)
       \/ LaunchFails(p) \/ Watch(p)
       \/ Poll(p) \/ PollFails(p) \/ Reread(p)
       \/ TurnStep(p)
       \/ WaitStep(p)
       \/ StopTerm(p) \/ StopKill(p) \/ StopDone(p) \/ StopGivesUp(p)
       \/ RateSave(p) \/ DeleteDone(p) \/ DeleteRefused(p)
       \/ Interrupt(p) \/ Kill(p) \/ ProviderExits(p)
  \/ \E i \in Ids, m \in Msgs : Send(i, m)

Spec == Init /\ [][Next]_vars

\* A wait that can go on does: it polls on a ticker of its own.
FairSpec == Spec /\ \A p \in Procs : WF_vars(WaitStep(p))

-----------------------------------------------------------------------------
\* A queued message is taken off the queue only if a turn that was told it,
\* on this session, succeeded (docs/AgentMessaging.md: "Successful resume
\* clears only its queue snapshot").  It must hold however many resumes,
\* stops, ratings and deletes of stale copies run at once.
AckedWasTold == \A i \in Ids : acked[i] \subseteq told[i]

\* One turn and its waits: a second command that saves the record it read at
\* its beginning (resume, stop, rate) or removes it (delete) is not among them,
\* for the code does not order it after the turn.
Launchers == {p \in Procs : cmd[p] \in {"start", "startd", "resume", "resumed"}}
OneCommand ==
  /\ Cardinality(Launchers) <= 1
  /\ \A p \in Procs : cmd[p] \notin {"stop", "rate", "delete"}

\* Once the process of a turn has saved how it ended, no launcher, observer
\* or waiter with an older copy replaces that outcome (agent_async.go: the
\* worker waits for its own PID, wait re-reads before it condemns).
OutcomeKept ==
  OneCommand => \A i \in Ids : outcome[i] # None /\ file[i] # None =>
                  file[i].meta.status = outcome[i]

InTurn == {"spawn", "observe", "early", "event", "turn", "report", "wrap", "wrapup"}

\* As long as a harnez process works on the turn of a stored session, the
\* record leads to it, so that a resume refuses and a wait goes on.
TurnIsRecorded ==
  /\ TypeOK
  /\ OneCommand => \A p \in Procs : pc[p] \in InTurn /\ file[Id(p)] # None =>
                     p \in Tree(file[Id(p)].meta)

\* Records under a reserved name come and go (the ID changes when an
\* in-process start ends), but as long as nobody deletes, there is always one
\* that holds the name, or the one that held it is a failed start that was set
\* aside, still stored, for a new start of that name (agent_run.go: "renamed,
\* never deleted").
NameKept ==
  [][(\A p \in Procs : cmd[p] # "delete") =>
       \A n \in Names, i \in Present : file[i].name = n =>
         \/ \E j \in Ids : file'[j] # None /\ file'[j].name = n
         \/ file'[i] # None /\ file'[i].name = Aside(i)]_vars

\* The turn counter of a stored session never goes back: no writer with an
\* older copy takes back a turn that was recorded.
TurnsKept ==
  [][OneCommand' => \A i \in Ids : file[i] # None /\ file'[i] # None =>
       file[i].meta.turn <= file'[i].meta.turn]_vars

\* Once nothing else of harnez runs, for good, every wait returns.
Quiet ==
  child = {} /\ \A p \in Alive : cmd[p] = "wait"
WaitEnds ==
  (<>[] Quiet) => \A p \in Procs : (cmd[p] = "wait") ~> (pc[p] = "gone")

\* ... provided that a record left "running" names the process that did so:
\* the wait then finds that process gone and records the failure itself.
Named ==
  \A i \in Present : file[i].meta.status = "running" => file[i].meta.proc # None
NamedWaitEnds ==
  (<>[] (Quiet /\ Named)) =>
    \A p \in Procs : (cmd[p] = "wait") ~> (pc[p] = "gone")

-----------------------------------------------------------------------------
\* What the code does NOT guarantee.  A message accepted for a session that
\* nobody deleted is told to a turn or still queued: the queue of a reserved
\* ID is left behind when the start stores its session under another.
MessageKept ==
  \A i \in Ids : \A m \in sent[i] :
    m \in told[i] \/ \E j \in Present : m \in file[j].pending

\* What the code does NOT guarantee.  Two turns never run on one session.
OneTurn ==
  \A p, q \in child : p # q /\ sess[p] # None /\ sess[q] # None => Id(p) # Id(q)
=============================================================================
