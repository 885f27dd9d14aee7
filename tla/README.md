# Formal models of harnez

TLA+ specifications of the concurrent core of harnez, the TLC runs that check them on small
instances, and TLAPS proofs of what matters most for every instance.

harnez is one Go binary that many short processes run at once: a person types `harnez agent resume`
in one terminal, an orchestrating agent runs `harnez agent wait` in another, a detached worker
finishes a turn, a hook records telemetry. They share no memory. They meet in files under one
directory, in sockets, and in the process table. That is where its behaviour is hard to test, and
what these specifications are about.

## 1. Inventory

| Component | State | Operations | Hard behaviour |
|---|---|---|---|
| Session registry (`internal/subagent/session*.go`) | one JSON file per session, the archive, a flock | load, list, create, save, queue, acknowledge, delete | writers with copies of any age; a crash between two writes; two names or IDs that clash |
| Agent turns (`cmd/harnez/agent_run.go`, `agent_async.go`) | the session's status, turn number and process IDs; the processes | start, resume, detach, worker hand-over, provider events, outcome, wrap-up | launcher and worker write the same record; the ID changes during a start; kills at any moment |
| wait, stop, rate, delete (`agent_manage_cmds.go`, `agent_stop.go`, `internal/procs`) | a private copy of the record, /proc | poll, TERM, KILL, confirm, save | decisions on a record read earlier; a wait that must end |
| Messages (`agent_send.go`, `session_queue.go`) | the queue in the session record | send, prepend to a prompt, acknowledge | exactly the told messages are acknowledged |
| Interactive sessions, AGY inbox (`interactive.go`, `agyinbox.go`, `agyturn.go`, `internal/agymeter`) | messages as files and in memory, turn state, a control socket | enqueue, observe requests and tools, deliver when idle, mark, reopen | a death between accepting, typing and marking; events of the turn state that are lost |
| Channel (`internal/channel`) | one registration file per session, receipts in memory | register, replace, unregister, prune, send, reply, wait for a receipt | read, compare and remove without a lock; two servers of one session; receipts expire |
| Pi background tasks (`.pi/lib`) | tasks, process groups, held completions | start, exit, cancel, drain, settle, deliver, shut down | exit against cancel against shutdown; compaction windows |
| Pi package installer (`internal/claude/pi_background*.go`) | the installed files, a ledger of digests | apply, strict update, revert | a death between any two writes; files that a person edits; builds that follow each other |
| Managed documents (`internal/markdown`, `internal/claude/init_phases.go`, `managed_doc.go`) | Markdown files that a person edits too | apply, clean, prune, reconcile sections; replace bundled text above a stop marker | interrupted passes, torn markers, copies of a section, older markers |
| Local server (`internal/server`) | a socket, its owner's services, a spool directory | claim, take over, join, release; post, spool, drain | two starts at once; a death between consume and remove; late answers; the cap |
| Session state of the CLI (`internal/sessionstate`) | one JSON file per CLI session | load, count, save | unlocked read-modify-write |
| Everything else | configuration, documents, tickets, usage data | render, parse, query | sequential, or serialised by SQLite or git |

The full list, with every package and the reason why it is left out, is `components` in
`PROJECT.json`. What makes each modelled component correct:

- *Session registry*: the stored queue is exactly the accepted messages that no turn has
  acknowledged, whatever copies are written back; a record leaves only with its archive copy; a new
  record is apart from all others when it is written; every locked operation is one atomic step.
- *Agent turns*: the recorded outcome of a turn is final; the record always leads to the process that
  works on the turn; a reserved name stays taken while the ID changes, and one that a failed start gives up
  leaves its record stored; turn numbers never go back;
  a message leaves the queue only when a successful turn was told it; every wait returns.
- *AGY inbox*: a message whose sender had an answer is on the disk until it was typed or refused; one
  supervisor types in order and each message once; nothing is typed while the end of a request was not
  told or a known tool runs.
- *Channel*: one server of a session passes messages on, and it is the registered one; an exit leaves
  no entry; a receipt stands for a reply to that message.
- *Pi package installer*: what a person wrote stays; what harnez wrote stays recorded; Pi never finds
  a package that mixes builds; a retry finishes what was interrupted.
- *Managed documents*: a person's lines stay, also in torn files; an interrupted init is finished by
  the next; what is configured is there once and up to date; sticky sections and malformed files are left
  alone.
- *Local server*: one collector at a time; a record whose sender was told so is stored or spooled,
  within the cap, or says which tool call it lacks; starts end, and only records of an unknown kind wait
  in the spool.
- *Pi background tasks*: a cancelled task is really gone; each natural end has one follow-up, sent in
  order and not into a compaction; the capture accounts for every byte, never leaves a command's
  streams paused and settles whatever the file system does; shutdown ends.

## 2. Modules

| Module | Models | Depends on |
|---|---|---|
| `Registry` | the abstract session registry: every operation one atomic step on records | |
| `SessionStore` | `FileSessionStore` under its flock, step by step, with failing and dying clients | extends `Registry` |
| `SessionStoreProofs` | theorems of `SessionStore` | extends it and `TLAPS` |
| `AgentTurns` | start, resume, worker, wait, stop, rate, delete and send as processes | instantiates `Registry` |
| `TurnProofs` | theorems of `AgentTurns` | extends it and `TLAPS` |
| `CaptureWriter` | one output capture and its file operations | |
| `CaptureProofs` | theorems of `CaptureWriter` | extends it and `TLAPS` |
| `BackgroundTasks` | the task runner and the process groups it starts | sees the capture and the delivery as events |
| `CompletionDelivery` | the follow-ups held and batched around Pi's compaction | |
| `PiProofs` | theorems of `BackgroundTasks` and `CompletionDelivery` | extends both and `TLAPS` |
| `AgyInbox` | inbox, turn state, control and delivery loop of a supervised AGY | |
| `Channel` | the endpoint of one Claude session, its servers, senders and receipts | |
| `MessageProofs` | theorems of `AgyInbox` and `Channel` | extends both and `TLAPS` |
| `PiInstall` | apply, update and revert of the Pi package | |
| `PiInstallProofs` | theorems of `PiInstall` | extends it and `TLAPS` |
| `ManagedDocs` | a Markdown file shared with a person | |
| `DocsProofs` | theorems of `ManagedDocs` | extends it and `TLAPS` |
| `LocalServer` | servers that claim a socket, senders, spool and drains | |
| `ServerProofs` | theorems of `LocalServer` | extends it and `TLAPS` |
| `MCSessionStore`, `MCAgentTurns`, `MCPiInstall`, `MCManagedDocs`, `MCLocalServer` | values and symmetry for TLC | extend their component |
| `MCRegistries` | `SessionStore` or `Channel` in one state space | extends `MCSessionStore` and `Channel` |
| `MCLiveHosts` | `CaptureWriter`, `CompletionDelivery`, `BackgroundTasks` or `AgyInbox` in one state space | extends all four |

The last two put components that share no state into one run: a variable `side`, which no step
changes, says which of them a behaviour runs, and the others stay in their initial state. So such a
run checks each component as a run of its own would, with the fairness of its own specification;
it says nothing about steps of two of them. To be extended together, such components name what they
share differently (`ChannelInit`, `RunnerSpec`, `deliveryVars`); a run and a theorem of one of them are
therefore about the same definitions.

`Registry` is the hinge of the first half. `SessionStore` is shown (by TLC and by proof) to implement
it: `RegistrySpec` is a property of the locked store with the identity as refinement mapping on
`file`, `archive`, `sent` and `acked`. `AgentTurns` uses the operators of `Registry` as its atomic
storage, so it does not repeat the lock; that each of its steps is one `RegistryNext` step or none is
proved (`TurnsUseRegistry`), so what the registry promises holds of the turns. The second half has three machines that meet in callbacks:
`CaptureWriter!Ends` is what justifies the fairness of `BackgroundTasks!CaptureSettled`, and
`BackgroundTasks!Delivered` is the callback that `CompletionDelivery` makes once per task
(`ReleasedOnce`, part of `DeliveryInv`).

Definitions after a comment "Mutant of X" or "Mutant:" are deliberate bugs: each is `X`
as a plausible mistake would have written it. No specification uses them. `PROJECT.json` pairs every
checked property with one that violates it.

### 2.1 Registry and SessionStore

A record keeps its name, its queue and `meta`, which stands for the other fields. The queue is a set:
the code appends and filters in place, so its order is the order of acceptance. `sent` and `acked` are
history. A client is a process with at most one `*Session` (`sess`), possibly very old. `Acquire` and
`Release` are `lockRegistry` and its deferred unlock; each `Begin...` step takes the lock and reads,
the following steps write. `save` writes a temporary file and renames it, so it is one step;
`Create` opens the file itself with `O_EXCL` and writes it later, so it has a torn state between
(`OpenNew`, `torn`). `Fail` is an I/O error within the critical section, `Exit` is the end or death of
the process anywhere.

The abstract `Revive` (a Save of a session without a file) subsumes `Create` of a free ID, because a
Save tests neither ID nor name. `RegistrySpec` alone would therefore not say what `Create` adds;
`CreatedApart` does.

### 2.2 AgentTurns

A process has a program counter (`pc`), a command and a private copy of the record (`sess`, `cur`).
`Start`..`FailStart` are `runStart` with the look for the name, the reservation, the provider's early session ID
(`ReadEvent`, `SaveEvent`), the turn and the record stored under the provider's ID
(`FinishStart`, `DropReserved`). `Resume`..`FailResume` are `runResume`: the look for live writers,
the queue snapshot, the claim, the turn, the acknowledgement. `Launch`, `Register` and their failures
are the launcher of a detached turn; `Watch`, `Poll`, `Reread` the worker that waits for the launcher
to record its PID; `Wrap`, `WrapUp` its last save. `Observe` is the goroutine that
stores the provider's PID. `Wait...` and `Condemn` are the polling of `waitForAgent`; `Stop...` the
TERM, KILL and confirm of `stopCmd`; `Rate`, `DeleteCmd` and `Send` the other commands. `Interrupt`
is a signal to a harnez process, `Kill` its death at any point, `ProviderExits` the end of a provider
that outlived it. `Roots`, `Tree` and `Writers` are `sessionRoots` and the process listings made from
them. A process stands for a PID with its start time, which the code compares, so PIDs are not reused.

A start that finds its name with a failed session which has no provider session (`psid`) renames that
record and saves the copy it read (`StartFinds`, `Release`), and then reserves the name (`Reserve`), unless
another start was faster (`ReleaseFails`). The name it is renamed to is made of the old one and the ID; in
the model it is `Aside(i)`, and no start asks for such a name. The look for a free name and `Create` are
one step (`Start`), since `Create` tests the name again under the lock. A run may begin with a session
that ended or with one whose start failed (`Unborn`).

### 2.3 CaptureWriter

The object is one record `w`; private methods are operators from object to object (`Flow`, `Fail`,
`Close`, `Settle`...), so a handler composes them in the order of the code. A chunk is its length.
I/O operations return late, partially, with an error or never (no fairness). `Abort` may come at any
time from the finalize timer or the shutdown.

### 2.4 BackgroundTasks

`task` maps each task to the fields of `BackgroundTask` and to the operating system's side of it
(`leader`, `members`). Methods are operators on the table. `attempt` says which of the two
waits of a cancel is on; SIGTERM and SIGKILL need not be modelled beyond that, since a process may
ignore the first and its group may die at any moment anyway. `"completed"` and `"failed"` are one status,
`"ended"`, because nothing but the wording of the follow-up depends on the exit code. `answers` are the results that callers
of `cancel` have had. `awaited` marks the attempts that the shutdown waits for.

### 2.5 CompletionDelivery

The variables are the fields of the class; `timers` is the set of armed timers. Entries are numbered
in the order of `submit`. A batch holds between one and `MaxTasks` entries, because the character
bound may cut it anywhere after the first. Pi is modelled from the hooks: `compaction` is Pi's guard,
which may be set long before the extension's hook runs (`"guard"`, which also stands for a Pi that is
busy without a known run) and may be cleared with either hook lost.

### 2.6 AgyInbox

`disk` is the state in the file of each message, `queue` the messages in memory; messages are
numbered as they are sent, which stands for their time. The control loop takes one connection at a
time: `Enqueue` writes the file, `Accept` appends to the queue and answers. `Take`, `Type` and `Mark`
are the steps of `deliverInbox`, with the second `Mark` after a failed one. `TurnState` hears of
requests from the meter and of tools from the hooks (`ToolStart`, `ToolEnd`), which give up after a tenth
of a second; `told` remembers that none of their events was lost.

`forward` counts a request before it goes upstream, whether it is one of AGY's turn (`Request`) or one
on the side, for a quota summary or a title (`SideRequest`). The end of a response is two steps in
two goroutines: `Respond` is AGY, which has read it and goes on; `Parsed` is `parseResponse`, which
returns and calls `ResponseFinished`, later than AGY or, when the reader on the side fell behind or cannot
decode the response, earlier and without having seen a call. `request` says for each open request
which of the two has happened; ends of several requests are told in any order. `RequestFails` is an
upstream that fails, for which the reverse proxy never calls `ModifyResponse` and so nothing calls
`ResponseFinished`. `observed` tells `harnez-agy`, which has the meter's observer and a new
inbox each time, from `agent start -i` and `resume -i`, which have no observer and open the inbox
of their session again (`Open`). `AgyEnds`, `LoopsEnd` and `Crash` are the ways down.

### 2.7 Channel

`published` is the registration, named by the server whose token it holds. `Register`, `CheckPrevious`,
`Compare`, `RemovePath` and `Link` are the steps of `register` and of the `unregister` in it; a server that
ends (`Leave`) and the lister (`Prune`) go through `Compare` and `RemovePath` too. A health check may be
missed by a server that would have answered. `mistaken` remembers such a miss, and a remove of an
entry other than the one compared. A sender looks up (`Find`), posts (`Post`, `Write`, `WriteFails`,
`Break`) and may wait for its receipt at whichever server is registered by then (`Await`, `Poll`).

### 2.8 PiInstall

The ledger maps a path to its installed and its staged digest. A run decides from a snapshot (`seen`):
`State`, `Needed`, `Leftover`, `Staged` and `Final` are the plan. Then it proceeds phase by phase
(`pc`): `Preflight` (the second look of an update), `Deactivate` (package.json goes first),
`MakeDir`, `Stage` (the ledger with old and new digests), `WriteDep`, `RemoveLeftover`, `Activate`
(package.json comes last), `Commit` (the ledger with the new digests); a revert by `RevertFile`,
`RemoveMarker`, `RemoveDir`. `Fail` is a step that reports an error, `Crash` a death, which may leave a
temporary file. `Edit`, `ToggleIndex` and `Tidy` are the person. `ours` is history: the paths whose
bytes harnez was the last to write.

### 2.9 ManagedDocs

A document is a sequence of lines; `LocateSection`, `ApplySection`, `CleanSection`, `PruneSections`,
`ReconcileSections`, `InitSections`, `PrepareManagedDoc` and `Extract` are the functions of the code on
it. The loops of the code that go through a file (prune, reconcile) and the one that appends what is
missing are uses of `Written`: what is written for a line, and the line to go on with; `EndAt` is the
search for a section's end marker that both share.

`InitWrites` has the file after each write of an init of AGENTS.md: it is migrated to the markers of this
release (`Migrated`); if a block of the old template has no end as its next marker (`BlocksSafe`),
nothing more is written; otherwise what is neither configured nor one of the `Sticky` sections is pruned,
and each configured section is written in turn. `LocalAppend` is the one case in which a bundled doc
without a stop marker is kept: it is the bundled text and then two lines or more, the first of them
a heading of level one or two. In the model, the lines a person may write include one that is a heading
and one that is not.

A step of the model is one whole write of the file; `InitConverges` and `TornFileKept` are stated
for every configuration in every reachable document, and an init may be interrupted after each of its
writes, or be an apply or a prune that the model takes on its own.

### 2.10 LocalServer

Each server claims the path step by step (`Lstat`, `Answered`, `NoAnswer`, `RemoveStale`,
`AskShutdown`, `Released`, `TakeoverTimeout`, `Listen`) and ends by `Cancel`, `Joined`, `Release`,
`Exit`. A listener whose path was removed still listens. A sender posts, may have its answer late, and
otherwise spools under the spool's lock (`Enlist`, `Measure`, `Rename`). The drain of a server looks at
the names it listed (`Tick`, `Missed`, `Reads`) and removes the file of what it has consumed
(`RemoveFile`).

What processing a record comes to depends on the record and on the server, posted or drained. It is
stored (`Consume`, `Delivered`). Its kind or payload is one that only builds from `Since` on read: an
error that is not permanent, so the file stays, on every tick (`Unknown`). It violates a
constraint or is no record (`Refused`): a permanent error, so it is set aside (`Quarantine`). It updates the
latest tool call of a session that has none (`Toolless`): that error counts as a success of the
drain, which says so in the log and removes the file (`Discard`). Or an insert fails (`ConsumeFails`,
`InsertFails`), and a record of several rows (`Parted`) may then be stored in part, because its statements
are not in one transaction. `stored` counts each time the store got the record or a part of it,
`whole` has the records it got in whole. History variables remember why two collectors or a second copy may
exist: a start that misjudged a listening server, a join that was overdue, a record kept after it or a
part of it was stored (`again`), a record whose tool call was not found (`discarded`).

## 3. Runs

| Run | Question | Bounds |
|---|---|---|
| `Registries` | Are the operations of the session registry atomic and its queue exact? Do a channel's servers exclude each other and its receipts tell the truth? | 2 clients, 2 IDs, a name equal to an ID, 1 message, any step may fail or die; 2 servers and a lister, 2 messages, room for 1 receipt |
| `Turns` | Does one turn keep its record, name, outcome and count, are messages safe against any other command, and do waits return? | a start or resume (in-process or detached), its worker, and any of resume, stop, rate, delete, wait; nothing, a session that ended or a failed start to begin with; up to 3 turns, 1 message, 2 IDs; the worker may be killed or not recorded |
| `LiveHosts` | Does a capture account, settle and resume? Do follow-ups arrive in order, once and at a good time? Are cancel, natural end, retention and shutdown compatible? Does an accepted message reach an idle AGY? | chunks of 1 to 3 bytes, watermarks 1, 2, 4, 7 bytes in all; 4 follow-ups, batches of 2; 2 tasks, one captured, retention limit 1; 2 messages, 2 failed writes, 2 requests in the meter and 2 tools |
| `PiInstall` | Is the installed package whole, a person's file safe and a retry enough? | 3 builds of which one drops a file, 2 files beside the manifest, 3 runs, 2 faults, 1 edit |
| `Docs` | Are managed sections and bundled docs kept apart from a person's lines? | 2 sections, one of them sticky and of the old template, 2 versions, 2 own lines of which one is a heading, 3 edits, files of up to 7 lines; the versions are interchangeable (symmetry) |
| `Server` | One collector, no lost record, a drained spool? | a running server and a newer build; 3 records, of which the first is of a kind only the newer build knows, the second completes the tool call of the first and the third is refused, the first and third in several rows; cap 2, 1 fault |
| `StoreResurrect`, `TurnMessageLost`, `TurnTwoWriters`, `TurnWaitHangs`, `ServerTwice`, `ChannelReplaced` | Sentences of the repository that the code does not keep (section 6) | the smallest scene each |

Why the bounds are enough to be interesting. Two clients are what a stale copy takes, and the
properties of the store are proved for any number. In `AgentTurns` a process runs one command, so
three processes are three concurrent commands; one session suffices for everything but the
ID change of a start, which has two. A queue of one message distinguishes told, acknowledged, dropped
and told twice. Two servers and a lister are three processes at one registration; the second message
finds the receipts full. Seven bytes with a hard limit of four let a producer overflow, write
partially and still have a rest to flush. With a retention limit of one, the first of two finished
tasks is in excess. Four follow-ups are two batches, or a batch and a rest that a hold catches. Two
failed writes are a refused message and its failed mark, after which the message goes back in
front of a later one. Three builds give a file that changes, one that goes and one that comes back;
two faults interrupt the repair of an interruption. Three edits are enough to copy a section and to
tear it. Two servers are a takeover; the three that a start needs to remove the path of a server that
took over are in `ServerTwice`, and `OneCollectorRuns` is proved for any number. Three records are the
least for a call, its update and one that is refused, and a cap of two makes them compete for room.
Two requests are enough for ends that are told in the other order.

`CHECK_DEADLOCK FALSE` stands where the system really stops: every harnez command ends, servers of a
channel and local servers end, a captured file is cleaned up, a runner shuts down, a document is
full. `PiInstall` is checked for deadlocks: a person can always retry.

## 4. Fairness

- `AgentTurns`: weak fairness of `WaitStep(p)` only. A wait polls on a ticker of its own, nothing
  else has to happen. `WaitEnds` asks for an end only once all else is quiet for good; the code keeps
  it when a record that says running names its process (`NamedWaitEnds`), and not otherwise
  (`TurnWaitHangs`).
- `CaptureWriter`: `Pump` is a microtask and `Stall` a timer of the same event loop. I/O has no
  fairness: `Ends` holds although no operation need ever return.
- `BackgroundTasks`: drain timer, watcher interval, polls and deadlines of a wait, the continuation
  of the shutdown. A capture whose output is complete settles (proved in the other module up to its
  own fairness: `finish` sets `ending`). Processes and streams have none.
- `CompletionDelivery`: an armed timer fires. `SentInTheEnd` assumes that Pi stays idle for good and
  that its context can be asked.
- `AgyInbox`: the control loop answers and the delivery loop goes on, woken by a ticker. Nothing is
  assumed of AGY, of senders or of a resume: `InboxDrained` is about a supervisor that stays up with an
  AGY that stays free, of which no event was lost, all requests were told to have ended and the last one told
  had no tool call.
- `PiInstall`: a run goes on until it ends, a person retries the latest build and tidies up as
  `docs/PiAgent.md` says. `RetriesConverge` assumes that in the end nothing of a person is in the way.
- `LocalServer`: the steps of a claim, of a stop, of a drain and of a sender are those of running
  goroutines, tickers and timeouts; a server that was asked to stop does. No server need start or stay, and
  no insert need fail: a failure is a fault, of which a run has one. What a server does not know fails on
  every tick, and `Drained` says only that it keeps nothing else waiting.
- `HostSpec` of `MCLiveHosts` states the fairness of its four specifications, each for its own side.
- `SessionStore`, `Channel` and `ManagedDocs` have safety properties only and assume none.

## 5. Proofs

`SessionStoreProofs` (any clients, sessions, names and messages):

- The inductive invariant `Inv` is `TypeOK`, `Exclusive` (a client that is not idle holds the lock),
  `ReadIsFresh` (what it read under the lock is still what is stored), `QueueWasSent` and
  `QueueExact`. `QueueExact` alone is not inductive: a commit writes a queue that was computed from
  an earlier read, so one needs that the read is still fresh, and that needs the lock.
- `TypeCorrect`, `QueueIsExact` follow from it. `StoreImplementsRegistry` shows each step to be one
  `RegistryNext` step or a stutter. `CreationsAreApart` and `DeletedIsArchived` are action properties
  from the same invariant.

`CaptureProofs` (any watermarks with low < high <= hard, any chunk sizes and budget):

- `IInv` conjoins the types, the byte ledger, the losslessness of a capture without a reason, flow
  control and the stall timer. The difficult part is that the counter `queued` is the sum of a queue
  whose length is not bounded. Instead of an induction over the queue,
  `Sums(q, n)` states that a function of suffix sums exists that begins with `n` and ends
  with 0, and lemmas show how append, shift and unshift extend such a witness.
- Each operator on the object has a frame lemma (what it leaves alone) and a lemma that it keeps the
  invariant; each action has one lemma. `WriterInvariant` combines them, and the theorems
  `BytesAccounted`, `BufferBounded`, `StreamsResume`, `CompleteMeansWhole`, `OperationsWatched`,
  `CleanupLast` and `ResultFinal` follow.
- `WriterSound` combines them into the `WriterInv` that `LiveHosts` checks.

`PiInstallProofs` (any package, any builds, any number of runs, faults and edits):

- `IInv` is `TypeOK`, `Recorded` and what a run knows of the disk in each phase: the plan was allowed
  (`PlanSound`), the ledger is the planned and then the staged one (`LedgerFollows`), a dependency is
  as the plan saw it or wants it (`DepsFollow`), package.json is away while dependencies change
  (`ManifestFollows`), a revert takes only what it owns (`RevertFollows`). `Recorded` alone is not
  inductive: that a written file is recorded depends on the staged ledger that the run wrote before,
  and that the commit drops no digest depends on every dependency having been written by then.
- From it: `Recorded`, and the action properties `PersonsFilesStay`, `NeverBreaks`, `EndsAsReported` and
  `ApplyIsIdempotent`. Only `RetriesConverge` stays with TLC.

`PiProofs`, the delivery (any number of follow-ups, any size of a batch):

- `DeliveryIInv` is `DeliveryTypeOK`, `Queue` (what was sent and what is held are the numbers 1, 2, 3, ... up to
  what was submitted), `ReleasedOnce`, `Looks` (the batch window and the flush poll exclude each other, and
  one timer looks at what is held) and `Holds`. `Queue` is what makes `ReleasedOnce` inductive: a
  batch and the rest are disjoint because their numbers are.
- `DeliveryIsExact` gives `DeliveryInv`, `NothingIntoCompaction` the action property
  `HeldWhileCompacting`.

`PiProofs`, the runner (any finite set of tasks, any choice of captured ones, any retention limit):

- A handler of the runner calls several methods on the table, and between two calls a record may lack
  what it has before and after. `Sound` (what a record never contradicts, as an attempt without a cancel
  or a cancelled task with members) holds halfway through; `Told` (a natural end with its output and
  capture final had its follow-up), `Over` (a task that left the map is over) and `Ret` (whoever exceeds
  the retention limit may not go yet) hold when a method returns. `TableInv` conjoins them; each
  method has one lemma about a table with it, each action is then one call.
- `Tried` (a cancelled task that still runs is in an attempt or watched) is broken inside `CancelTask` and
  `ConcludeAttempt` and joins only in `RunnerIInv`.
- The retention is a statement about cardinalities: a task is in excess when `Limit` finished ones are
  newer (`ExcessByNewer`), so that fewer finished tasks leave fewer in excess (`ExcessMonotone`). For it
  alone `Tasks` has to be finite.
- `RecordsTrue`, `CancelledGone`, `ToldOnce` and `AlwaysWatchedOrTried` give `RecordsAreTrue`,
  `CancelledIsGone`, `OneFollowUp` and `WatchedOrTried`.

`TurnProofs` (any finite set of processes; any sessions, names, messages and allowed commands):

- `AckedWereTold`. `MInv` adds to `AckedWasTold` that a successful turn which is about to be reported has
  told its session the snapshot (`SnapTold`). That is the link between the two: the snapshot is told when
  the provider ends (`EndTurn`) and acknowledged later (`FinishResume`), with any steps of others between.
- `KInv` is what the others share: the types (`TInv`); which places go with which command and which worker
  with which launcher (`Kin`); that a record or a copy of one names only a process for whose turn it was
  written (`Started`); that the process which a wait confirms is gone (`Confirmed`); and which processes
  hold no copy (`Blank`).
- `NameIsKept`. The name a start has reserved is on two records while the IDs are swapped, and a failed
  start's name is taken from its record by a Save. `NameKept` says that a name goes only by the second way,
  and that the record it goes from stays in the registry under the name it was set aside with. A copy may be as
  old as one likes, so the names are fixed, in the registry and in every copy: an ID has one
  name that was asked for and the one made of it (`NameFixed`). What a start holds before it swaps has
  a name that was asked for and no provider session (`Newborn`). A start that is about to drop its
  reservation has a record of that name elsewhere, which is no reservation (`Swapped`) and which nobody
  can set aside, since it has a provider session and no copy of it lacks one (`Settled`).
- `OutcomeIsKept`, `TurnRecorded`, `TurnsGoOn` are about one turn, its worker and any waits and sends
  (`Alone`), as the properties are. None is inductive. Whether a save
  keeps an outcome depends on how old the copy is that it writes, so `OInv` says place by
  place what a process of the turn shares with the stored record (`Follows`): until the turn has ended, the
  record is there, has the turn number of the copy, says running once claimed and names the process at
  work. A wait shares the turn number as long as both records say running, and one that is about to condemn
  a turn does so when every process of the turn is gone and no outcome was recorded (`Awaits`, `Over`).
  `Nothing` says that before the claim there is no running record and no outcome at all. Then
  each step of the turn replaces a record without an outcome (`OutcomeFits`, `OutcomeEnds`), and a number
  is only raised.
- `TurnsUseRegistry` is the refinement of `Registry`, step by step: a save of whatever copy is a `Rewrite`
  or a `Revive` of a well-typed record (`PutMoves`), a start a `Create`, a send an `Enqueue`, and so on
  (`RegistryMoves`); a run may begin with sessions, so the initial states are not those of an empty
  registry. What an operation does to one session is one of five `Change`s. From these follow
  `QueuesAreExact` and `RemovedAreArchived`: `QueueExact` and `RemovedIsArchived`, which `Registries` checks of the
  locked store, hold of the turns. `SavesAreKnown` says that no copy outlives all trace of its session, so
  the guard of `Revive` is never what stops a save.

`MessageProofs`:

- `InboxIsSound` (any messages, failed writes, crashes and resumes) gives `InboxInv`. `Marks` says what
  the delivery loop may mark its message as, and that what the control loop has written is kept too.
  `Order` places what is in memory: what the control loop writes is newer than all that is queued, that is
  newer than what the delivery loop holds, and that than what was typed. Sending back a message whose
  mark failed keeps it because the sorted insert is stated as the set of all ascending arrangements, of which
  `SortedSeq` says that they have the same members. That a busy AGY is not taken for idle is an argument about
  a count: `inflight` is the number of requests whose end was not told (`Unfinished`), so the decrement
  of one end cannot hide another request. It counts as long as slots are reused only after
  both AGY and the meter are done with them.
- `ChannelIsSound` (any servers, messages and room for receipts) gives `ChannelInv`. That no entry of a
  ready server is removed needs that an entry which is read is of a server that was registered once
  (`Registered`), that one which is to be removed is of a server that is done (`Removing`), and that a
  server which is done does not come back (`Closing`). That a receipt is true needs that the server
  asked is the one that was posted to (`Targets`, `Receipts`).

`ServerProofs` (any servers, builds, records, cap and faults):

- `OneCollectorRuns` from `Owner`: a listening server owns the path, and services run only in a listening
  server that has not joined them.
- `SpoolIsKept` gives `SpoolInv` whatever happens to the servers. `Room`: one sender holds the lock of the
  spool, and it has counted the files that are there and room for its own. `Eaten`: a drain has
  stored in whole the record whose file it is to remove, or has found that its tool call is missing.
- `StoredOnlyOnce` needs both: a record that may still be stored for the first time (`Due`: unsent,
  or its file is there and no drain has consumed it) is stored no more often than parts of it were
  left or answers came late (`Once`), and with one collector (`CInv`) no second drain consumes the same file.

`DocsProofs` (any sections, versions, lines of a person and edits; files of any length):

- The invariant `DocsInv` says of a file with sections that its markers are in pairs as long as nobody tore
  it (`Paired`): from each begin marker to its end marker there is no other marker. It is about the markers of
  this and of earlier releases alike. A copy of a doc has no markers and at most one stop marker.
- `LinesKept`. A file may be cut between its sections (`CutSplit`), and what is loose in the pieces is what is
  loose in the file (`LooseConcat`). Every writer leaves what is between the sections and
  puts something with markers in pairs and without loose lines in the place of whole sections: a
  replacement cuts the file in three (`ReplaceKeeps`), the loops of prune and reconcile rewrite it from
  the end to the beginning (`RewriteKeeps`).
- `TornKept` assumes nothing of the file. A loose line is in no section that a scan finds, so the scan
  copies it (`OwnKept`). For the second scan, `Fixed` says that what the first one wrote from some place on is
  written again if it is met there. Lines, sections and the malformed rest are (`FixedLine`,
  `FixedSection`, `FixedMalformed`); what is delicate is that the second scan has seen the same begin
  markers as the first, that it takes the same sections for malformed, and that what was appended then is
  not appended again.
- `InitConverge`. After a write of a section the file has that block where the section was, or at the end, and
  the rest unchanged (`Puts`). Hence two writes of different sections commute (`TwoCommute`) if both
  sections are there, and of two writes of one section the last one counts (`ApplySame`); `Done` says which
  sections an interrupted init has written already, and a prune of a pruned file changes nothing. So
  the init that starts again ends with the file of one that was not interrupted. A migrated file has no
  older markers and stays so through the writes; a file in pairs has its template blocks in
  order, and so has each of the files an init writes. Where a block is malformed, the migrated file is all that is
  written, and it is malformed, too.
- `InitConfigures`. What was written stays up to date through the later writes (`RunCurrent`), and a
  write adds a begin marker only where none is (`RunOnce`); a section that is sticky and not configured is
  neither pruned nor changed by the writes of others; a clean removes the block that an apply
  appended (`CleanApply`).
- A function over the lines is recursive. The theorems of the library that take an operator cannot be used,
  so an induction is the search for a least counterexample: `LeastNat` follows from `WFMin` and the
  well-foundedness of the naturals, which are statements about sets, and `Downward` and `Upward` are the two forms
  that are needed.

The assumptions are the named ASSUMEs of the modules, which every run evaluates: distinctness of the
"nothing" values, the order of the watermarks (the constructor of `CaptureWriter` rejects others),
positive limits (the configuration parsers do). `PackageAssumption` says that every build ships a
package.json and that bytes differ from the words for edits and links; the two `NoneAssumption`s that
"no ledger" is not a ledger, and that "no record" and "no command" are neither. `TurnAssumption` and
`RunnerAssumption` have finitely many processes and tasks. `MaxTurn` bounds the turns that a resume
claims, so the type of a turn number is `Nat`.

Proved are all the invariants and all the action properties that the passing runs check. Only
model-checked is every liveness property: `NamedWaitEnds`, `Ends`, `SentInTheEnd`, `NaturalEndTold`,
`UnconfirmedSettles`, `ShutdownEnds`, `InboxDrained`, `RetriesConverge` and `Drained`. Liveness under fairness
and ENABLED are beyond this prover. So are induction theorems that take an operator, which `DocsProofs` does
without, and RECURSIVE operators, which no module declares.

## 6. Where code and documentation disagree

Each is a run that is expected to find a violation; `findings` in `PROJECT.json` quotes the sentence.

1. `StoreResurrect`. A save of a copy that was loaded before a delete writes the session again, with
   the queue it had (`session_queue.go:49`), although updates "cannot drop or resurrect messages".
2. `TurnMessageLost`. A message sent while an in-process start runs stays with the reserved ID, which
   the start deletes (`agent_run.go:680-684`).
3. `TurnTwoWriters`. The check for live writers and the claim are two steps (`agent_run.go:745`).
4. `TurnWaitHangs`. A launcher that dies before it recorded its worker leaves a running record that
   names no process; a wait polls for ever (`agent_async.go:476`).
5. `ServerTwice`. A start whose probe met a server that was just closing removes the path of the
   server that took over from it (`server.go:201`), and two servers run, although "a single server
   runs per host".
6. `ChannelReplaced`. A server that ends compares tokens and then removes the path; a replacement that
   registers in between loses its entry (`registry.go:207`), although "an old process must not remove
   a replacement's registration on exit".

Seen while modelling, without a run of their own:

- `agent_send.go` and `docs/AgentMessaging.md` say that messages to AGY queue until the session is
  idle. An upstream request that fails leaves `inflight` raised for good (`meter.go:377`: the proxy does
  not call `ModifyResponse`), as a lost tool-end hook leaves `openTools`; AGY is idle then and what is
  queued is never typed. `InboxDrained` therefore asks that no event was lost and no request is left open.
- Of two responses whose readers are reordered, the one with a tool call may be told last: it leaves
  `lastFunctionCall` set though AGY went on and is free, and the queue waits for the end of the next response.
- The quiet window and the typing guard (`docs/AgentMessaging.md:114-115`) are never set: `QuietWindow`
  and `TypingGuard` are zero everywhere. After a message is typed AGY counts as free until its
  request reaches the meter, so the loop types the next one at once.
- `agent start -i` and `resume -i` pass no observer to the meter, so a message may be typed into a
  running turn between its tools. That is why `BusyIsNotIdle` speaks of requests that the meter has counted and
  of tools that run, and not of the turn.
- `docs/UsageCollection.md:56-58` says that a record of a kind the server does not know waits in the spool;
  so it does. An update whose tool call is missing does not wait: the drain removes it with a warning once a
  minute (`telemetry_server.go:86`), as a test asserts, also when the call itself is still in the spool behind
  it. `SpoolInv` names the case.
- `docs/PiAgent.md:365` says that apply refuses an unrecorded temporary file. Only the strict update
  walks the directory.

## 7. What is not modelled

In the modelled parts: the token watchdog, compaction decisions, blocked resumes, quarantine, lineage
checks, quota records and the retry of a stale provider session; `wait --timeout`;
interactive sessions; of the provider-session-ID field all but whether it is set; a start that asks for the name
a failed one was set aside with. The tree of a provider is one process. In the Pi
extension: capture callbacks that throw and a scheduler that fails, texts, labels and the status
line, configuration parsing, the file operations of `CaptureStore`, Windows, and the reuse of a group
ID after the leader is reaped (which `signalGroup` can only narrow). "Members" of a group means what
the group check sees.

In the AGY supervisor: the prompt, compact and stop controls, the terminal and its resizing, the search
for the provider's session ID, the records and certificates of the meter, and two supervisors on one
inbox. In the channel: the MCP protocol, authentication, invalid registration files and the Codex
route. In the installer: clashes of the Pi directory itself, subdirectories of the package, diff and
status, which only read; `Preflight` refuses an update also when nothing but the ledger has changed, where the code compares what
it derives from it (`pi_background.go:777`), so the model refuses a little more. In
the documents: the first AGENTS.md of an init, the backfill of its rules header, quota rules, the project
summary and the migration of old init rules; a last line without a newline, to which reconcile may
glue a begin marker; Makefile markers, which go through the same functions,
variants, the rendering of what is picked, the drift report but for the part it compares. In the
server: the hand-over to systemd, foreign programs on the socket, the automatic start by a client,
rate-limited hook records and retry budgets.

The rest of the inventory is sequential text processing, rendering, parsing, calls of external
services, or serialised by SQLite and git; `components` has a note on each.

## 8. Known limits

Behaviour that the models contain, that the code does not rule out and that no sentence of the
repository forbids, so that no property claims otherwise:

- A Save of a stale copy can bring a released name back, so two records can bear one name.
- A creator that dies between open and write leaves an empty record file that blocks its ID.
- `stop` kills the processes of the record it read; a turn claimed afterwards goes on, although the
  session is reported as stopped.
- The final record of a start does not name its worker, which still runs its wrap-up for a moment.
- A `wait` on a reserved ID loses the session when an in-process start stores it under another.
- `rate` writes back the whole record it loaded and can roll back status and turn number.
- A detached resume puts its snapshot of the queue in the prompt and its worker adds its own in front
  (`agent_run.go:856`): a message may be told twice.
- A message that was typed but not marked when the supervisor died is typed again after a resume; one
  that a terminal refused is marked "failed" and not tried again; the inbox of `harnez-agy` has a new
  session ID each time, so what it leaves queued is never loaded again.
- A request on the side of AGY that ends, or a response whose side reader fell behind, resets
  `lastFunctionCall`, and the session counts as idle between its tools.
- A channel server that was slow to answer one health check loses its registration to another one, and
  `register` or a listing fails when another process removed the entry first.
- Apply, clean and prune, unlike reconcile, do not look for torn sections: with one marker missing they
  take text of a person for the section. A bundled doc without a stop marker that differs is replaced,
  with a warning, unless bundled text with a heading and more behind it is all it has.
- An init does no more than migrate a file in which a template block is malformed; torn sections that are not of the
  template it takes like any other.
- A start that finds its name with a failed start renames that record from the copy it read, which
  a resume may have changed meanwhile.
- A start that was asked to take over dials anew for `POST /shutdown`, so it may shut down a server that
  came after the one it probed.
- A record whose answer was late is stored twice, as is one whose drain died before it removed the file; of
  one whose insert failed in the middle the first rows are stored again.
- An update of a tool call that is drained before the call is stored is dropped. A record of a kind that no
  server knows stays in the spool for ever and takes of its cap.
- Temporary files of killed senders are never removed and eat the spool's cap; an append whose listing
  races a drain drops its record though the spool is not full.
- A cancel that arrives while the Pi shutdown waits may start an attempt that ends after the release
  and arms a watch on a task that is already forgotten.
- A run that starts while another extension's hook holds Pi's compaction may have a follow-up
  rejected (documented in `docs/PiAgent.md`); `HeldWhileCompacting` excludes exactly this case.

## 9. Plan

Done: the registry and the turns, because everything else meets there; the Pi machines; then the
installer, the documents, the local server, the AGY inbox and the channel.

Next, in this order:

1. `CaptureStore`, and a composition in which `BackgroundTasks` and `CompletionDelivery` share their
   callbacks.
2. `SessionState`: what the unlocked read-modify-write of the CLI's counters can lose.
3. `ProcessTree`: forks during `StopTree`.
4. The token store, whose two files are saved in order, and the token watchdog of a turn.

Theorems: that the follow-ups of `BackgroundTasks` are the `Submit`s that `CompletionDelivery` expects, once a
composition states it. The size of the runs is bounded by their time; where more
components need checking, a composition as `MCRegistries` keeps their number small.
