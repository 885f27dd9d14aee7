---------------------------- MODULE LocalServer ----------------------------
(***************************************************************************)
(* The local harnez server: processes that claim its Unix socket from one  *)
(* another, the telemetry records that are posted to whoever owns it, and  *)
(* the spool in which a sender leaves a record that was not taken and      *)
(* which the collector of a running server drains.  Processes are killed,  *)
(* requests time out, records are refused.  The path of the socket names   *)
(* at most one listener; a listener whose path was removed still listens.  *)
(* Systemd is left out: no unit owns the old server.                       *)
(***************************************************************************)
EXTENDS Naturals, FiniteSets, Sequences, SequencesExt

CONSTANTS
  Servers,   \* server processes; each is started once
  Build,     \* Build[s]: its version and identity, compared as a number
  Records,   \* telemetry records, each sent by a process of its own
  Refused,   \* those that are no record or violate a constraint of the store
  Parted,    \* those that are stored as several rows, without a transaction
  Since,     \* Since[r]: the first build that knows the kind of r and reads its payload
  Call,      \* Call[r]: the record of the tool call that r completes, or None
  Cap,       \* the cap of the spool, in records
  First,     \* the server that runs already, or None
  None,
  MaxFaults  \* bound on kills, requests that time out and failed inserts

ASSUME ServerAssumption ==
  /\ Build \in [Servers -> Nat] /\ Since \in [Records -> Nat]
  /\ Refused \subseteq Records
  /\ Call \in [Records -> Records \cup {None}]
  /\ Parted \subseteq {r \in Records : Call[r] = None}
  /\ First \in Servers \cup {None} /\ None \notin Servers \cup Records
  /\ None \notin {"delivered", "spooled"}
  /\ Cap \in Nat
  /\ MaxFaults \in Nat

VARIABLES
  path,      \* the process whose socket the path names, or None
  pc, peer,  \* of each server: where it is, whom it probes
  asked,     \* the servers that got a shutdown request
  services,  \* the servers whose services run
  drain,     \* of each server: the names that its drain has still to look at
  consumed,  \* the servers whose drain has consumed its first name with success
  sender,    \* of each record: where its sender is
  result,    \* what the sender was told
  listing,   \* the names that the holder of the spool's lock has listed
  files, temp, quarantine,  \* the spool: records, left temporary files
  stored,    \* how often the store has each record, or a part of it
  whole,     \* the records which it has in whole
  discarded, \* history: a drain found no tool call for them
  misjudged, \* history: a path was removed while its owner was listening
  overdue,   \* history: services were not joined in time
  again,     \* history: how often a record was kept after it, or a part, was stored
  faults

claim == <<path, pc, peer, asked, misjudged>>
collector == <<services, drain, consumed, overdue>>
spool == <<sender, result, listing, files, temp, quarantine>>
store == <<stored, whole, discarded, again>>
vars == <<claim, collector, spool, store, faults>>

Listening(s) == pc[s] \in {"serve", "join", "release"}
Holder == {r \in Records : sender[r] \in {"listed", "write"}}

TypeOK ==
  /\ path \in Servers \cup {None}
  /\ pc \in [Servers -> {"off", "lstat", "probe", "remove", "ask", "await",
                         "listen", "serve", "join", "release", "exit", "over"}]
  /\ peer \in [Servers -> Servers \cup {None}]
  /\ asked \subseteq Servers /\ services \subseteq Servers /\ consumed \subseteq Servers
  /\ drain \in [Servers -> Seq(Records)]
  /\ sender \in [Records -> {"new", "spool", "listed", "write", "over"}]
  /\ result \in [Records -> {None, "delivered", "spooled", "dropped"}]
  /\ listing \subseteq Records /\ files \in Seq(Records) /\ temp \in Nat
  /\ quarantine \subseteq Records /\ Cardinality(Holder) <= 1
  /\ stored \in [Records -> Nat] /\ again \in [Records -> Nat]
  /\ whole \subseteq Records /\ discarded \subseteq Records

Init ==
  /\ path = First
  /\ pc = [s \in Servers |-> IF s = First THEN "serve" ELSE "off"]
  /\ peer = [s \in Servers |-> None] /\ asked = {} /\ misjudged = FALSE
  /\ services = {First} \cap Servers /\ drain = [s \in Servers |-> <<>>]
  /\ consumed = {} /\ overdue = FALSE
  /\ sender = [r \in Records |-> "new"] /\ result = [r \in Records |-> None]
  /\ listing = {} /\ files = <<>> /\ temp = 0 /\ quarantine = {}
  /\ stored = [r \in Records |-> 0] /\ again = [r \in Records |-> 0]
  /\ whole = {} /\ discarded = {} /\ faults = 0

-----------------------------------------------------------------------------
(* A server starts and claims the socket. *)
At(s, l) == pc[s] = l
Go(s, l) == pc' = [pc EXCEPT ![s] = l]
Fault == faults < MaxFaults /\ faults' = faults + 1

Start(s) ==
  /\ At(s, "off") /\ Go(s, "lstat")
  /\ UNCHANGED <<path, peer, asked, misjudged, collector, spool, store, faults>>

\* Without a path there is nobody to claim it from; otherwise the probe
\* connects to the listener that the path names now.
Lstat(s) ==
  /\ At(s, "lstat")
  /\ Go(s, IF path = None THEN "listen" ELSE "probe")
  /\ peer' = [peer EXCEPT ![s] = path]
  /\ UNCHANGED <<path, asked, misjudged, collector, spool, store, faults>>

\* GET /status: only a newer build goes on.
Answered(s) ==
  /\ At(s, "probe") /\ Listening(peer[s])
  /\ Go(s, IF Build[s] > Build[peer[s]] THEN "ask" ELSE "over")
  /\ UNCHANGED <<path, peer, asked, misjudged, collector, spool, store, faults>>

\* No listener is left, or it does not answer in time: the socket is stale.
NoAnswer(s) ==
  /\ At(s, "probe") /\ Go(s, "remove")
  /\ IF Listening(peer[s]) THEN Fault ELSE UNCHANGED faults
  /\ UNCHANGED <<path, peer, asked, misjudged, collector, spool, store>>

\* removeStaleSocket removes whatever the path names by now.
RemoveStale(s) ==
  /\ At(s, "remove") /\ Go(s, "listen")
  /\ path' = None
  /\ misjudged' = (misjudged \/ (path # None /\ Listening(path)))
  /\ UNCHANGED <<peer, asked, collector, spool, store, faults>>

\* POST /shutdown, on a new connection.
AskShutdown(s) ==
  /\ At(s, "ask")
  /\ IF path # None /\ Listening(path)
     THEN asked' = asked \cup {path} /\ Go(s, "await")
     ELSE Go(s, "over") /\ UNCHANGED asked
  /\ UNCHANGED <<path, peer, misjudged, collector, spool, store, faults>>

\* The path is polled until it is gone; after TakeoverTimeout the start fails.
Released(s) ==
  /\ At(s, "await") /\ path = None /\ Go(s, "listen")
  /\ UNCHANGED <<path, peer, asked, misjudged, collector, spool, store, faults>>

TakeoverTimeout(s) ==
  /\ At(s, "await") /\ path # None /\ Go(s, "over")
  /\ UNCHANGED <<path, peer, asked, misjudged, collector, spool, store, faults>>

\* net.Listen fails if the path exists; the collector drains at its start.
Listen(s) ==
  /\ At(s, "listen")
  /\ IF path = None
     THEN /\ path' = s /\ Go(s, "serve") /\ services' = services \cup {s}
          /\ drain' = [drain EXCEPT ![s] = files]
     ELSE Go(s, "over") /\ UNCHANGED <<path, services, drain>>
  /\ UNCHANGED <<peer, asked, misjudged, consumed, overdue, spool, store, faults>>

(* A server ends. *)

\* A shutdown request, a signal or a failed service cancels the services.
Cancel(s) ==
  /\ At(s, "serve")
  /\ Go(s, "join")
  /\ UNCHANGED <<path, peer, asked, misjudged, collector, spool, store, faults>>

\* Mutant of Joined: the socket is released first.
JoinedLater(s) ==
  /\ At(s, "join") /\ Go(s, "exit") /\ path' = None
  /\ UNCHANGED <<peer, asked, misjudged, collector, spool, store, faults>>

\* The collector returns between two names of its drain.
Joined(s) ==
  /\ At(s, "join") /\ s \notin consumed
  /\ services' = services \ {s} /\ drain' = [drain EXCEPT ![s] = <<>>]
  /\ Go(s, "release")
  /\ UNCHANGED <<path, peer, asked, misjudged, consumed, overdue, spool, store, faults>>

\* After ShutdownTimeout the socket goes and the services live until main exits.
NotJoined(s) ==
  /\ At(s, "join") /\ Fault
  /\ path' = None /\ overdue' = TRUE /\ Go(s, "exit")
  /\ UNCHANGED <<peer, asked, misjudged, services, drain, consumed, spool, store>>

\* httpServer.Shutdown closes the listener, which removes the path, whoever's
\* socket it names.
Release(s) ==
  /\ At(s, "release") /\ path' = None /\ Go(s, "over")
  /\ UNCHANGED <<peer, asked, misjudged, collector, spool, store, faults>>

\* The file of the record that the drain has consumed is not removed.
FileStays(s) ==
  /\ again' = IF s \in consumed /\ Head(drain[s]) \in whole
              THEN [again EXCEPT ![Head(drain[s])] = @ + 1] ELSE again
  /\ UNCHANGED <<stored, whole, discarded>>

\* Nothing of a process survives it but what its drain has stored already.
Gone(s) ==
  /\ Go(s, "over") /\ services' = services \ {s}
  /\ drain' = [drain EXCEPT ![s] = <<>>] /\ consumed' = consumed \ {s}
  /\ FileStays(s)
  /\ UNCHANGED <<path, peer, asked, misjudged, overdue, spool>>

Exit(s) == At(s, "exit") /\ Gone(s) /\ UNCHANGED faults
Kill(s) ==
  /\ pc[s] \notin {"off", "over"} /\ Fault /\ Gone(s)

-----------------------------------------------------------------------------
(* A record is sent. *)
SendTo(r, l) == sender' = [sender EXCEPT ![r] = l]
Told(r, w) == SendTo(r, "over") /\ result' = [result EXCEPT ![r] = w]

\* What becomes of a record that a server processes.  An update of the session's
\* latest tool call fails while the store has none.
Knows(s, r) == Build[s] >= Since[r]
Toolless(r) == Call[r] # None /\ Call[r] \notin whole
Storable(s, r) == Knows(s, r) /\ r \notin Refused /\ ~ Toolless(r)

Insert(r) ==
  /\ stored' = [stored EXCEPT ![r] = @ + 1] /\ whole' = whole \cup {r}
  /\ UNCHANGED discarded

\* An insert that fails has stored nothing, or the first rows of several.
InsertFails(r) ==
  \/ UNCHANGED store
  \/ /\ r \in Parted
     /\ stored' = [stored EXCEPT ![r] = @ + 1] /\ again' = [again EXCEPT ![r] = @ + 1]
     /\ UNCHANGED <<whole, discarded>>

\* PostUpdate: the owner of the path stores it and answers, or answers late,
\* or with an error, or there is none.
Posted(r) == path # None /\ Listening(path) /\ Knows(path, r)
Served(r) == Posted(r) /\ Storable(path, r)
Delivered(r) ==
  /\ sender[r] = "new" /\ Served(r) /\ Insert(r) /\ Told(r, "delivered")
  /\ UNCHANGED <<claim, collector, listing, files, temp, quarantine, again, faults>>
DeliveredLate(r) ==
  /\ sender[r] = "new" /\ Served(r) /\ Insert(r) /\ Fault
  /\ again' = [again EXCEPT ![r] = @ + 1] /\ SendTo(r, "spool")
  /\ UNCHANGED <<claim, collector, result, listing, files, temp, quarantine>>
NotDelivered(r) ==
  /\ sender[r] = "new" /\ SendTo(r, "spool")
  /\ IF Served(r) THEN Fault ELSE UNCHANGED faults
  /\ IF Posted(r) THEN InsertFails(r) ELSE UNCHANGED store
  /\ UNCHANGED <<claim, collector, result, listing, files, temp, quarantine>>

\* AppendTelemetrySpool: under the lock, the names are listed, ...
Enlist(r) ==
  /\ sender[r] = "spool" /\ Holder = {}
  /\ SendTo(r, "listed") /\ listing' = ToSet(files)
  /\ UNCHANGED <<claim, collector, result, files, temp, quarantine, store, faults>>

\* Mutant of Measure: the temporary files are not counted.
MeasureFiles(r) ==
  /\ sender[r] = "listed"
  /\ IF ~ listing \subseteq ToSet(files) \/ Cardinality(listing) + 1 > Cap
     THEN Told(r, "dropped") /\ UNCHANGED temp
     ELSE SendTo(r, "write") /\ temp' = temp + 1 /\ UNCHANGED result
  /\ UNCHANGED <<claim, collector, listing, files, quarantine, store, faults>>

\* ... measured, which fails if one of them was drained by now, ...
Measure(r) ==
  /\ sender[r] = "listed"
  /\ IF ~ listing \subseteq ToSet(files) \/ Cardinality(listing) + temp + 1 > Cap
     THEN Told(r, "dropped") /\ UNCHANGED temp
     ELSE SendTo(r, "write") /\ temp' = temp + 1 /\ UNCHANGED result
  /\ UNCHANGED <<claim, collector, listing, files, quarantine, store, faults>>

\* ... and the new one is renamed from its temporary name.
Rename(r) ==
  /\ sender[r] = "write" /\ Told(r, "spooled")
  /\ files' = Append(files, r) /\ temp' = temp - 1
  /\ UNCHANGED <<claim, collector, listing, quarantine, store, faults>>

\* A killed sender leaves its temporary file and no lock.
KillSender(r) ==
  /\ sender[r] \notin {"new", "over"} /\ Fault
  /\ SendTo(r, "over")
  /\ UNCHANGED <<claim, collector, result, listing, files, temp, quarantine,
                 store>>

-----------------------------------------------------------------------------
(* The spool is drained, without its lock. *)
Draining(s) == s \in services /\ drain[s] # <<>>

\* The spool without the file of r, which may be gone already.
Without(r) ==
  IF r \in ToSet(files) THEN RemoveAt(files, CHOOSE i \in DOMAIN files : files[i] = r)
  ELSE files

\* The next tick of the collector.
Tick(s) ==
  /\ s \in services /\ At(s, "serve") /\ drain[s] = <<>> /\ files # <<>>
  /\ drain' = [drain EXCEPT ![s] = files]
  /\ UNCHANGED <<claim, services, consumed, overdue, spool, store, faults>>

Skip(s) == drain' = [drain EXCEPT ![s] = Tail(@)]

\* The next name of the drain, which is still to be consumed.
Reads(s, r) == Draining(s) /\ s \notin consumed /\ r = Head(drain[s]) /\ r \in ToSet(files)

\* The file was removed by another drain: this one ends.
Missed(s) ==
  /\ Draining(s) /\ s \notin consumed /\ Head(drain[s]) \notin ToSet(files)
  /\ drain' = [drain EXCEPT ![s] = <<>>]
  /\ UNCHANGED <<claim, services, consumed, overdue, spool, store, faults>>

\* The record is stored; its file is removed next.
Consume(s) ==
  \E r \in Records :
    /\ Reads(s, r) /\ Storable(s, r) /\ Insert(r) /\ consumed' = consumed \cup {s}
    /\ UNCHANGED <<claim, services, drain, overdue, spool, again, faults>>

\* No tool call is found for it: the drain takes this for a success and says so
\* in a message.
Discard(s) ==
  \E r \in Records :
    /\ Reads(s, r) /\ Knows(s, r) /\ Toolless(r)
    /\ discarded' = discarded \cup {r} /\ consumed' = consumed \cup {s}
    /\ UNCHANGED <<claim, services, drain, overdue, spool, stored, whole, again,
                   faults>>

\* Mutant of Unknown: the error ends the drain.
UnknownEnds(s) ==
  \E r \in Records :
    /\ Reads(s, r) /\ ~ Knows(s, r) /\ drain' = [drain EXCEPT ![s] = <<>>]
    /\ UNCHANGED <<claim, services, consumed, overdue, spool, store, faults>>

\* An error keeps the file for the next tick, and the drain goes on: that of a
\* kind that this server does not know, on every tick, ...
Unknown(s) ==
  \E r \in Records :
    /\ Reads(s, r) /\ ~ Knows(s, r) /\ Skip(s)
    /\ UNCHANGED <<claim, services, consumed, overdue, spool, store, faults>>

\* ... or that of an insert.  A file that cannot be read ends the drain.
ConsumeFails(s) ==
  \E r \in Records :
    /\ Reads(s, r) /\ Storable(s, r) /\ Fault /\ InsertFails(r)
    /\ (Skip(s) \/ (drain' = [drain EXCEPT ![s] = <<>>] /\ UNCHANGED store))
    /\ UNCHANGED <<claim, services, consumed, overdue, spool>>

\* A rejected record is set aside.
Quarantine(s) ==
  \E r \in Records :
    /\ Reads(s, r) /\ Knows(s, r) /\ ~ Toolless(r) /\ r \in Refused
    /\ InsertFails(r)
    /\ quarantine' = quarantine \cup {r} /\ Skip(s) /\ files' = Without(r)
    /\ UNCHANGED <<claim, services, consumed, overdue, sender, result, listing,
                   temp, faults>>

\* Mutant of RemoveFile: the drain forgets to.
RemoveFileNot(s) ==
  /\ s \in consumed /\ consumed' = consumed \ {s} /\ Skip(s)
  /\ UNCHANGED <<claim, services, overdue, spool, store, faults>>

RemoveFile(s) ==
  /\ s \in consumed /\ consumed' = consumed \ {s} /\ Skip(s)
  /\ files' = Without(Head(drain[s]))
  /\ UNCHANGED <<claim, services, overdue, sender, result, listing, temp,
                 quarantine, store, faults>>

\* A file that cannot be removed ends the drain.
RemoveFails(s) ==
  /\ s \in consumed /\ consumed' = consumed \ {s} /\ Fault /\ FileStays(s)
  /\ drain' = [drain EXCEPT ![s] = <<>>]
  /\ UNCHANGED <<claim, services, overdue, spool>>

-----------------------------------------------------------------------------
Claim(s) ==
  \/ Lstat(s) \/ Answered(s) \/ NoAnswer(s) \/ RemoveStale(s) \/ AskShutdown(s)
  \/ Released(s) \/ TakeoverTimeout(s) \/ Listen(s)
Stop(s) == Joined(s) \/ NotJoined(s) \/ Release(s) \/ Exit(s)
Drain(s) ==
  \/ Tick(s) \/ Missed(s) \/ Consume(s) \/ Discard(s) \/ Unknown(s) \/ Quarantine(s)
  \/ RemoveFile(s)
Send(r) ==
  Delivered(r) \/ DeliveredLate(r) \/ NotDelivered(r) \/ Enlist(r) \/ Measure(r) \/ Rename(r)

Next ==
  \/ \E s \in Servers : Start(s) \/ Claim(s) \/ Cancel(s) \/ Stop(s) \/ Kill(s)
                        \/ Drain(s) \/ ConsumeFails(s) \/ RemoveFails(s)
  \/ \E r \in Records : Send(r) \/ KillSender(r)

Spec == Init /\ [][Next]_vars

\* Processes go on and tickers tick.  No server needs to start or to stay.
FairSpec ==
  /\ Spec
  /\ \A s \in Servers : /\ WF_vars(Claim(s)) /\ WF_vars(Stop(s)) /\ WF_vars(Drain(s))
                        /\ WF_vars(s \in asked /\ Cancel(s))
  /\ \A r \in Records : WF_vars(Send(r))

-----------------------------------------------------------------------------
(* Properties *)

\* A record whose sender was told that it was delivered or spooled is stored in
\* whole, in the spool or set aside, or it completes a tool call of which a drain
\* found none; through kills, late answers, inserts that fail in the middle and
\* drains of two servers.  And the spool keeps to its cap, with the files of
\* killed senders.
SpoolInv ==
  /\ TypeOK
  /\ Len(files) + temp <= Cap
  /\ \A r \in Records : result[r] \in {"delivered", "spooled"} =>
       \/ r \in whole \cup ToSet(files) \cup quarantine
       \/ r \in discarded /\ Call[r] # None

\* "Join services before releasing the socket so a replacement server cannot
\* start a scan while the old index command is still being canceled"
\* (server.go:172): the services of one server run at most, unless a start
\* removed the path of a listening server or services were not joined in time.
OneCollector ==
  ~ misjudged /\ ~ overdue => Cardinality(services) <= 1

\* A record is stored once more only for an answer that came too late, an insert
\* that failed after its first rows or a file that stayed after its record was
\* stored, as long as one collector runs.
StoredOnce ==
  ~ misjudged /\ ~ overdue => \A r \in Records : stored[r] <= 1 + again[r]

\* A start ends; and if in the end a server goes on serving, only records of a
\* kind it does not know stay in the spool, and no other waits behind them.
Drained ==
  /\ \A s \in Servers : pc[s] # "off" ~> pc[s] \in {"serve", "over"}
  /\ \A s \in Servers :
       <>[] At(s, "serve") => <>[] (\A r \in ToSet(files) : ~ Knows(s, r))

\* What the code does NOT guarantee: "A single server runs per host on the
\* Unix socket" (docs/UsageCollection.md:44).
SingleServer == Cardinality(services) <= 1
=============================================================================
