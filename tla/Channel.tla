------------------------------ MODULE Channel ------------------------------
(***************************************************************************)
(* The channel of one Claude session: Claude starts a server, which, once  *)
(* it is initialised, publishes a file with its address and token and      *)
(* passes messages on to its host.  A session that is restarted or resumed *)
(* has another server for the same file.  Nothing locks the file: a server *)
(* that registers removes a stale entry, one that ends removes its own,    *)
(* and the lister of every harnez agent send prunes entries of dead        *)
(* processes, each by reading the file again, comparing tokens and         *)
(* removing the path.  A sender looks up the file, checks the server's     *)
(* health, posts its message and may wait for the receipt that the         *)
(* recipient's reply makes.  A token is the server it belongs to.          *)
(***************************************************************************)
EXTENDS Integers, FiniteSets

CONSTANTS
  Server,      \* the processes that Claude starts for the session
  Message,     \* the messages that are sent, each with an ID of its own
  MaxReceipts, \* cfg.MaxReceipts
  Nobody       \* no file, no server

Lister == "lister"

ASSUME ChannelAssumption ==
  Nobody \notin Server /\ Lister \notin Server /\ MaxReceipts \in Nat

Actor == Server \cup {Lister}

VARIABLES
  published, \* whose registration is published
  at, read,  \* what each process does, the registration it read
  closing,   \* the servers that unregister because they end
  entries,   \* of each server's receipts, message -> state
  sending,   \* what each sender knows
  target,    \* the server it found
  written,   \* messages that were written to Claude
  replied,   \* those that the recipient replied to
  mistaken   \* an answering server missed its health check, or a remove took
             \* another entry than the one it had compared

registry == <<published, at, read, closing, mistaken>>
mail == <<entries, sending, target, written, replied>>
channelVars == <<registry, mail>>

ChannelTypeOK ==
  /\ published \in Server \cup {Nobody}
  /\ at \in [Actor -> {"off", "idle", "up", "check", "compare", "remove",
                       "link", "ready", "gone", "killed"}]
  /\ read \in [Actor -> Server \cup {Nobody}] /\ closing \subseteq Server
  /\ entries \in [Server -> [Message -> {"none", "unconfirmed", "received"}]]
  /\ sending \in [Message -> {"new", "found", "posted", "accepted", "waiting",
                              "received", "unknown", "failed"}]
  /\ target \in [Message -> Server \cup {Nobody}]
  /\ written \subseteq Message /\ replied \subseteq Message
  /\ mistaken \in BOOLEAN

ChannelInit ==
  /\ published = Nobody
  /\ at = [a \in Actor |-> IF a = Lister THEN "idle" ELSE "off"]
  /\ read = [a \in Actor |-> Nobody] /\ closing = {} /\ mistaken = FALSE
  /\ entries = [s \in Server |-> [m \in Message |-> "none"]]
  /\ sending = [m \in Message |-> "new"] /\ target = [m \in Message |-> Nobody]
  /\ written = {} /\ replied = {}

Goto(a, p) == at' = [at EXCEPT ![a] = p]

Alive(s) == at[s] \notin {"off", "gone", "killed"}

\* Its HTTP server runs: /health answers.
Answers(s) == Alive(s) /\ s \notin closing

-----------------------------------------------------------------------------
\* Run, up to the first read of register, after "notifications/initialized".
Start(s) ==
  /\ at[s] = "off" /\ Goto(s, "up")
  /\ UNCHANGED <<published, read, closing, mistaken, mail>>

Register(s) ==
  /\ at[s] = "up" /\ read' = [read EXCEPT ![s] = published]
  /\ Goto(s, IF published = Nobody THEN "link" ELSE "check")
  /\ UNCHANGED <<published, closing, mistaken, mail>>

\* checkRegistration of the previous entry; one that answers ends this
\* server, but an answer may be late.
CheckPrevious(s) ==
  /\ at[s] = "check"
  /\ \/ Answers(read[s]) /\ Goto(s, "gone") /\ UNCHANGED mistaken
     \/ Goto(s, "compare") /\ mistaken' = (mistaken \/ Answers(read[s]))
  /\ UNCHANGED <<published, read, closing, mail>>

\* What follows an unregister that found nothing to remove, or removed it.
Unregistered(a) ==
  IF a = Lister THEN "idle" ELSE IF a \in closing THEN "gone" ELSE "link"

\* unregister reads the file again: only an entry with the same token goes.
Compare(a) ==
  /\ at[a] = "compare"
  /\ Goto(a, IF published = read[a] THEN "remove" ELSE Unregistered(a))
  /\ UNCHANGED <<published, read, closing, mistaken, mail>>

\* os.Remove takes whatever is there now, or fails.
RemovePath(a) ==
  /\ at[a] = "remove" /\ published' = Nobody
  /\ mistaken' = (mistaken \/ published \notin {Nobody, read[a]})
  /\ Goto(a, IF published = Nobody /\ a # Lister THEN "gone" ELSE Unregistered(a))
  /\ UNCHANGED <<read, closing, mail>>

\* Mutant: the file is renamed over the path.
LinkOver(s) ==
  /\ at[s] = "link"
  /\ published' = s /\ Goto(s, "ready")
  /\ UNCHANGED <<read, closing, mistaken, mail>>

\* os.Link does not replace: a server that finds an entry ends with an error.
Link(s) ==
  /\ at[s] = "link"
  /\ IF published = Nobody THEN published' = s /\ Goto(s, "ready")
     ELSE Goto(s, "gone") /\ UNCHANGED published
  /\ UNCHANGED <<read, closing, mistaken, mail>>

\* End of input, a signal or a failed write: ready is withdrawn, the HTTP
\* server closed, and a server that registered removes its entry.
Leave(s) ==
  /\ closing' = closing \cup {s}
  /\ IF at[s] = "ready"
     THEN Goto(s, "compare") /\ read' = [read EXCEPT ![s] = s]
     ELSE Goto(s, "gone") /\ UNCHANGED read

Stop(s) ==
  /\ at[s] \in {"up", "ready"} /\ Leave(s)
  /\ UNCHANGED <<published, mistaken, mail>>

Kill(s) ==
  /\ Alive(s) /\ Goto(s, "killed")
  /\ UNCHANGED <<published, read, closing, mistaken, mail>>

\* List: an entry of a dead process is pruned, one of a live process only
\* skipped when it does not answer.
Prune ==
  /\ at[Lister] = "idle" /\ published # Nobody /\ ~ Alive(published)
  /\ read' = [read EXCEPT ![Lister] = published] /\ Goto(Lister, "compare")
  /\ UNCHANGED <<published, closing, mistaken, mail>>

-----------------------------------------------------------------------------
\* lookup of a sender, with the health check.
Find(m) ==
  /\ sending[m] = "new"
  /\ \/ /\ published # Nobody /\ Answers(published)
        /\ target' = [target EXCEPT ![m] = published]
        /\ sending' = [sending EXCEPT ![m] = "found"]
     \/ sending' = [sending EXCEPT ![m] = "failed"] /\ UNCHANGED target
  /\ UNCHANGED <<registry, entries, written, replied>>

Pending(s) == {m \in Message : entries[s][m] # "none"}

\* POST /message up to reserve: a server that is gone, not ready or full
\* refuses.
Post(m) ==
  /\ sending[m] = "found"
  /\ IF at[target[m]] = "ready" /\ Cardinality(Pending(target[m])) < MaxReceipts
     THEN /\ entries' = [entries EXCEPT ![target[m]][m] = "unconfirmed"]
          /\ sending' = [sending EXCEPT ![m] = "posted"]
     ELSE sending' = [sending EXCEPT ![m] = "failed"] /\ UNCHANGED entries
  /\ UNCHANGED <<registry, target, written, replied>>

\* ... the write to Claude and the answer, which may be late.
Write(m) ==
  /\ sending[m] = "posted" /\ Answers(target[m])
  /\ written' = written \cup {m}
  /\ sending' \in {[sending EXCEPT ![m] = a] : a \in {"accepted", "unknown"}}
  /\ UNCHANGED <<registry, entries, target, replied>>

\* ... a write that fails ends the server.
WriteFails(m) ==
  /\ sending[m] = "posted" /\ at[target[m]] = "ready" /\ Leave(target[m])
  /\ sending' = [sending EXCEPT ![m] = "failed"]
  /\ UNCHANGED <<published, mistaken, entries, target, written, replied>>

\* ... and a server that ends breaks the connection, perhaps after the write.
Break(m) ==
  /\ sending[m] = "posted" /\ ~ Answers(target[m])
  /\ sending' = [sending EXCEPT ![m] = "unknown"]
  /\ written' \in {written, written \cup {m}}
  /\ UNCHANGED <<registry, entries, target, replied>>

\* The reply tool: ack of an entry that has not expired.  The session may
\* have read the message from an earlier server, which had the entry.
Reply(s, m) ==
  /\ m \in written /\ at[s] = "ready" /\ replied' = replied \cup {m}
  /\ entries' = IF entries[s][m] = "none" THEN entries
                ELSE [entries EXCEPT ![s][m] = "received"]
  /\ UNCHANGED <<registry, sending, target, written>>

\* prune: the retention of an entry is over.
Expire(s, m) ==
  /\ Answers(s) /\ entries[s][m] # "none"
  /\ entries' = [entries EXCEPT ![s][m] = "none"]
  /\ UNCHANGED <<registry, sending, target, written, replied>>

\* WaitReceipt looks the session up again, whose server may be another one.
Await(m) ==
  /\ sending[m] = "accepted"
  /\ \/ /\ published # Nobody /\ Answers(published)
        /\ target' = [target EXCEPT ![m] = published]
        /\ sending' = [sending EXCEPT ![m] = "waiting"]
     \/ sending' = [sending EXCEPT ![m] = "unknown"] /\ UNCHANGED target
  /\ UNCHANGED <<registry, entries, written, replied>>

\* ... and polls it until it has the receipt, fails or is out of time.
Poll(m) ==
  /\ sending[m] = "waiting"
  /\ \/ /\ Answers(target[m]) /\ entries[target[m]][m] = "received"
        /\ sending' = [sending EXCEPT ![m] = "received"]
     \/ sending' = [sending EXCEPT ![m] = "unknown"]
  /\ UNCHANGED <<registry, entries, target, written, replied>>

ChannelNext ==
  \/ \E s \in Server :
       \/ Start(s) \/ Register(s) \/ CheckPrevious(s) \/ Link(s)
       \/ Stop(s) \/ Kill(s)
       \/ \E m \in Message : Reply(s, m) \/ Expire(s, m)
  \/ \E a \in Actor : Compare(a) \/ RemovePath(a)
  \/ Prune
  \/ \E m \in Message :
       Find(m) \/ Post(m) \/ Write(m) \/ WriteFails(m) \/ Break(m)
       \/ Await(m) \/ Poll(m)

ChannelSpec == ChannelInit /\ [][ChannelNext]_channelVars

-----------------------------------------------------------------------------
(* Properties *)

\* A server that passes messages on is the registered one, so that two never
\* do, as long as every live server answers its health check in time and no
\* remove races with a new entry: register and unregister take no lock.
ReadyIsRegistered ==
  ~ mistaken => \A s \in Server : at[s] = "ready" => published = s

\* A server that ends, other than by being killed, leaves no entry of its own.
CleanExit == \A s \in Server : at[s] = "gone" => published # s

\* "accepted" is a write to Claude, and "received" a reply to that very
\* message, also when another server has taken the session over.
ReceiptsTrue ==
  \A m \in Message :
    /\ sending[m] \in {"accepted", "waiting", "received"} => m \in written
    /\ sending[m] = "received" => m \in replied

ChannelInv == ChannelTypeOK /\ ReadyIsRegistered /\ CleanExit /\ ReceiptsTrue

\* "An old process must not remove a replacement's registration on exit"
\* (internal/channel/registry.go).
ReplacementKept ==
  [][\A s \in closing :
       at[s] = "remove" /\ at'[s] = "gone" /\ published' # published =>
         published = s]_channelVars
=============================================================================
