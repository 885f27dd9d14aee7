--------------------------- MODULE PiInstallProofs ---------------------------
(***************************************************************************)
(* The installer of the Pi package for any package, any builds of it and   *)
(* any number of runs, crashes, failures and edits: what harnez wrote      *)
(* stays recorded, what a person made stays, and no interruption leaves a  *)
(* broken package that Pi finds.                                           *)
(***************************************************************************)
EXTENDS PiInstall, TLAPS

Early == {"deactivate", "mkdir", "stage"}
Late == {"leftovers", "activate", "commit"}
Planned == Early \cup {"deps"} \cup Late

\* The dependencies of the package change in this run.
Changes == (Needed(ver, seen) \ {Manifest}) \cup Leftover(ver, seen) # {}

\* What a run decided from is what it was allowed to go on from.
PlanSound ==
  pc \in Planned \cup {"preflight"} =>
    \A p \in Target(ver) : State(ver, p, seen) \in {"missing", "ok", "outdated"}

\* The ledger is the one of the plan, then the staged one.
LedgerFollows ==
  /\ pc \in Early => Records = seen.ledger
  /\ pc \in {"deps"} \cup Late => ledger = Staged(ver, seen)
  /\ pc \in {"stage", "deps"} \cup Late => dir

\* A dependency is as the plan saw it or as the plan wants it, and is the
\* latter once its phase is over.
DepsFollow ==
  pc \in Planned =>
    \A p \in (Target(ver) \cup Obsolete(ver, seen)) \ {Manifest} :
      /\ \/ disk[p] = seen.disk[p]
         \/ pc \notin Early /\ p \in Needed(ver, seen) /\ disk[p] = Payload[ver][p]
         \/ pc \in Late /\ p \in Leftover(ver, seen) /\ disk[p] = None
      /\ pc \in Late /\ p \in Needed(ver, seen) => disk[p] = Payload[ver][p]
      /\ pc \in {"activate", "commit"} /\ p \in Leftover(ver, seen) => disk[p] = None

\* package.json is away while the dependencies change.
ManifestFollows ==
  /\ pc = "deactivate" => disk[Manifest] = seen.disk[Manifest]
  /\ pc \in Planned \ {"deactivate", "commit"} =>
       IF Changes THEN disk[Manifest] = None /\ activate
       ELSE /\ disk[Manifest] = seen.disk[Manifest]
            /\ activate = (Manifest \in Needed(ver, seen))
  /\ pc = "commit" => disk[Manifest] = Payload[ver][Manifest]

\* A revert takes only what it owns, package.json first.
RevertFollows ==
  /\ pc = "revert" =>
       /\ \A p \in Owned(seen) : disk[p] \in {seen.disk[p], None}
       /\ disk[Manifest] \in {seen.disk[Manifest], None}
       /\ Manifest \in Owned(seen) \/ disk[Manifest] = None
  /\ pc \in {"marker", "rmdir"} => disk = Empty
  /\ pc = "rmdir" => ledger = None
  /\ pc \in {"revert", "marker", "rmdir"} => mode = "revert"

IInv ==
  /\ TypeOK /\ Recorded /\ PlanSound /\ LedgerFollows
  /\ DepsFollow /\ ManifestFollows /\ RevertFollows

USE PackageAssumption, NoneAssumption

-----------------------------------------------------------------------------
(* The helpers. *)

Snapshot == [disk : [Paths -> Content], ledger : Ledger]

\* Only shipped bytes are ever owned.
LEMMA OwnedBytes ==
  ASSUME NEW e \in Entry \cup {None}, NEW c, OwnedBy(e, c)
  PROVE  c \in Bytes /\ e \in Entry
  BY DEF OwnedBy, Entry

\* What the state of a path says.
LEMMA StateMeans ==
  ASSUME NEW v \in Versions, NEW p \in Paths, NEW s \in Snapshot
  PROVE  /\ s.disk[p] = None <=> State(v, p, s) = "missing"
         /\ State(v, p, s) = "ok" =>
              OwnedBy(s.ledger[p], s.disk[p]) /\ s.disk[p] = Payload[v][p]
         /\ State(v, p, s) = "outdated" <=>
              OwnedBy(s.ledger[p], s.disk[p]) /\ s.disk[p] # Payload[v][p]
         /\ State(v, p, s) \in {"missing", "clash", "drifted", "ok", "outdated"}
<1> DEFINE c == s.disk[p]
<1> DEFINE o == OwnedBy(s.ledger[p], c)
<1>1. c \in Content /\ s.ledger[p] \in Entry \cup {None}
  BY DEF Snapshot, Ledger
<1>2. o => c \in Bytes
  BY <1>1, OwnedBytes
<1>3. CASE c = None
  <2>1. ~ o
    BY <1>3 DEF OwnedBy
  <2> QED
    BY <1>3, <2>1 DEF State
<1>4. CASE c = "link"
  <2>1. ~ o
    BY <1>2, <1>4
  <2> QED
    BY <1>4, <2>1 DEF State
<1>5. CASE c # None /\ c # "link" /\ ~ o
  BY <1>5 DEF State
<1>6. CASE c # None /\ c # "link" /\ o /\ c = Payload[v][p]
  BY <1>6 DEF State
<1>7. CASE c # None /\ c # "link" /\ o /\ c # Payload[v][p]
  BY <1>7 DEF State
<1> QED
  BY <1>3, <1>4, <1>5, <1>6, <1>7

LEMMA ManifestIsTarget == ASSUME NEW v \in Versions PROVE Manifest \in Target(v)
  BY DEF Target, Paths

\* The final and the staged ledger are ledgers.
LEMMA FinalType == ASSUME NEW v \in Versions PROVE Final(v) \in Ledger
  BY DEF Final, Ledger, Entry, Target

LEMMA StagedType ==
  ASSUME NEW v \in Versions, NEW s \in Snapshot
  PROVE  /\ Staged(v, s) \in Ledger
         /\ \A p \in Target(v) : Staged(v, s)[p] \in Entry
<1> DEFINE old(p) == IF OwnedBy(s.ledger[p], s.disk[p]) THEN s.disk[p]
                     ELSE IF s.ledger[p] # None THEN s.ledger[p].installed
                     ELSE Payload[v][p]
<1>1. ASSUME NEW p \in Target(v) PROVE old(p) \in Bytes
  <2>1. s.ledger[p] \in Entry \cup {None} /\ Payload[v][p] \in Bytes
    BY <1>1 DEF Snapshot, Ledger, Target
  <2>2. OwnedBy(s.ledger[p], s.disk[p]) => s.disk[p] \in Bytes
    BY <2>1, OwnedBytes
  <2> QED
    BY <2>1, <2>2 DEF Entry
<1>2. Target(v) \subseteq Paths /\ \A p \in Target(v) : Payload[v][p] \in Bytes
  BY DEF Target
<1>3. \A p \in Target(v) : Staged(v, s)[p] =
        [installed |-> old(p),
         staged |-> IF old(p) = Payload[v][p] THEN None ELSE Payload[v][p]]
  BY <1>2 DEF Staged
<1>4. \A p \in Target(v) : Staged(v, s)[p] \in Entry
  <2> TAKE p \in Target(v)
  <2> DEFINE e == [installed |-> old(p),
                   staged |-> IF old(p) = Payload[v][p] THEN None ELSE Payload[v][p]]
  <2>1. old(p) \in Bytes /\ Payload[v][p] \in Bytes
    BY <1>1, <1>2
  <2>2. Staged(v, s)[p] = e
    BY <1>3
  <2> HIDE DEF old
  <2>3. e \in Entry
    BY <2>1 DEF Entry
  <2> QED
    BY <2>2, <2>3
<1>5. \A p \in Paths \ Target(v) : Staged(v, s)[p] = s.ledger[p] /\ s.ledger[p] \in Entry \cup {None}
  BY DEF Staged, Snapshot, Ledger
<1>6. Staged(v, s) = [p \in Paths |-> Staged(v, s)[p]]
  BY DEF Staged
<1> QED
  BY <1>4, <1>5, <1>6 DEF Ledger

\* The staged ledger owns what was owned and what is going to be written.
LEMMA StagedOwns ==
  ASSUME NEW v \in Versions, NEW s \in Snapshot, NEW p \in Target(v)
  PROVE  /\ OwnedBy(s.ledger[p], s.disk[p]) => OwnedBy(Staged(v, s)[p], s.disk[p])
         /\ OwnedBy(Staged(v, s)[p], Payload[v][p])
<1>1. p \in Paths /\ Payload[v][p] # None
  BY DEF Target
<1>2. Staged(v, s)[p] # None
  BY StagedType
<1> DEFINE old == IF OwnedBy(s.ledger[p], s.disk[p]) THEN s.disk[p]
                  ELSE IF s.ledger[p] # None THEN s.ledger[p].installed
                  ELSE Payload[v][p]
<1>3. Staged(v, s)[p] =
        [installed |-> old,
         staged |-> IF old = Payload[v][p] THEN None ELSE Payload[v][p]]
  BY <1>1 DEF Staged
<1>4. /\ Staged(v, s)[p].installed = old
      /\ old # Payload[v][p] => Staged(v, s)[p].staged = Payload[v][p]
  BY <1>3
<1>5. OwnedBy(s.ledger[p], s.disk[p]) => old = s.disk[p] /\ s.disk[p] # None
  BY DEF OwnedBy
<1> HIDE DEF old
<1>6. OwnedBy(s.ledger[p], s.disk[p]) => OwnedBy(Staged(v, s)[p], s.disk[p])
  BY <1>2, <1>4, <1>5 DEF OwnedBy
<1>7. OwnedBy(Staged(v, s)[p], Payload[v][p])
  BY <1>1, <1>2, <1>4 DEF OwnedBy
<1> QED
  BY <1>6, <1>7

-----------------------------------------------------------------------------
(* One lemma per action: it keeps the inductive invariant. *)

\* deactivatePiBackground takes package.json if its bytes are recorded.
LEMMA DeactivatedMeans ==
  ASSUME TypeOK, Deactivated
  PROVE  /\ disk' \in [Paths -> Content] /\ ours' \subseteq Paths
         /\ \A p \in Paths \ {Manifest} : disk'[p] = disk[p]
         /\ disk'[Manifest] = IF ManifestOwned THEN None ELSE disk[Manifest]
         /\ \A p \in ours' : p \in ours /\ disk'[p] = disk[p]
  BY DEF TypeOK, Deactivated, Take, Paths, Content

\* What the types say of a snapshot.
LEMMA Typed ==
  ASSUME TypeOK
  PROVE  /\ seen \in Snapshot /\ [disk |-> disk, ledger |-> Records] \in Snapshot
         /\ Records \in Ledger /\ Empty \in Ledger /\ Empty \in [Paths -> Content]
         /\ ver \in Versions /\ Manifest \in Paths
  BY DEF TypeOK, Snapshot, Records, Empty, Ledger, Content, Paths

\* A file of harnez is there, and owned by the ledger.
LEMMA OursOwned ==
  ASSUME TypeOK, Recorded, NEW p \in ours
  PROVE  /\ p \in Paths /\ Managed /\ disk[p] \in Bytes /\ disk[p] # None
         /\ OwnedBy(Records[p], disk[p]) /\ Records[p] # None
<1>1. p \in Paths /\ Managed /\ OwnedBy(Records[p], disk[p])
  BY DEF TypeOK, Recorded, Managed, Records
<1>2. Records[p] \in Entry \cup {None}
  BY <1>1, Typed DEF Ledger
<1> QED
  BY <1>1, <1>2, OwnedBytes DEF OwnedBy

LEMMA InstallKeeps == ASSUME IInv, NEW m \in {"apply", "update"}, NEW v \in Versions, Install(m, v) PROVE IInv'
<1> USE DEF IInv, site, run, bounds, Go, End, Install, Start
<1>1. TypeOK'
  <2>1. disk' \in [Paths -> Content] /\ ours' \subseteq Paths
    BY DeactivatedMeans DEF TypeOK
  <2>2. seen' \in Snapshot
    BY Typed
  <2>3. /\ pc' \in {"idle", "preflight", "deactivate"}
        /\ res' \in {"none", "ok", "refused", "failed", "reverted", "kept"}
        /\ mode' \in {"apply", "update", "revert"} /\ ver' \in Versions
        /\ runs' \in 0..MaxRuns
    BY DEF TypeOK
  <2> QED
    BY <2>1, <2>2, <2>3 DEF TypeOK, Snapshot
<1>2. Recorded'
  <2>1. \A p \in ours' : p \in ours /\ disk'[p] = disk[p]
    BY DeactivatedMeans
  <2> QED
    BY <2>1 DEF Recorded, Managed
<1>3. PlanSound'
  <2> SUFFICES ASSUME pc' # "idle", NEW p \in Target(v)
               PROVE  State(v, p, seen') \in {"missing", "ok", "outdated"}
    BY DEF PlanSound, Planned, Early, Late
  <2> DEFINE s == [disk |-> disk, ledger |-> Records]
  <2>1. seen' = s /\ ~ Unsafe(v, s) /\ ~ Refused(v, s)
    BY DEF RefusedStrictly
  <2>2. State(v, p, s) \notin {"clash", "drifted"}
    BY <2>1 DEF Unsafe, Refused
  <2>3. p \in Paths /\ s \in Snapshot
    BY Typed DEF Target
  <2> HIDE DEF s
  <2> QED
    BY <2>1, <2>2, <2>3, StateMeans
<1>4. LedgerFollows'
  BY DEF LedgerFollows, Early, Late, Records
<1>5. DepsFollow'
  BY DEF DepsFollow, Planned, Early, Late
<1>6. ManifestFollows'
  BY DEF ManifestFollows, Planned, Early, Late, Changes
<1>7. RevertFollows'
  BY DEF RevertFollows
<1> QED
  BY <1>1, <1>2, <1>3, <1>4, <1>5, <1>6, <1>7

LEMMA PreflightKeeps == ASSUME IInv, Preflight PROVE IInv'
<1> USE DEF IInv, site, run, bounds, Go, End, Preflight
<1>1. TypeOK'
  BY DEF TypeOK
<1>2. Recorded'
  BY DEF TypeOK, Recorded, Managed
<1>3. PlanSound'
  BY DEF PlanSound, Planned, Early, Late
<1>4. LedgerFollows'
  BY DEF LedgerFollows, Early, Late, Records
<1>5. DepsFollow'
  BY DEF DepsFollow, Planned, Early, Late
<1>6. ManifestFollows'
  <2>1. Manifest \in Target(ver)
    BY ManifestIsTarget, Typed
  <2> QED
    BY <2>1 DEF ManifestFollows, Planned, Early, Late, Changes
<1>7. RevertFollows'
  BY DEF RevertFollows
<1> QED
  BY <1>1, <1>2, <1>3, <1>4, <1>5, <1>6, <1>7

LEMMA DeactivateKeeps == ASSUME IInv, Deactivate PROVE IInv'
<1> USE DEF IInv, site, run, bounds, Go, End, Deactivate
<1>1. TypeOK'
  BY DeactivatedMeans DEF TypeOK
<1>2. Recorded'
  <2>1. \A p \in ours' : p \in ours /\ disk'[p] = disk[p]
    BY DeactivatedMeans
  <2> QED
    BY <2>1 DEF Recorded, Managed
<1>3. PlanSound'
  BY DEF PlanSound, Planned, Early, Late
<1>4. LedgerFollows'
  BY DEF LedgerFollows, Early, Late, Records
<1>5. DepsFollow'
  <2>1. \A p \in Paths \ {Manifest} : disk'[p] = disk[p]
    BY DeactivatedMeans
  <2>2. Target(ver) \cup Obsolete(ver, seen) \subseteq Paths
    BY DEF Target, Obsolete
  <2> QED
    BY <2>1, <2>2 DEF DepsFollow, Planned, Early, Late
<1>6. ManifestFollows'
  <2>1. /\ Changes' = Changes /\ ver' = ver /\ seen' = seen
        /\ activate' = (Manifest \in Needed(ver, seen) \/ (Changes /\ ManifestOwned))
        /\ pc' \in {"mkdir", "stage"}
    BY DEF Changes
  <2>2. disk'[Manifest] = IF Changes /\ ManifestOwned THEN None ELSE disk[Manifest]
    BY DeactivatedMeans DEF Changes
  <2>3. ManifestOwned <=> OwnedBy(seen.ledger[Manifest], seen.disk[Manifest])
    BY DEF ManifestOwned, LedgerFollows, ManifestFollows, Early
  <2>4. /\ seen.disk[Manifest] = None <=> Manifest \in Needed(ver, seen) /\ ~ ManifestOwned
        /\ seen.disk[Manifest] # None => ManifestOwned
    <3>1. Manifest \in Target(ver) /\ Manifest \in Paths
      BY ManifestIsTarget, Typed
    <3>2. State(ver, Manifest, seen) \in {"missing", "ok", "outdated"}
      BY <3>1 DEF PlanSound, Planned, Early
    <3>3. seen.disk[Manifest] = None => ~ ManifestOwned
      BY <2>3 DEF OwnedBy
    <3> QED
      BY <3>1, <3>2, <3>3, <2>3, StateMeans, Typed DEF Needed
  <2>5. disk[Manifest] = seen.disk[Manifest]
    BY DEF ManifestFollows
  <2>6. (Manifest \in Needed(ver, seen))' = (Manifest \in Needed(ver, seen))
    BY DEF Needed, State
  <2>7. CASE Changes
    <3>1. disk'[Manifest] = None
      BY <2>2, <2>4, <2>5, <2>7
    <3>2. activate'
      BY <2>1, <2>4, <2>7
    <3> QED
      BY <3>1, <3>2, <2>1, <2>7 DEF ManifestFollows
  <2>8. CASE ~ Changes
    BY <2>1, <2>2, <2>5, <2>6, <2>8 DEF ManifestFollows
  <2> QED
    BY <2>7, <2>8
<1>7. RevertFollows'
  BY DEF RevertFollows
<1> QED
  BY <1>1, <1>2, <1>3, <1>4, <1>5, <1>6, <1>7

LEMMA MakeDirKeeps == ASSUME IInv, MakeDir PROVE IInv'
<1> USE DEF IInv, site, run, bounds, Go, End, MakeDir
<1>1. TypeOK'
  BY DEF TypeOK
<1>2. Recorded'
  BY DEF TypeOK, Recorded, Managed
<1>3. PlanSound'
  BY DEF PlanSound, Planned, Early, Late
<1>4. LedgerFollows'
  BY DEF LedgerFollows, Early, Late, Records
<1>5. DepsFollow'
  BY DEF DepsFollow, Planned, Early, Late
<1>6. ManifestFollows'
  BY DEF ManifestFollows, Planned, Early, Late, Changes
<1>7. RevertFollows'
  BY DEF RevertFollows
<1> QED
  BY <1>1, <1>2, <1>3, <1>4, <1>5, <1>6, <1>7

LEMMA StageKeeps == ASSUME IInv, Stage PROVE IInv'
<1> USE DEF IInv, site, run, bounds, Go, End, Stage
<1>1. TypeOK'
  BY StagedType, Typed DEF TypeOK
<1>2. Recorded'
  <2>1. ledger' = Staged(ver, seen) /\ ledger' # None /\ dir'
    BY StagedType, Typed DEF LedgerFollows, Late
  <2> SUFFICES ASSUME NEW p \in ours PROVE OwnedBy(Staged(ver, seen)[p], disk[p])
    BY <2>1 DEF Recorded, Managed
  <2>2. /\ p \in Paths /\ disk[p] # None /\ seen.ledger[p] # None
        /\ OwnedBy(seen.ledger[p], disk[p])
    BY OursOwned DEF LedgerFollows, Early
  <2>3. CASE p \in Target(ver)
    <3>1. disk[p] = seen.disk[p]
      BY <2>2, <2>3 DEF DepsFollow, ManifestFollows, Planned, Early, Late
    <3> QED
      BY <2>2, <2>3, <3>1, StagedOwns, Typed
  <2>4. CASE p \notin Target(ver)
    BY <2>2, <2>4 DEF Staged
  <2> QED
    BY <2>3, <2>4
<1>3. PlanSound'
  BY DEF PlanSound, Planned, Early, Late
<1>4. LedgerFollows'
  BY DEF LedgerFollows, Early, Late, Records
<1>5. DepsFollow'
  BY DEF DepsFollow, Planned, Early, Late
<1>6. ManifestFollows'
  BY DEF ManifestFollows, Planned, Early, Late, Changes
<1>7. RevertFollows'
  BY DEF RevertFollows
<1> QED
  BY <1>1, <1>2, <1>3, <1>4, <1>5, <1>6, <1>7

LEMMA WriteDepKeeps == ASSUME IInv, NEW p \in Paths, WriteDep(p) PROVE IInv'
<1> USE DEF IInv, site, run, bounds, Go, End, WriteDep, Put
<1>1. TypeOK'
  <2>1. Payload[ver][p] \in Content
    BY Typed DEF Content
  <2> QED
    BY <2>1 DEF TypeOK
<1>2. Recorded'
  <2>1. p \in Target(ver)
    BY DEF Needed
  <2>2. OwnedBy(ledger[p], Payload[ver][p])
    BY <2>1, StagedOwns, Typed DEF LedgerFollows
  <2>3. Managed
    BY StagedType, Typed DEF Managed, LedgerFollows
  <2>4. disk'[p] = Payload[ver][p] /\ \A q \in Paths \ {p} : disk'[q] = disk[q]
    BY DEF TypeOK
  <2>5. ours \subseteq Paths
    BY DEF TypeOK
  <2> QED
    BY <2>2, <2>3, <2>4, <2>5 DEF Recorded, Managed
<1>3. PlanSound'
  BY DEF PlanSound, Planned, Early, Late
<1>4. LedgerFollows'
  BY DEF LedgerFollows, Early, Late, Records
<1>5. DepsFollow'
  BY DEF DepsFollow, Planned, Early, Late
<1>6. ManifestFollows'
  BY DEF ManifestFollows, Planned, Early, Late, Changes
<1>7. RevertFollows'
  BY DEF RevertFollows
<1> QED
  BY <1>1, <1>2, <1>3, <1>4, <1>5, <1>6, <1>7

LEMMA DepsWrittenKeeps == ASSUME IInv, DepsWritten PROVE IInv'
<1> USE DEF IInv, site, run, bounds, Go, End, DepsWritten
<1>1. TypeOK'
  BY DEF TypeOK
<1>2. Recorded'
  BY DEF TypeOK, Recorded, Managed
<1>3. PlanSound'
  BY DEF PlanSound, Planned, Early, Late
<1>4. LedgerFollows'
  BY DEF LedgerFollows, Early, Late, Records
<1>5. DepsFollow'
  BY DEF DepsFollow, Planned, Early, Late
<1>6. ManifestFollows'
  BY DEF ManifestFollows, Planned, Early, Late, Changes
<1>7. RevertFollows'
  BY DEF RevertFollows
<1> QED
  BY <1>1, <1>2, <1>3, <1>4, <1>5, <1>6, <1>7

LEMMA RemoveLeftoverKeeps == ASSUME IInv, NEW p \in Paths, RemoveLeftover(p) PROVE IInv'
<1> USE DEF IInv, site, run, bounds, Go, End, RemoveLeftover, Take
<1>1. TypeOK'
  BY DEF TypeOK, Content
<1>2. Recorded'
  BY DEF TypeOK, Recorded, Managed
<1>3. PlanSound'
  BY DEF PlanSound, Planned, Early, Late
<1>4. LedgerFollows'
  BY DEF LedgerFollows, Early, Late, Records
<1>5. DepsFollow'
  <2>1. disk'[p] = None /\ \A q \in Paths \ {p} : disk'[q] = disk[q]
    BY DEF TypeOK
  <2>2. p \notin Target(ver)
    BY DEF Leftover, Obsolete
  <2>3. Target(ver) \cup Obsolete(ver, seen) \subseteq Paths /\ Needed(ver, seen) \subseteq Target(ver)
    BY DEF Target, Obsolete, Needed
  <2> QED
    BY <2>1, <2>2, <2>3 DEF DepsFollow, Planned, Early, Late
<1>6. ManifestFollows'
  BY DEF ManifestFollows, Planned, Early, Late, Changes
<1>7. RevertFollows'
  BY DEF RevertFollows
<1> QED
  BY <1>1, <1>2, <1>3, <1>4, <1>5, <1>6, <1>7

LEMMA LeftoversRemovedKeeps == ASSUME IInv, LeftoversRemoved PROVE IInv'
<1> USE DEF IInv, site, run, bounds, Go, End, LeftoversRemoved
<1>1. TypeOK'
  BY DEF TypeOK
<1>2. Recorded'
  BY DEF TypeOK, Recorded, Managed
<1>3. PlanSound'
  BY DEF PlanSound, Planned, Early, Late
<1>4. LedgerFollows'
  BY DEF LedgerFollows, Early, Late, Records
<1>5. DepsFollow'
  BY DEF DepsFollow, Planned, Early, Late
<1>6. ManifestFollows'
  BY DEF ManifestFollows, Planned, Early, Late, Changes
<1>7. RevertFollows'
  BY DEF RevertFollows
<1> QED
  BY <1>1, <1>2, <1>3, <1>4, <1>5, <1>6, <1>7

LEMMA ActivateKeeps == ASSUME IInv, Activate PROVE IInv'
<1> USE DEF IInv, site, run, bounds, Go, End, Activate, Put
<1>1. TypeOK'
  <2>1. Payload[ver][Manifest] \in Content
    BY Typed DEF Content
  <2> QED
    BY <2>1, Typed DEF TypeOK
<1>2. Recorded'
  <2>1. Manifest \in Target(ver) /\ Manifest \in Paths
    BY ManifestIsTarget, Typed
  <2>2. OwnedBy(ledger[Manifest], Payload[ver][Manifest])
    BY <2>1, StagedOwns, Typed DEF LedgerFollows, Late
  <2>3. Managed
    BY StagedType, Typed DEF Managed, LedgerFollows, Late
  <2>4. activate => /\ disk'[Manifest] = Payload[ver][Manifest]
                    /\ \A q \in Paths \ {Manifest} : disk'[q] = disk[q]
    BY <2>1 DEF TypeOK
  <2>5. ours \subseteq Paths
    BY DEF TypeOK
  <2> QED
    BY <2>2, <2>3, <2>4, <2>5 DEF Recorded, Managed
<1>3. PlanSound'
  BY DEF PlanSound, Planned, Early, Late
<1>4. LedgerFollows'
  BY DEF LedgerFollows, Early, Late, Records
<1>5. DepsFollow'
  <2>1. \A q \in Paths \ {Manifest} : disk'[q] = disk[q]
    BY DEF TypeOK
  <2>2. Target(ver) \cup Obsolete(ver, seen) \subseteq Paths
    BY DEF Target, Obsolete
  <2> QED
    BY <2>1, <2>2 DEF DepsFollow, Planned, Early, Late
<1>6. ManifestFollows'
  <2> SUFFICES disk'[Manifest] = Payload[ver][Manifest]
    BY DEF ManifestFollows, Planned, Early, Late
  <2>1. CASE activate
    BY <2>1, Typed DEF TypeOK
  <2>2. CASE ~ activate
    <3>1. disk[Manifest] = seen.disk[Manifest] /\ Manifest \notin Needed(ver, seen)
      BY <2>2 DEF ManifestFollows, Planned, Late
    <3>2. Manifest \in Target(ver) /\ Manifest \in Paths
      BY ManifestIsTarget, Typed
    <3>3. State(ver, Manifest, seen) = "ok"
      BY <3>1, <3>2 DEF PlanSound, Planned, Late, Needed
    <3> QED
      BY <2>2, <3>1, <3>2, <3>3, StateMeans, Typed
  <2> QED
    BY <2>1, <2>2
<1>7. RevertFollows'
  BY DEF RevertFollows
<1> QED
  BY <1>1, <1>2, <1>3, <1>4, <1>5, <1>6, <1>7

\* Before package.json is written every dependency of the build is there.
LEMMA AllInstalled ==
  ASSUME IInv, pc \in {"activate", "commit"}, NEW p \in Target(ver),
         p # Manifest \/ pc = "commit"
  PROVE  disk[p] = Payload[ver][p]
<1> USE DEF IInv
<1>1. CASE p = Manifest
  BY <1>1 DEF ManifestFollows
<1>2. CASE p # Manifest /\ p \in Needed(ver, seen)
  BY <1>2 DEF DepsFollow, Planned, Late
<1>3. CASE p # Manifest /\ p \notin Needed(ver, seen)
  <2>1. p \in Paths /\ State(ver, p, seen) = "ok" /\ p \notin Leftover(ver, seen)
    BY <1>3 DEF PlanSound, Planned, Late, Needed, Target, Leftover, Obsolete
  <2>2. disk[p] = seen.disk[p]
    BY <1>3, <2>1 DEF DepsFollow, Planned, Late
  <2> QED
    BY <2>1, <2>2, StateMeans, Typed
<1> QED
  BY <1>1, <1>2, <1>3

LEMMA CommitKeeps == ASSUME IInv, Commit PROVE IInv'
<1> USE DEF IInv, site, run, bounds, Go, End, Commit
<1>1. TypeOK'
  BY FinalType, Typed DEF TypeOK
<1>2. Recorded'
  <2>1. ledger' = Final(ver) /\ ledger' # None /\ dir'
    BY FinalType, Typed DEF LedgerFollows, Late
  <2> SUFFICES ASSUME NEW p \in ours PROVE OwnedBy(Final(ver)[p], disk[p])
    BY <2>1 DEF Recorded, Managed
  <2>2. /\ p \in Paths /\ disk[p] # None
        /\ OwnedBy(Staged(ver, seen)[p], disk[p])
    BY OursOwned DEF LedgerFollows, Late, Records, Managed
  <2>3. p \in Target(ver)
    <3> SUFFICES ASSUME p \notin Target(ver) PROVE FALSE
      OBVIOUS
    <3>1. OwnedBy(seen.ledger[p], disk[p]) /\ seen.ledger[p] # None
      BY <2>2 DEF Staged, OwnedBy
    <3>2. p \in Obsolete(ver, seen) /\ p # Manifest /\ p \notin Needed(ver, seen)
      BY <2>2, <3>1, ManifestIsTarget, Typed DEF Obsolete, Needed
    <3>3. p \notin Leftover(ver, seen) /\ disk[p] = seen.disk[p]
      BY <2>2, <3>2 DEF DepsFollow, Planned, Late, Early
    <3>4. Payload[ver][p] = None
      BY <2>2 DEF Target
    <3>5. State(ver, p, seen) = "outdated"
      BY <2>2, <3>1, <3>3, <3>4, StateMeans, Typed
    <3> QED
      BY <3>2, <3>3, <3>5 DEF Leftover
  <2>4. disk[p] = Payload[ver][p]
    BY <2>3, AllInstalled
  <2>5. Final(ver)[p] = [installed |-> Payload[ver][p], staged |-> None]
        /\ Payload[ver][p] \in Bytes
    BY <2>2, <2>3, Typed DEF Final, Target
  <2>6. Final(ver)[p] # None
    BY <2>5 DEF Entry
  <2> QED
    BY <2>2, <2>4, <2>5, <2>6 DEF OwnedBy
<1>3. PlanSound'
  BY DEF PlanSound, Planned, Early, Late
<1>4. LedgerFollows'
  BY DEF LedgerFollows, Early, Late, Records
<1>5. DepsFollow'
  BY DEF DepsFollow, Planned, Early, Late
<1>6. ManifestFollows'
  BY DEF ManifestFollows, Planned, Early, Late, Changes
<1>7. RevertFollows'
  BY DEF RevertFollows
<1> QED
  BY <1>1, <1>2, <1>3, <1>4, <1>5, <1>6, <1>7

LEMMA RevertKeeps == ASSUME IInv, NEW v \in Versions, Revert(v) PROVE IInv'
<1> USE DEF IInv, site, run, bounds, Go, End, Revert, Start
<1>1. TypeOK'
  <2>1. seen' \in Snapshot
    BY Typed
  <2> QED
    BY <2>1 DEF TypeOK, Snapshot
<1>2. Recorded'
  BY DEF TypeOK, Recorded, Managed
<1>3. PlanSound'
  BY DEF PlanSound, Planned, Early, Late
<1>4. LedgerFollows'
  BY DEF LedgerFollows, Early, Late, Records
<1>5. DepsFollow'
  BY DEF DepsFollow, Planned, Early, Late
<1>6. ManifestFollows'
  BY DEF ManifestFollows, Planned, Early, Late, Changes
<1>7. RevertFollows'
  <2>1. ~ ManifestOwned => disk[Manifest] = None \/ pc' = "idle"
    OBVIOUS
  <2>2. ManifestOwned => Manifest \in Owned([disk |-> disk, ledger |-> Records])
    BY Typed DEF ManifestOwned, Owned
  <2> QED
    BY <2>1, <2>2 DEF RevertFollows
<1> QED
  BY <1>1, <1>2, <1>3, <1>4, <1>5, <1>6, <1>7

LEMMA RevertFileKeeps == ASSUME IInv, NEW p \in Paths, RevertFile(p) PROVE IInv'
<1> USE DEF IInv, site, run, bounds, Go, End, RevertFile, Take
<1>1. TypeOK'
  BY DEF TypeOK, Content
<1>2. Recorded'
  BY DEF TypeOK, Recorded, Managed
<1>3. PlanSound'
  BY DEF PlanSound, Planned, Early, Late
<1>4. LedgerFollows'
  BY DEF LedgerFollows, Early, Late, Records
<1>5. DepsFollow'
  BY DEF DepsFollow, Planned, Early, Late
<1>6. ManifestFollows'
  BY DEF ManifestFollows, Planned, Early, Late, Changes
<1>7. RevertFollows'
  BY DEF RevertFollows
<1> QED
  BY <1>1, <1>2, <1>3, <1>4, <1>5, <1>6, <1>7

LEMMA RevertFilesKeeps == ASSUME IInv, RevertFiles PROVE IInv'
<1> USE DEF IInv, site, run, bounds, Go, End, RevertFiles
<1>1. TypeOK'
  BY DEF TypeOK
<1>2. Recorded'
  BY DEF TypeOK, Recorded, Managed
<1>3. PlanSound'
  BY DEF PlanSound, Planned, Early, Late
<1>4. LedgerFollows'
  BY DEF LedgerFollows, Early, Late, Records
<1>5. DepsFollow'
  BY DEF DepsFollow, Planned, Early, Late
<1>6. ManifestFollows'
  BY DEF ManifestFollows, Planned, Early, Late, Changes
<1>7. RevertFollows'
  BY DEF RevertFollows
<1> QED
  BY <1>1, <1>2, <1>3, <1>4, <1>5, <1>6, <1>7

LEMMA RemoveMarkerKeeps == ASSUME IInv, RemoveMarker PROVE IInv'
<1> USE DEF IInv, site, run, bounds, Go, End, RemoveMarker
<1>1. TypeOK'
  BY DEF TypeOK
<1>2. Recorded'
  <2>1. ours = {}
    BY OursOwned DEF RevertFollows, Empty
  <2> QED
    BY <2>1 DEF Recorded
<1>3. PlanSound'
  BY DEF PlanSound, Planned, Early, Late
<1>4. LedgerFollows'
  BY DEF LedgerFollows, Early, Late, Records
<1>5. DepsFollow'
  BY DEF DepsFollow, Planned, Early, Late
<1>6. ManifestFollows'
  BY DEF ManifestFollows, Planned, Early, Late, Changes
<1>7. RevertFollows'
  BY DEF RevertFollows
<1> QED
  BY <1>1, <1>2, <1>3, <1>4, <1>5, <1>6, <1>7

LEMMA RemoveDirKeeps == ASSUME IInv, RemoveDir PROVE IInv'
<1> USE DEF IInv, site, run, bounds, Go, End, RemoveDir
<1>1. TypeOK'
  BY DEF TypeOK
<1>2. Recorded'
  <2>1. ours = {}
    BY DEF Recorded, Managed, RevertFollows
  <2> QED
    BY <2>1 DEF Recorded
<1>3. PlanSound'
  BY DEF PlanSound, Planned, Early, Late
<1>4. LedgerFollows'
  BY DEF LedgerFollows, Early, Late, Records
<1>5. DepsFollow'
  BY DEF DepsFollow, Planned, Early, Late
<1>6. ManifestFollows'
  BY DEF ManifestFollows, Planned, Early, Late, Changes
<1>7. RevertFollows'
  BY DEF RevertFollows
<1> QED
  BY <1>1, <1>2, <1>3, <1>4, <1>5, <1>6, <1>7

LEMMA FailKeeps == ASSUME IInv, Fail PROVE IInv'
<1> USE DEF IInv, site, run, bounds, Go, End, Fail, Fault
<1>1. TypeOK'
  BY DeactivatedMeans DEF TypeOK
<1>2. Recorded'
  <2>1. \A p \in ours' : p \in ours /\ disk'[p] = disk[p]
    BY DeactivatedMeans
  <2> QED
    BY <2>1 DEF Recorded, Managed
<1>3. PlanSound'
  BY DEF PlanSound, Planned, Early, Late
<1>4. LedgerFollows'
  BY DEF LedgerFollows, Early, Late, Records
<1>5. DepsFollow'
  BY DEF DepsFollow, Planned, Early, Late
<1>6. ManifestFollows'
  BY DEF ManifestFollows, Planned, Early, Late, Changes
<1>7. RevertFollows'
  BY DEF RevertFollows
<1> QED
  BY <1>1, <1>2, <1>3, <1>4, <1>5, <1>6, <1>7

LEMMA CrashKeeps == ASSUME IInv, Crash PROVE IInv'
<1> USE DEF IInv, site, run, bounds, Go, End, Crash, Fault
<1>1. TypeOK'
  <2>1. temp' \in BOOLEAN
    BY DEF TypeOK
  <2>2. pc' = "idle" /\ res' = "failed" /\ faults' \in 0..MaxFaults
    BY DEF TypeOK
  <2> QED
    BY <2>1, <2>2 DEF TypeOK
<1>2. Recorded'
  BY DEF TypeOK, Recorded, Managed
<1>3. PlanSound'
  BY DEF PlanSound, Planned, Early, Late
<1>4. LedgerFollows'
  BY DEF LedgerFollows, Early, Late, Records
<1>5. DepsFollow'
  BY DEF DepsFollow, Planned, Early, Late
<1>6. ManifestFollows'
  BY DEF ManifestFollows, Planned, Early, Late, Changes
<1>7. RevertFollows'
  BY DEF RevertFollows
<1> QED
  BY <1>1, <1>2, <1>3, <1>4, <1>5, <1>6, <1>7

LEMMA EditKeeps == ASSUME IInv, NEW p \in Paths, NEW c \in Content, Edit(p, c) PROVE IInv'
<1> USE DEF IInv, site, run, bounds, Go, End, Edit, Person
<1>1. TypeOK'
  BY DEF TypeOK
<1>2. Recorded'
  BY DEF TypeOK, Recorded, Managed
<1>3. PlanSound'
  BY DEF PlanSound, Planned, Early, Late
<1>4. LedgerFollows'
  BY DEF LedgerFollows, Early, Late, Records
<1>5. DepsFollow'
  BY DEF DepsFollow, Planned, Early, Late
<1>6. ManifestFollows'
  BY DEF ManifestFollows, Planned, Early, Late, Changes
<1>7. RevertFollows'
  BY DEF RevertFollows
<1> QED
  BY <1>1, <1>2, <1>3, <1>4, <1>5, <1>6, <1>7

LEMMA ToggleIndexKeeps == ASSUME IInv, ToggleIndex PROVE IInv'
<1> USE DEF IInv, site, run, bounds, Go, End, ToggleIndex, Person
<1>1. TypeOK'
  BY DEF TypeOK
<1>2. Recorded'
  BY DEF TypeOK, Recorded, Managed
<1>3. PlanSound'
  BY DEF PlanSound, Planned, Early, Late
<1>4. LedgerFollows'
  BY DEF LedgerFollows, Early, Late, Records
<1>5. DepsFollow'
  BY DEF DepsFollow, Planned, Early, Late
<1>6. ManifestFollows'
  BY DEF ManifestFollows, Planned, Early, Late, Changes
<1>7. RevertFollows'
  BY DEF RevertFollows
<1> QED
  BY <1>1, <1>2, <1>3, <1>4, <1>5, <1>6, <1>7

LEMMA TidyKeeps == ASSUME IInv, Tidy PROVE IInv'
<1> USE DEF IInv, site, run, bounds, Go, End, Tidy
<1>1. TypeOK'
  BY DEF TypeOK
<1>2. Recorded'
  <2>1. Clash => ours = {}
    BY DEF Clash, Recorded, Managed
  <2> QED
    BY <2>1 DEF Recorded, Managed
<1>3. PlanSound'
  BY DEF PlanSound, Planned, Early, Late
<1>4. LedgerFollows'
  BY DEF LedgerFollows, Early, Late, Records
<1>5. DepsFollow'
  BY DEF DepsFollow, Planned, Early, Late
<1>6. ManifestFollows'
  BY DEF ManifestFollows, Planned, Early, Late, Changes
<1>7. RevertFollows'
  BY DEF RevertFollows
<1> QED
  BY <1>1, <1>2, <1>3, <1>4, <1>5, <1>6, <1>7

-----------------------------------------------------------------------------
(* The theorems. *)

LEMMA InitInv == Init => IInv
<1> SUFFICES ASSUME Init PROVE IInv
  OBVIOUS
<1> USE DEF Init
<1>1. TypeOK
  <2>1. Empty \in Ledger /\ Empty \in [Paths -> Content]
    BY DEF Empty, Ledger, Content
  <2>2. seen \in [disk : [Paths -> Content], ledger : Ledger]
    BY <2>1
  <2>3. ledger \in Ledger \cup {None} /\ disk \in [Paths -> Content] /\ ver \in Versions
    BY <2>1
  <2>4. runs \in 0..MaxRuns /\ faults \in 0..MaxFaults /\ edits \in 0..MaxEdits
    OBVIOUS
  <2> QED
    BY <2>2, <2>3, <2>4 DEF TypeOK
<1>2. Recorded /\ PlanSound /\ LedgerFollows
  BY DEF Recorded, PlanSound, LedgerFollows, Planned, Early, Late
<1>3. DepsFollow /\ ManifestFollows /\ RevertFollows
  BY DEF DepsFollow, ManifestFollows, RevertFollows, Planned, Early, Late
<1> QED
  BY <1>1, <1>2, <1>3 DEF IInv

LEMMA StutterKeeps == ASSUME IInv, UNCHANGED vars PROVE IInv'
  BY DEF IInv, vars, site, run, bounds, TypeOK, Recorded, Managed, PlanSound,
         LedgerFollows, DepsFollow, ManifestFollows, RevertFollows, Records, Changes

LEMMA NextInv == IInv /\ [Next]_vars => IInv'
<1> SUFFICES ASSUME IInv, [Next]_vars PROVE IInv'
  OBVIOUS
<1>1. CASE Step
  BY <1>1, PreflightKeeps, DeactivateKeeps, MakeDirKeeps, StageKeeps, WriteDepKeeps,
     DepsWrittenKeeps, RemoveLeftoverKeeps, LeftoversRemovedKeeps, ActivateKeeps,
     CommitKeeps, RevertFileKeeps, RevertFilesKeeps, RemoveMarkerKeeps,
     RemoveDirKeeps DEF Step
<1>2. CASE \E v \in Versions : Revert(v) \/ \E m \in {"apply", "update"} : Install(m, v)
  BY <1>2, RevertKeeps, InstallKeeps
<1>3. CASE Fail \/ Crash \/ ToggleIndex \/ Tidy
  BY <1>3, FailKeeps, CrashKeeps, ToggleIndexKeeps, TidyKeeps
<1>4. CASE \E p \in Paths, c \in Content : Edit(p, c)
  BY <1>4, EditKeeps
<1>5. CASE UNCHANGED vars
  BY <1>5, StutterKeeps
<1> QED
  BY <1>1, <1>2, <1>3, <1>4, <1>5 DEF Next

\* The inductive invariant holds in every reachable state.
THEOREM InstallInvariant == Spec => []IInv
  BY InitInv, NextInv, PTL DEF Spec

\* Every reachable state of the installer is well typed.
THEOREM TypeCorrect == Spec => []TypeOK
<1>1. IInv => TypeOK
  BY DEF IInv
<1> QED
  BY <1>1, InstallInvariant, PTL

\* Every file that harnez was the last to write is recorded, wherever runs of
\* whatever builds were interrupted.
THEOREM WrittenIsRecorded == Spec => []Recorded
<1>1. IInv => Recorded
  BY DEF IInv
<1> QED
  BY <1>1, InstallInvariant, PTL

-----------------------------------------------------------------------------
\* The steps that a person takes are counted.
LEMMA EditsCount ==
  ASSUME TypeOK, edits' = edits
  PROVE  ~ ToggleIndex /\ \A p \in Paths, c \in Content : ~ Edit(p, c)
  BY DEF TypeOK, ToggleIndex, Edit, Person

\* The steps of harnez that write or remove a file.
LEMMA DiskSteps ==
  ASSUME IInv, [Next]_vars, edits' = edits
  PROVE  \/ UNCHANGED disk
         \/ Deactivated
         \/ \E p \in Paths : WriteDep(p) \/ RemoveLeftover(p) \/ RevertFile(p)
         \/ Activate
<1> USE DEF site
<1>1. CASE Step
  BY <1>1 DEF Step, Preflight, Deactivate, MakeDir, Stage, DepsWritten,
     LeftoversRemoved, Commit, RevertFiles, RemoveMarker, RemoveDir
<1>2. CASE \E v \in Versions : Revert(v) \/ \E m \in {"apply", "update"} : Install(m, v)
  BY <1>2 DEF Revert, Install
<1>3. CASE Fail \/ Crash \/ Tidy
  BY <1>3 DEF Fail, Crash, Tidy
<1>4. CASE UNCHANGED vars
  BY <1>4 DEF vars
<1> QED
  BY <1>1, <1>2, <1>3, <1>4, EditsCount DEF Next, IInv

\* A package.json that is taken holds shipped bytes.
LEMMA ManifestBytes == ASSUME TypeOK, ManifestOwned PROVE disk[Manifest] \in Bytes
  BY OwnedBytes, Typed DEF ManifestOwned, Ledger

\* A file that is written was missing or held shipped bytes.
LEMMA NeededBytes ==
  ASSUME IInv, pc \in Planned, NEW p \in Needed(ver, seen)
  PROVE  p \in Paths /\ seen.disk[p] \in Bytes \cup {None}
<1>1. p \in Paths /\ State(ver, p, seen) \in {"missing", "outdated"}
  BY DEF Needed, Target
<1>2. seen.disk[p] = None \/ OwnedBy(seen.ledger[p], seen.disk[p])
  BY <1>1, StateMeans, Typed DEF IInv
<1>3. seen.ledger[p] \in Entry \cup {None}
  BY <1>1, Typed DEF IInv, Snapshot, Ledger
<1> QED
  BY <1>1, <1>2, <1>3, OwnedBytes

LEMMA StaysStep ==
  ASSUME IInv, [Next]_vars, edits' = edits,
         NEW p \in Paths, disk[p] \in {"edit", "link"}
  PROVE  disk'[p] = disk[p]
<1>1. disk[p] \notin Bytes \cup {None}
  OBVIOUS
<1>2. CASE UNCHANGED disk
  BY <1>2
<1>3. CASE Deactivated
  BY <1>1, <1>3, DeactivatedMeans, ManifestBytes DEF IInv
<1>4. ASSUME NEW q \in Paths, WriteDep(q) PROVE disk'[p] = disk[p]
  <2>1. seen.disk[q] \in Bytes \cup {None} /\ q \in Target(ver) /\ q \notin Leftover(ver, seen)
    BY <1>4, NeededBytes DEF WriteDep, Planned, Needed, Leftover, Obsolete
  <2>2. disk[q] = seen.disk[q]
    BY <1>4, <2>1 DEF WriteDep, IInv, DepsFollow, Planned
  <2>3. p # q
    BY <1>1, <2>1, <2>2
  <2> QED
    BY <1>4, <2>3 DEF WriteDep, Put, IInv, TypeOK
<1>5. ASSUME NEW q \in Paths, RemoveLeftover(q) PROVE disk'[p] = disk[p]
  <2>1. /\ q \in Obsolete(ver, seen) \ {Manifest} /\ q \notin Needed(ver, seen)
        /\ State(ver, q, seen) = "outdated"
    BY <1>5, ManifestIsTarget, Typed DEF RemoveLeftover, Leftover, Obsolete, Needed, IInv
  <2>2. disk[q] = seen.disk[q]
    BY <1>5, <2>1 DEF RemoveLeftover, IInv, DepsFollow, Planned, Late
  <2>3. seen.disk[q] \in Bytes
    BY <2>1, StateMeans, Typed, OwnedBytes DEF IInv, Snapshot, Ledger
  <2>4. p # q
    BY <1>1, <2>2, <2>3
  <2> QED
    BY <1>5, <2>4 DEF RemoveLeftover, Take, IInv, TypeOK
<1>6. ASSUME NEW q \in Paths, RevertFile(q) PROVE disk'[p] = disk[p]
  <2>1. disk[q] = seen.disk[q] /\ OwnedBy(seen.ledger[q], seen.disk[q])
    BY <1>6 DEF RevertFile, IInv, RevertFollows, Owned
  <2>2. seen.disk[q] \in Bytes
    BY <2>1, Typed, OwnedBytes DEF IInv, Snapshot, Ledger
  <2>3. p # q
    BY <1>1, <2>1, <2>2
  <2> QED
    BY <1>6, <2>3 DEF RevertFile, Take, IInv, TypeOK
<1>7. CASE Activate
  <2>1. CASE activate
    <3>1. \/ disk[Manifest] = None
          \/ disk[Manifest] = seen.disk[Manifest] /\ Manifest \in Needed(ver, seen)
      <4>1. pc = "activate"
        BY <1>7 DEF Activate
      <4>2. CASE Changes
        BY <4>1, <4>2 DEF IInv, ManifestFollows, Planned, Late
      <4>3. CASE ~ Changes
        <5>1. /\ disk[Manifest] = seen.disk[Manifest]
              /\ activate = (Manifest \in Needed(ver, seen))
          BY <4>1, <4>3 DEF IInv, ManifestFollows, Planned, Late
        <5> QED
          BY <2>1, <5>1
      <4> QED
        BY <4>2, <4>3
    <3>2. disk[Manifest] \in Bytes \cup {None}
      BY <1>7, <3>1, NeededBytes DEF Activate, Planned, Late
    <3> QED
      BY <1>1, <1>7, <2>1, <3>2 DEF Activate, Put, IInv, TypeOK
  <2>2. CASE ~ activate
    BY <1>7, <2>2 DEF Activate
  <2> QED
    BY <2>1, <2>2
<1> QED
  BY <1>2, <1>3, <1>4, <1>5, <1>6, <1>7, DiskSteps

\* No run of any build overwrites or removes what a person wrote or linked.
THEOREM PersonKeepsFiles == Spec => PersonsFilesStay
<1>1. IInv /\ [Next]_vars =>
        [\A p \in Paths : disk[p] \in {"edit", "link"} /\ edits' = edits =>
           disk'[p] = disk[p]]_vars
  BY StaysStep
<1> QED
  BY <1>1, InstallInvariant, PTL DEF Spec, PersonsFilesStay

-----------------------------------------------------------------------------
\* Without package.json nothing is broken, and the dependencies decide.
LEMMA BreaksStep ==
  ASSUME IInv, [Next]_vars, edits' = edits, Broken'
  PROVE  Broken
<1> USE DEF Broken, IInv
<1>1. Manifest \in Paths /\ Manifest \notin Deps /\ Manifest \in Target(ver) /\ Deps \subseteq Paths
  BY ManifestIsTarget, Typed DEF Paths
<1>2. CASE UNCHANGED disk
  BY <1>2
<1>3. CASE Deactivated
  <2>1. disk'[Manifest] = disk[Manifest] /\ \A q \in Deps : disk'[q] = disk[q]
    BY <1>1, <1>3, DeactivatedMeans
  <2> QED
    BY <2>1
<1>4. ASSUME NEW p \in Paths, WriteDep(p) PROVE FALSE
  <2>1. disk[Manifest] = None /\ p # Manifest
    BY <1>4 DEF WriteDep, ManifestFollows, Changes, Planned
  <2> QED
    BY <1>4, <2>1 DEF WriteDep, Put, TypeOK
<1>5. ASSUME NEW p \in Paths, RemoveLeftover(p) PROVE FALSE
  <2>1. disk[Manifest] = None /\ p # Manifest
    BY <1>1, <1>5 DEF RemoveLeftover, ManifestFollows, Changes, Planned, Late, Leftover, Obsolete
  <2> QED
    BY <1>5, <2>1 DEF RemoveLeftover, Take, TypeOK
<1>6. ASSUME NEW p \in Paths, RevertFile(p) PROVE FALSE
  BY <1>1, <1>6 DEF RevertFile, Take, TypeOK
<1>7. CASE Activate
  <2>1. CASE activate
    <3>1. \A q \in Deps : disk'[q] = disk[q]
      BY <1>1, <1>7, <2>1 DEF Activate, Put, TypeOK
    <3>2. \A q \in Deps : Payload[ver][q] \in {None, disk[q]}
      BY <1>1, <1>7, AllInstalled DEF Activate, Target
    <3> QED
      BY <3>1, <3>2, Typed
  <2>2. CASE ~ activate
    BY <1>7, <2>2 DEF Activate
  <2> QED
    BY <2>1, <2>2
<1> QED
  BY <1>2, <1>3, <1>4, <1>5, <1>6, <1>7, DiskSteps

\* No step of harnez, and no interruption, leaves a broken package where Pi
\* finds it that was not broken before.
THEOREM NoBrokenPackage == Spec => NeverBreaks
<1>1. IInv /\ [Next]_vars => [edits' = edits /\ Broken' => Broken]_vars
  BY BreaksStep
<1> QED
  BY <1>1, InstallInvariant, PTL DEF Spec, NeverBreaks

-----------------------------------------------------------------------------
LEMMA ReportStep ==
  ASSUME IInv, [Next]_vars, pc # "idle", pc' = "idle"
  PROVE  /\ res' = "ok" => Installed(ver)'
         /\ res' = "reverted" => ~ dir' /\ ours' = {} /\ disk' = Empty
         /\ res' = "kept" => disk'[Manifest] = None
<1> USE DEF IInv, End, Go, site, run, bounds
<1>1. CASE Commit
  <2>1. \A p \in Target(ver) : disk[p] = Payload[ver][p]
    BY <1>1, AllInstalled DEF Commit
  <2>2. dir' /\ ledger' = Final(ver) /\ ledger' # None /\ ver' = ver /\ disk' = disk
    BY <1>1, FinalType, Typed DEF Commit, LedgerFollows, Late
  <2>3. Installed(ver)'
    BY <2>1, <2>2 DEF Installed, Managed, Target
  <2> QED
    BY <1>1, <2>3 DEF Commit
<1>2. CASE RevertFiles
  BY <1>2 DEF RevertFiles, RevertFollows
<1>3. CASE RemoveDir
  <2>1. ours = {}
    BY <1>3 DEF RemoveDir, RevertFollows, Recorded, Managed
  <2> QED
    BY <1>3, <2>1 DEF RemoveDir, RevertFollows
<1>4. CASE Preflight \/ Fail \/ Crash
  BY <1>4 DEF Preflight, Fail, Crash
<1>5. CASE Step /\ ~ Commit /\ ~ RevertFiles /\ ~ RemoveDir /\ ~ Preflight
  BY <1>5 DEF Step, Deactivate, MakeDir, Stage, WriteDep, DepsWritten, RemoveLeftover,
     LeftoversRemoved, Activate, RevertFile, RemoveMarker
<1>6. ~ Tidy /\ ~ (\E v \in Versions : Revert(v) \/ \E m \in {"apply", "update"} : Install(m, v))
  BY DEF Tidy, Revert, Install, Start
<1>7. ~ ToggleIndex /\ ~ (\E p \in Paths, c \in Content : Edit(p, c)) /\ ~ UNCHANGED vars
  BY DEF ToggleIndex, Edit, Person, vars
<1> QED
  BY <1>1, <1>2, <1>3, <1>4, <1>5, <1>6, <1>7 DEF Next

\* A run that reports success has done what it reports.
THEOREM RunsEndAsReported == Spec => EndsAsReported
<1>1. IInv /\ [Next]_vars =>
        [pc # "idle" /\ pc' = "idle" =>
           /\ res' = "ok" => Installed(ver)'
           /\ res' = "reverted" => ~ dir' /\ ours' = {} /\ disk' = Empty
           /\ res' = "kept" => disk'[Manifest] = None]_vars
  BY ReportStep
<1> QED
  BY <1>1, InstallInvariant, PTL DEF Spec, EndsAsReported

-----------------------------------------------------------------------------
\* Over an installed package a run of the same build has nothing to do.
LEMMA NothingToDo ==
  ASSUME IInv, Installed(ver), pc \in Early
  PROVE  /\ seen.ledger = Final(ver) /\ ~ Changes
         /\ Obsolete(ver, seen) = {} /\ ledger = Final(ver)
         /\ \A p \in Target(ver) : seen.disk[p] = Payload[ver][p] /\ disk[p] = Payload[ver][p]
<1> USE DEF IInv
<1>1. ledger = Final(ver) /\ seen.ledger = Final(ver) /\ Managed
  BY DEF Installed, LedgerFollows, Records, Managed
<1>2. Obsolete(ver, seen) = {}
  BY <1>1 DEF Obsolete, Final
<1>3. \A p \in Target(ver) : disk[p] = Payload[ver][p] /\ disk[p] # None
  BY DEF Installed, Target
<1>4. \A p \in Target(ver) : p # Manifest => seen.disk[p] = disk[p]
  BY DEF DepsFollow, Planned, Early, Late
<1>5. \A p \in Target(ver) : p # Manifest => State(ver, p, seen) = "ok"
  <2> SUFFICES ASSUME NEW p \in Target(ver), p # Manifest PROVE State(ver, p, seen) = "ok"
    OBVIOUS
  <2>1. p \in Paths /\ seen.disk[p] = Payload[ver][p] /\ seen.disk[p] # None
    BY <1>3, <1>4 DEF Target
  <2>2. State(ver, p, seen) \in {"missing", "ok", "outdated"}
    BY DEF PlanSound, Planned
  <2> QED
    BY <2>1, <2>2, StateMeans, Typed
<1>6. ~ Changes
  BY <1>2, <1>5 DEF Changes, Needed, Leftover
<1>7. Manifest \in Target(ver)
  BY ManifestIsTarget, Typed
<1>8. seen.disk[Manifest] = disk[Manifest]
  BY <1>6 DEF ManifestFollows, Planned, Early
<1> QED
  BY <1>1, <1>2, <1>3, <1>4, <1>6, <1>8

LEMMA IdleStep ==
  ASSUME IInv, [Next]_vars, pc # "idle", mode # "revert", Installed(ver),
         edits' = edits, res' # "failed"
  PROVE  UNCHANGED <<dir, disk, ledger>>
<1> USE DEF IInv, site
<1>1. dir /\ ledger = Final(ver) /\ \A p \in Target(ver) : disk[p] = Payload[ver][p]
  BY DEF Installed, Managed, TypeOK
<1>2. CASE Deactivate
  <2>1. ~ Changes
    BY <1>2, NothingToDo DEF Deactivate, Early
  <2> QED
    BY <1>2, <2>1 DEF Deactivate, Changes
<1>3. CASE MakeDir
  BY <1>1, <1>3 DEF MakeDir
<1>4. CASE Stage
  <2>1. /\ seen.ledger = Final(ver)
        /\ \A p \in Target(ver) : seen.disk[p] = Payload[ver][p]
    BY <1>4, NothingToDo DEF Stage, Early
  <2>2. ASSUME NEW p \in Target(ver) PROVE Staged(ver, seen)[p] = Final(ver)[p]
    <3>1. p \in Paths /\ Payload[ver][p] # None
      BY DEF Target
    <3>2. Final(ver)[p] = [installed |-> Payload[ver][p], staged |-> None]
      BY <3>1 DEF Final
    <3>3. seen.ledger[p] # None /\ seen.ledger[p].installed = Payload[ver][p]
      BY <2>1, <3>1, <3>2, FinalType, Typed DEF Ledger, Entry
    <3>4. OwnedBy(seen.ledger[p], seen.disk[p]) /\ seen.disk[p] = Payload[ver][p]
      BY <2>1, <3>1, <3>3 DEF OwnedBy
    <3> QED
      BY <3>1, <3>2, <3>4 DEF Staged
  <2>3. ASSUME NEW p \in Paths \ Target(ver) PROVE Staged(ver, seen)[p] = Final(ver)[p]
    BY <2>1 DEF Staged
  <2>4. Staged(ver, seen) = Final(ver)
    BY <2>2, <2>3, StagedType, FinalType, Typed DEF Ledger
  <2> QED
    BY <1>1, <1>4, <2>4 DEF Stage
<1>5. ASSUME NEW p \in Paths PROVE ~ WriteDep(p)
  BY <1>1 DEF WriteDep, Needed
<1>6. ASSUME NEW p \in Paths PROVE ~ RemoveLeftover(p)
  <2> SUFFICES ASSUME RemoveLeftover(p) PROVE FALSE
    OBVIOUS
  <2>1. Staged(ver, seen)[p] = seen.ledger[p] /\ seen.ledger[p] # None
    BY DEF RemoveLeftover, Leftover, Obsolete, Staged
  <2>2. Final(ver)[p] = None
    BY DEF RemoveLeftover, Leftover, Obsolete, Final
  <2>3. ledger = Staged(ver, seen)
    BY DEF RemoveLeftover, LedgerFollows, Late
  <2> QED
    BY <1>1, <2>1, <2>2, <2>3
<1>7. CASE Activate
  <2>1. disk[Manifest] = Payload[ver][Manifest]
    BY <1>1, ManifestIsTarget, Typed
  <2> QED
    BY <1>7, <2>1 DEF Activate, Put, TypeOK
<1>8. CASE Commit
  BY <1>1, <1>8 DEF Commit
<1>9. CASE Preflight \/ DepsWritten \/ LeftoversRemoved
  BY <1>9 DEF Preflight, DepsWritten, LeftoversRemoved
<1>10. /\ ~ RevertFiles /\ ~ RemoveMarker /\ ~ RemoveDir /\ ~ Fail /\ ~ Crash /\ ~ Tidy
       /\ \A p \in Paths : ~ RevertFile(p)
       /\ \A v \in Versions : ~ Revert(v) /\ \A m \in {"apply", "update"} : ~ Install(m, v)
  BY DEF RevertFollows, RevertFiles, RemoveMarker, RemoveDir, Fail, Crash, Tidy,
     RevertFile, Revert, Install, Start, End
<1>11. CASE UNCHANGED vars
  BY <1>11 DEF vars
<1> QED
  BY <1>2, <1>3, <1>4, <1>5, <1>6, <1>7, <1>8, <1>9, <1>10, <1>11, EditsCount
  DEF Next, Step

\* Re-running an apply on an installed package writes nothing.
THEOREM RerunsChangeNothing == Spec => ApplyIsIdempotent
<1>1. IInv /\ [Next]_vars =>
        [pc # "idle" /\ mode # "revert" /\ Installed(ver) /\ edits' = edits
           /\ res' # "failed" => UNCHANGED <<dir, disk, ledger>>]_vars
  BY IdleStep
<1> QED
  BY <1>1, InstallInvariant, PTL DEF Spec, ApplyIsIdempotent
=============================================================================
