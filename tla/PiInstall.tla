----------------------------- MODULE PiInstall -----------------------------
(***************************************************************************)
(* The Pi background-task package that harnez mirrors into the Pi agent    *)
(* directory: apply, the strict update and revert, for any sequence of     *)
(* harnez versions, with a crash or a failure at any step and the files a  *)
(* person edits, adds or removes between the runs.  Who owns a file is     *)
(* decided from a ledger of digests; package.json makes Pi load the        *)
(* package.  Bytes stand for their digest.  Runs do not overlap and nobody *)
(* edits during one, which docs/PiAgent.md asks for; an update checks its  *)
(* plan once more before it writes, so edits up to that check are allowed. *)
(***************************************************************************)
EXTENDS Naturals, FiniteSets

CONSTANTS
  Deps,      \* the files of the package but its manifest, in any version
  Versions,  \* harnez builds
  Bytes,     \* what these builds ship
  Payload,   \* Payload[v][p]: the bytes build v ships at path p, or None
  Latest,    \* the build that is installed in the end
  None,
  MaxRuns, MaxFaults, MaxEdits  \* bounds on runs of any build, faults, edits

Manifest == "package.json"
Paths == Deps \cup {Manifest}

ASSUME PackageAssumption ==
  /\ Manifest \notin Deps /\ Latest \in Versions
  /\ Payload \in [Versions -> [Paths -> Bytes \cup {None}]]
  /\ \A v \in Versions : Payload[v][Manifest] # None
  /\ {None, "edit", "link"} \cap Bytes = {} /\ None \notin {"edit", "link"}
  /\ MaxRuns \in Nat /\ MaxFaults \in Nat /\ MaxEdits \in Nat

VARIABLES
  dir,     \* the managed directory exists
  disk,    \* what lies at each path: bytes, a person's edit, a link or None
  index,   \* an entry point Pi would find by its name
  temp,    \* a temporary file of an interrupted write
  ledger,  \* path -> [installed, staged] or None; None without a marker
  pc, mode, ver,
  seen,    \* the disk and the ledger a run decided from
  activate,\* manifestNeeds
  res,     \* how the last run ended
  ours,    \* history: the paths whose bytes harnez was the last to write
  runs, faults, edits

site == <<dir, disk, index, temp, ledger>>
run == <<mode, ver, seen, activate>>
bounds == <<runs, faults, edits>>
vars == <<site, pc, run, res, ours, bounds>>

Content == Bytes \cup {None, "edit", "link"}
Entry == [installed : Bytes, staged : Bytes \cup {None}]
Ledger == [Paths -> Entry \cup {None}]

ASSUME NoneAssumption == None \notin Entry \cup Ledger

TypeOK ==
  /\ dir \in BOOLEAN /\ index \in BOOLEAN /\ temp \in BOOLEAN
  /\ disk \in [Paths -> Content] /\ ledger \in Ledger \cup {None}
  /\ pc \in {"idle", "preflight", "deactivate", "mkdir", "stage", "deps",
             "leftovers", "activate", "commit", "revert", "marker", "rmdir"}
  /\ mode \in {"apply", "update", "revert"} /\ ver \in Versions
  /\ seen \in [disk : [Paths -> Content], ledger : Ledger]
  /\ activate \in BOOLEAN
  /\ res \in {"none", "ok", "refused", "failed", "reverted", "kept"}
  /\ ours \subseteq Paths
  /\ runs \in 0..MaxRuns /\ faults \in 0..MaxFaults /\ edits \in 0..MaxEdits

Empty == [p \in Paths |-> None]

\* Nothing is there, or a directory that somebody else made.
Init ==
  /\ dir \in BOOLEAN /\ disk = Empty /\ ledger = None
  /\ index = FALSE /\ temp = FALSE
  /\ pc = "idle" /\ mode = "apply" /\ ver = Latest /\ activate = FALSE
  /\ seen = [disk |-> Empty, ledger |-> Empty]
  /\ res = "none" /\ ours = {} /\ runs = 0 /\ faults = 0 /\ edits = 0

-----------------------------------------------------------------------------
\* Mutant of OwnedBy: a staged digest counts for nothing.
OwnedOnce(e, c) == e # None /\ c = e.installed

\* piOwnedBy: the bytes c are the installed or the staged ones of record e.
OwnedBy(e, c) == e # None /\ c # None /\ (c = e.installed \/ c = e.staged)

Records == IF ledger = None THEN Empty ELSE ledger
Managed == dir /\ ledger # None
Clash == dir /\ ledger = None

\* piTargetState and piPlanObsolete of path p under build v, from snapshot s.
State(v, p, s) ==
  CASE s.disk[p] = None -> "missing"
    [] s.disk[p] = "link" -> "clash"
    [] s.disk[p] # "link" /\ s.disk[p] # None
         /\ ~ OwnedBy(s.ledger[p], s.disk[p]) -> "drifted"
    [] OwnedBy(s.ledger[p], s.disk[p]) /\ s.disk[p] = Payload[v][p] -> "ok"
    [] OwnedBy(s.ledger[p], s.disk[p]) /\ s.disk[p] # Payload[v][p] -> "outdated"

Target(v) == {p \in Paths : Payload[v][p] # None}
Obsolete(v, s) == {p \in Paths \ Target(v) : s.ledger[p] # None}

\* planPiBackgroundApply: a link or an entry point is unsafe, a modified or
\* unrecorded target is refused; a strict update refuses whatever it did not
\* record and every modified file.
Unsafe(v, s) ==
  index \/ \E p \in Target(v) \cup Obsolete(v, s) : State(v, p, s) = "clash"
Refused(v, s) == \E p \in Target(v) : State(v, p, s) = "drifted"
RefusedStrictly(v, s) ==
  \/ Refused(v, s)
  \/ Managed /\ (temp \/ index)
  \/ Managed /\ \E p \in Paths : State(v, p, s) \in {"drifted", "clash"}

\* Mutant of Needed: an outdated file is left as it is.
NeededMissing(v, s) == {p \in Target(v) : State(v, p, s) = "missing"}

Needed(v, s) == {p \in Target(v) : State(v, p, s) \in {"missing", "outdated"}}
Leftover(v, s) == {p \in Obsolete(v, s) : State(v, p, s) = "outdated"}

\* piFinalEntries.
Final(v) ==
  [p \in Paths |-> IF p \in Target(v)
                   THEN [installed |-> Payload[v][p], staged |-> None]
                   ELSE None]

\* Mutant of Staged: only what will be there is recorded.
StagedNew(v, s) ==
  [p \in Paths |-> IF p \notin Target(v) THEN s.ledger[p]
                   ELSE [installed |-> Payload[v][p], staged |-> None]]

\* piStagedEntries: what is there and owned stays recorded next to what is
\* about to be written; what is no longer shipped stays recorded.
Staged(v, s) ==
  LET old(p) == IF OwnedBy(s.ledger[p], s.disk[p]) THEN s.disk[p]
                ELSE IF s.ledger[p] # None THEN s.ledger[p].installed
                ELSE Payload[v][p]
  IN [p \in Paths |->
        IF p \notin Target(v) THEN s.ledger[p]
        ELSE [installed |-> old(p),
              staged |-> IF old(p) = Payload[v][p] THEN None ELSE Payload[v][p]]]

-----------------------------------------------------------------------------
Go(l) == pc' = l
End(r) == pc' = "idle" /\ res' = r

Put(p, c) == disk' = [disk EXCEPT ![p] = c] /\ ours' = ours \cup {p}
Take(p) == disk' = [disk EXCEPT ![p] = None] /\ ours' = ours \ {p}

\* deactivatePiBackground: package.json goes only while its bytes are owned.
ManifestOwned == OwnedBy(Records[Manifest], disk[Manifest])
Deactivated == IF ManifestOwned THEN Take(Manifest) ELSE UNCHANGED <<disk, ours>>

\* A run of build v begins: any of MaxRuns, then applies of the latest build.
Start(m, v) ==
  /\ pc = "idle" /\ mode' = m /\ ver' = v
  /\ \/ runs < MaxRuns /\ runs' = runs + 1
     \/ runs = MaxRuns /\ m = "apply" /\ v = Latest /\ UNCHANGED runs
  /\ UNCHANGED <<faults, edits>>

\* applyPiBackgroundTasks, UpdatePiBackgroundTasks up to the plan: a clash
\* is kept; unsafe paths deactivate the package, unless the run is strict.
Install(m, v) ==
  LET s == [disk |-> disk, ledger |-> Records] IN
  /\ m \in {"apply", "update"} /\ Start(m, v)
  /\ UNCHANGED <<dir, index, temp, ledger>> /\ activate' = FALSE
  /\ IF Clash
     THEN End("refused") /\ UNCHANGED <<disk, ours, seen>>
     ELSE IF Unsafe(v, s)
     THEN /\ End("refused") /\ UNCHANGED seen
          /\ IF m = "apply" THEN Deactivated ELSE UNCHANGED <<disk, ours>>
     ELSE IF IF m = "update" THEN RefusedStrictly(v, s) ELSE Refused(v, s)
     THEN End("refused") /\ UNCHANGED <<disk, ours, seen>>
     ELSE /\ seen' = s /\ UNCHANGED <<disk, ours, res>>
          /\ Go(IF m = "update" THEN "preflight" ELSE "deactivate")

\* Mutant of Preflight: the plan is not checked again.
PreflightSkipped ==
  /\ pc = "preflight"
  /\ Go("deactivate")
  /\ UNCHANGED <<site, run, res, ours, bounds>>

\* The second look of a strict update.
Preflight ==
  LET now == [disk |-> disk, ledger |-> Records]
      same == \A p \in Target(ver) \cup Obsolete(ver, seen) : disk[p] = seen.disk[p]
  IN
  /\ pc = "preflight"
  /\ IF same /\ now.ledger = seen.ledger /\ ~ Unsafe(ver, now)
     THEN Go("deactivate") /\ UNCHANGED res ELSE End("refused")
  /\ UNCHANGED <<site, run, ours, bounds>>

\* Mutant of Deactivate: the package stays active while it is rewritten.
DeactivateNot ==
  /\ pc = "deactivate"
  /\ activate' = (Manifest \in Needed(ver, seen))
  /\ Go(IF dir THEN "stage" ELSE "mkdir")
  /\ UNCHANGED <<site, ours, mode, ver, seen, res, bounds>>

\* Mutant of Deactivate: it is deactivated in any case.
DeactivateAlways ==
  /\ pc = "deactivate" /\ Deactivated /\ activate' = TRUE
  /\ Go(IF dir THEN "stage" ELSE "mkdir")
  /\ UNCHANGED <<dir, index, temp, ledger, mode, ver, seen, res, bounds>>

\* A package whose dependencies change is deactivated first.
Deactivate ==
  LET changes == (Needed(ver, seen) \ {Manifest}) \cup Leftover(ver, seen) # {} IN
  /\ pc = "deactivate"
  /\ IF changes THEN Deactivated ELSE UNCHANGED <<disk, ours>>
  /\ activate' = (Manifest \in Needed(ver, seen) \/ (changes /\ ManifestOwned))
  /\ Go(IF dir THEN "stage" ELSE "mkdir")
  /\ UNCHANGED <<dir, index, temp, ledger, mode, ver, seen, res, bounds>>

MakeDir ==
  /\ pc = "mkdir" /\ dir' = TRUE /\ Go("stage")
  /\ UNCHANGED <<disk, index, temp, ledger, run, res, ours, bounds>>

Stage ==
  /\ pc = "stage" /\ ledger' = Staged(ver, seen) /\ Go("deps")
  /\ UNCHANGED <<dir, disk, index, temp, run, res, ours, bounds>>

\* The dependencies that are missing or outdated, one by one.
WriteDep(p) ==
  /\ pc = "deps" /\ p \in Needed(ver, seen) \ {Manifest}
  /\ disk[p] # Payload[ver][p] /\ Put(p, Payload[ver][p])
  /\ UNCHANGED <<dir, index, temp, ledger, pc, run, res, bounds>>

DepsWritten ==
  /\ pc = "deps"
  /\ \A p \in Needed(ver, seen) \ {Manifest} : disk[p] = Payload[ver][p]
  /\ Go("leftovers")
  /\ UNCHANGED <<site, run, res, ours, bounds>>

RemoveLeftover(p) ==
  /\ pc = "leftovers" /\ p \in Leftover(ver, seen) /\ disk[p] # None
  /\ Take(p)
  /\ UNCHANGED <<dir, index, temp, ledger, pc, run, res, bounds>>

LeftoversRemoved ==
  /\ pc = "leftovers"
  /\ \A p \in Leftover(ver, seen) : disk[p] = None
  /\ Go("activate")
  /\ UNCHANGED <<site, run, res, ours, bounds>>

Activate ==
  /\ pc = "activate" /\ Go("commit")
  /\ IF activate THEN Put(Manifest, Payload[ver][Manifest])
     ELSE UNCHANGED <<disk, ours>>
  /\ UNCHANGED <<dir, index, temp, ledger, run, res, bounds>>

Commit ==
  /\ pc = "commit" /\ ledger' = Final(ver) /\ End("ok")
  /\ UNCHANGED <<dir, disk, index, temp, run, ours, bounds>>

-----------------------------------------------------------------------------
\* revertPiBackground: a manifest that is not owned or an entry point keeps
\* the whole package.
Owned(s) == {p \in Paths : OwnedBy(s.ledger[p], s.disk[p])}

Revert(v) ==
  LET s == [disk |-> disk, ledger |-> Records] IN
  /\ Start("revert", v)
  /\ UNCHANGED <<site, ours, activate>>
  /\ IF ~ Managed \/ index \/ (disk[Manifest] # None /\ ~ ManifestOwned)
     THEN End("kept") /\ UNCHANGED seen
     ELSE seen' = s /\ Go("revert") /\ UNCHANGED res

\* package.json goes first, then the owned files.
RevertFile(p) ==
  /\ pc = "revert" /\ p \in Owned(seen) /\ disk[p] # None
  /\ (p = Manifest \/ disk[Manifest] = None)
  /\ Take(p)
  /\ UNCHANGED <<dir, index, temp, ledger, pc, run, res, bounds>>

\* Whatever stays keeps the marker, so that a later run can recover.
RevertFiles ==
  /\ pc = "revert" /\ \A p \in Owned(seen) : disk[p] = None
  /\ IF temp \/ disk # Empty THEN End("kept") ELSE Go("marker") /\ UNCHANGED res
  /\ UNCHANGED <<site, run, ours, bounds>>

RemoveMarker ==
  /\ pc = "marker" /\ ledger' = None /\ Go("rmdir")
  /\ UNCHANGED <<dir, disk, index, temp, run, res, ours, bounds>>

RemoveDir ==
  /\ pc = "rmdir" /\ dir' = FALSE /\ End("reverted")
  /\ UNCHANGED <<disk, index, temp, ledger, run, ours, bounds>>

-----------------------------------------------------------------------------
Fault == faults < MaxFaults /\ faults' = faults + 1 /\ UNCHANGED <<runs, edits>>

\* failPiWrite: a step of an install fails, and with it perhaps the removal
\* of package.json; a failed deactivation or removal just ends the run.
Fail ==
  /\ pc \notin {"idle", "preflight"} /\ Fault /\ End("failed")
  /\ \/ pc \in {"mkdir", "stage", "deps", "leftovers", "activate", "commit"}
        /\ Deactivated
     \/ UNCHANGED <<disk, ours>>
  /\ UNCHANGED <<dir, index, temp, ledger, run>>

\* The process dies, perhaps between creating and renaming a temporary file.
Crash ==
  /\ pc # "idle" /\ Fault /\ End("failed")
  /\ temp' \in {temp} \cup (IF pc \in {"stage", "deps", "activate", "commit"}
                            THEN {TRUE} ELSE {})
  /\ UNCHANGED <<dir, disk, index, ledger, run, ours>>

\* What a person does: edit, link, restore or remove a file, add or remove
\* an entry point, move a temporary file away, remove an empty directory.
Person == pc \in {"idle", "preflight"} /\ edits < MaxEdits /\ edits' = edits + 1
          /\ UNCHANGED <<pc, run, res, runs, faults>>

Edit(p, c) ==
  /\ Person /\ dir /\ disk[p] # c
  /\ disk' = [disk EXCEPT ![p] = c] /\ ours' = ours \ {p}
  /\ UNCHANGED <<dir, index, temp, ledger>>

ToggleIndex ==
  /\ Person /\ dir /\ index' = ~ index
  /\ UNCHANGED <<dir, disk, temp, ledger, ours>>

\* ... as docs/PiAgent.md asks for, which is not counted as an edit.
Tidy ==
  /\ pc = "idle"
  /\ \/ temp /\ temp' = FALSE /\ UNCHANGED dir
     \/ Clash /\ disk = Empty /\ ~ temp /\ ~ index /\ dir' = FALSE /\ UNCHANGED temp
  /\ UNCHANGED <<disk, index, ledger, pc, run, res, ours, bounds>>

Step ==
  \/ Preflight \/ Deactivate \/ MakeDir \/ Stage \/ DepsWritten
  \/ LeftoversRemoved \/ Activate \/ Commit
  \/ RevertFiles \/ RemoveMarker \/ RemoveDir
  \/ \E p \in Paths : WriteDep(p) \/ RemoveLeftover(p) \/ RevertFile(p)

Next ==
  \/ \E v \in Versions : Revert(v) \/ \E m \in {"apply", "update"} : Install(m, v)
  \/ Step \/ Fail \/ Crash
  \/ \E p \in Paths, c \in Content : Edit(p, c)
  \/ ToggleIndex \/ Tidy

Spec == Init /\ [][Next]_vars

\* A run goes on, the person retries and tidies up as the manual says.
FairSpec ==
  Spec /\ WF_vars(Step)
       /\ WF_vars(\E v \in Versions, m \in {"apply", "update"} : Install(m, v))
       /\ WF_vars(Tidy)

-----------------------------------------------------------------------------
(* Properties *)

\* No run of any build overwrites or removes what a person wrote or linked
\* in the package ("Anything modified, unrecorded or a symlink stays"), also
\* not a modified file that is no longer shipped or one edited before the
\* second look of an update.
PersonsFilesStay ==
  [][\A p \in Paths : disk[p] \in {"edit", "link"} /\ edits' = edits =>
       disk'[p] = disk[p]]_vars

\* Every file that harnez was the last to write is recorded, through every
\* interruption and by whatever builds: a later run can update or remove it.
Recorded ==
  \A p \in ours : Managed /\ OwnedBy(ledger[p], disk[p])

\* Pi would load the package, but it is not all of one build.
Broken ==
  /\ disk[Manifest] # None
  /\ ~ \E v \in Versions : \A p \in Deps : Payload[v][p] \in {None, disk[p]}

\* No step of harnez makes a package that Pi discovers a broken one, wherever
\* it is interrupted (pi_background_ledger_test.go sweeps one interrupted run).
NeverBreaks == [][edits' = edits /\ Broken' => Broken]_vars

Installed(v) ==
  Managed /\ ledger = Final(v) /\ \A p \in Target(v) : disk[p] = Payload[v][p]

\* A run that reports success has done what it reports, whatever it found.
EndsAsReported ==
  [][pc # "idle" /\ pc' = "idle" =>
       /\ res' = "ok" => Installed(ver)'
       /\ res' = "reverted" => ~ dir' /\ ours' = {} /\ disk' = Empty
       /\ res' = "kept" => disk'[Manifest] = None]_vars

\* Re-running an apply on an installed package writes nothing.
ApplyIsIdempotent ==
  [][pc # "idle" /\ mode # "revert" /\ Installed(ver) /\ edits' = edits
       /\ res' # "failed" => UNCHANGED <<dir, disk, ledger>>]_vars

\* Whatever was interrupted, retried applies of one build install it, once
\* nothing that a person made stands in their way.
Obstructed ==
  \/ index
  \/ \E p \in Paths : disk[p] # None /\ p \notin ours
RetriesConverge == <>[] ~ Obstructed => <>[] Installed(Latest)
=============================================================================
