---------------------------- MODULE ManagedDocs ----------------------------
(***************************************************************************)
(* A Markdown file that harnez shares with a person: either one with       *)
(* managed sections between begin and end markers (AGENTS.md, global       *)
(* instruction files), or a bundled doc with local lines below a stop      *)
(* marker.  A file is a sequence of lines <<kind, name, version>>; a       *)
(* marker fills its line.  Each write of harnez is one step, so an         *)
(* interrupted init is one that takes fewer of them.  A person adds and    *)
(* removes lines, copies a section, or tears one by removing a marker.     *)
(***************************************************************************)
EXTENDS Naturals, Sequences, FiniteSets, SequencesExt

CONSTANTS
  Order,     \* the sections that may be configured, in their order
  Sticky,    \* those that an init keeps when they are not
  Template,  \* those that a new AGENTS.md of an earlier release was made of
  Lines,     \* lines a person writes
  Headings,  \* those of them that begin with "# " or "## "
  Version,   \* versions of the configured content
  MaxEdits, MaxLines  \* bounds on what a person does and on a file

Sections == ToSet(Order)
ASSUME DocsAssumption ==
  /\ Order \in Seq(Sections) /\ IsInjective(Order)
  /\ Sticky \subseteq Sections /\ Template \subseteq Sections
  /\ Headings \subseteq Lines
  /\ MaxEdits \in Nat /\ MaxLines \in Nat

VARIABLES
  kind,   \* which of the two files this is
  doc,    \* its lines
  torn,   \* history: a person removed a marker
  edits
vars == <<kind, doc, torn, edits>>

Begin(s) == <<"begin", s, 0>>
EndOf(s) == <<"end", s, 0>>
Block(s, v) == << Begin(s), <<"text", s, v>>, EndOf(s) >>
Legacy(s, v) == << <<"lbegin", s, 0>>, <<"text", s, v>>, <<"lend", s, 0>> >>
Stop == <<"stop", "harnez", 0>>
OldStop == <<"stop", "claudeconfig", 0>>
Own(u) == <<"own", u, 0>>
Bundled(v) == << <<"text", "bundle", v>> >>

\* A file of an earlier release or of this one, or none; a copy with either
\* stop marker, or one without that is as it was bundled.
Init ==
  /\ \/ kind = "sections" /\ \E s \in Sections, v \in Version :
                               doc \in {<<>>, Legacy(s, v), Block(s, v)}
     \/ kind = "copy" /\ \E v \in Version :
                           doc \in {<<>>, Bundled(v), Bundled(v) \o <<OldStop>>}
  /\ torn = FALSE /\ edits = 0

-----------------------------------------------------------------------------
\* strings.Index, 0 if the line is not there.
First(d, t) == SelectInSeq(d, LAMBDA x : x = t)
From(d, i, t) == SelectInSubSeq(d, i + 1, Len(d), LAMBDA x : x = t)

\* SectionBounds: the first begin and the first end in the file.
Bounds(d, b, e) ==
  LET i == First(d, b) j == First(d, e)
  IN IF i > 0 /\ j > i THEN <<i, j>> ELSE <<>>

\* locateSection, with the markers of earlier releases.
LocateSection(d, s) ==
  LET now == Bounds(d, Begin(s), EndOf(s))
  IN IF now # <<>> THEN now ELSE Bounds(d, <<"lbegin", s, 0>>, <<"lend", s, 0>>)

\* Mutant of Replace: the end marker is not part of the section.
ReplaceShort(d, r, new) == SubSeq(d, 1, r[1] - 1) \o new \o SubSeq(d, r[2], Len(d))

\* The lines r[1] to r[2] of d, replaced by new.
Replace(d, r, new) == SubSeq(d, 1, r[1] - 1) \o new \o SubSeq(d, r[2] + 1, Len(d))

ApplySection(d, s, v) ==
  LET r == LocateSection(d, s)
  IN IF r = <<>> THEN d \o Block(s, v) ELSE Replace(d, r, Block(s, v))

CleanSection(d, s) ==
  LET r == LocateSection(d, s) IN IF r = <<>> THEN d ELSE Replace(d, r, <<>>)

\* A writer goes through a file: piece[i] is what it writes for line i, and
\* next[i] the line that it goes on with.
Written(piece, next) ==
  LET rest[i \in 1..Len(piece)+1] ==
        IF i > Len(piece) THEN <<>> ELSE piece[i] \o rest[next[i]]
  IN rest[1]

\* The end marker that a begin marker's section is taken to have, or 0.
EndAt(d, i) == From(d, i, EndOf(d[i][2]))

\* Mutant of PruneSections: up to the last end marker of that name.
PruneGreedy(d, keep) ==
  LET gone(i) == d[i][1] = "begin" /\ d[i][2] \notin keep /\ EndAt(d, i) > 0
      last(i) == SelectLastInSeq(d, LAMBDA x : x = EndOf(d[i][2]))
  IN Written([i \in 1..Len(d) |-> IF gone(i) THEN <<>> ELSE <<d[i]>>],
             [i \in 1..Len(d) |-> IF gone(i) THEN last(i) + 1 ELSE i + 1])

\* PruneSections: every section that is not kept and has an end marker
\* somewhere behind its begin marker.
PruneSections(d, keep) ==
  LET gone(i) == d[i][1] = "begin" /\ d[i][2] \notin keep /\ EndAt(d, i) > 0
  IN Written([i \in 1..Len(d) |-> IF gone(i) THEN <<>> ELSE <<d[i]>>],
             [i \in 1..Len(d) |-> IF gone(i) THEN EndAt(d, i) + 1 ELSE i + 1])

\* Mutant of Malformed: a section that holds another one is well-formed.
MalformedOpen(d, i) == EndAt(d, i) = 0

\* A begin marker without an end, or with another begin before it.
Malformed(d, i) ==
  EndAt(d, i) = 0 \/ \E k \in i+1..EndAt(d, i)-1 : d[k][1] = "begin"

\* The sections of S in their order.
Blocks(S, v) ==
  Written([n \in 1..Len(Order) |-> IF Order[n] \in S THEN Block(Order[n], v) ELSE <<>>],
          [n \in 1..Len(Order) |-> n + 1])

\* ReconcileSections: active sections are rewritten where they are seen first,
\* copies of them and retired ones removed, others kept; the first malformed
\* one ends the scan (so a begin marker further up is one that was seen), and
\* the missing are appended unless a begin marker of theirs is anywhere.
ReconcileSections(d, active, existing, retired, v) ==
  LET name(i) == d[i][2]
      seen(i) == \E k \in 1..i-1 : d[k] = d[i]
      section(i) ==
        IF name(i) \in retired \/ (name(i) \in active /\ seen(i)) THEN <<>>
        ELSE IF name(i) \in active THEN Block(name(i), v)
        ELSE SubSeq(d, i, EndAt(d, i))
      missing == {s \in active \ existing : First(d, Begin(s)) = 0}
  IN Written([i \in 1..Len(d) |-> IF d[i][1] # "begin" THEN <<d[i]>>
                                  ELSE IF Malformed(d, i) THEN SubSeq(d, i, Len(d))
                                  ELSE section(i)],
             [i \in 1..Len(d) |-> IF d[i][1] # "begin" THEN i + 1
                                  ELSE IF Malformed(d, i) THEN Len(d) + 1
                                  ELSE EndAt(d, i) + 1])
     \o Blocks(missing, v)

\* migrateLegacyMarkers: the markers of earlier releases become those of now.
Renewed(x) == CASE x[1] = "lbegin" -> Begin(x[2])
                [] x[1] = "lend" -> EndOf(x[2])
                [] OTHER -> x
Migrated(d) == [i \in 1..Len(d) |-> Renewed(d[i])]

\* parseManagedBlocks: each template block has its end as the next marker.
NoMarker(d, i, j) == \A k \in i+1..j-1 : d[k][1] \notin {"begin", "end"}
BlocksSafe(d) ==
  /\ \A i \in 1..Len(d) : d[i][1] = "begin" /\ d[i][2] \in Template =>
       \E j \in i+1..Len(d) : d[j] = EndOf(d[i][2]) /\ NoMarker(d, i, j)
  /\ \A j \in 1..Len(d) : d[j][1] = "end" /\ d[j][2] \in Template =>
       \E i \in 1..j-1 : d[i] = Begin(d[j][2]) /\ NoMarker(d, i, j)

\* Mutant: what is not configured is pruned, sticky or not.
InitForgets(d, conf, v) ==
  LET file[n \in 0..Len(Order)] ==
        IF n = 0 THEN PruneSections(Migrated(d), conf)
        ELSE IF Order[n] \in conf THEN ApplySection(file[n-1], Order[n], v)
        ELSE file[n-1]
  IN IF BlocksSafe(Migrated(d)) THEN file ELSE [n \in 0..Len(Order) |-> Migrated(d)]

\* An init of AGENTS.md: initAgentFile migrates it, and unless a template block
\* is malformed initLocalSections prunes what is neither configured nor sticky
\* and writes each section; the file after each of these writes.
InitWrites(d, conf, v) ==
  LET file[n \in 0..Len(Order)] ==
        IF n = 0 THEN PruneSections(Migrated(d), conf \cup Sticky)
        ELSE IF Order[n] \in conf THEN ApplySection(file[n-1], Order[n], v)
        ELSE file[n-1]
  IN IF BlocksSafe(Migrated(d)) THEN file ELSE [n \in 0..Len(Order) |-> Migrated(d)]
InitSections(d, conf, v) == InitWrites(d, conf, v)[Len(Order)]

-----------------------------------------------------------------------------
\* stopMarkerIndex and ExtractManagedDocContent; the latter looks for one
\* kind of marker after the other.
StopIndex(c) == SelectInSeq(c, LAMBDA x : x \in {Stop, OldStop})
Extract(c) ==
  LET k == IF First(c, Stop) > 0 THEN First(c, Stop) ELSE First(c, OldStop)
  IN IF k > 0 THEN SubSeq(c, 1, k - 1) ELSE c

\* obviousLocalAppend: at least two lines behind the bundled ones, the first of
\* them a heading.
LocalAppend(c, v) ==
  /\ IsPrefix(Bundled(v), c) /\ Len(c) >= Len(Bundled(v)) + 2
  /\ c[Len(Bundled(v)) + 1] \in {Own(u) : u \in Headings}

\* MergeManagedDoc: the local part starts with the stop marker.
MergeManagedDoc(c, v) == Bundled(v) \o SubSeq(c, StopIndex(c), Len(c))

\* prepareManagedDoc with withDocStopMarker; what it refuses stays as it is,
\* what else differs from the bundled doc is replaced, with a warning.
PrepareManagedDoc(c, v) ==
  IF StopIndex(c) > 0 THEN MergeManagedDoc(c, v)
  ELSE IF LocalAppend(c, v) THEN c
  ELSE Bundled(v) \o <<Stop>>

-----------------------------------------------------------------------------
\* A file is written as a whole.
WriteFile(k, d) ==
  /\ kind = k /\ Len(d) <= MaxLines
  /\ doc' = d /\ UNCHANGED <<kind, torn, edits>>

Apply(s, v) == WriteFile("sections", ApplySection(doc, s, v))
Clean(s) == WriteFile("sections", CleanSection(doc, s))
Prune(keep) == WriteFile("sections", PruneSections(doc, keep))
Reconcile(active, existing, retired, v) ==
  WriteFile("sections", ReconcileSections(doc, active, existing, retired, v))
Migrate == WriteFile("sections", Migrated(doc))
WriteManagedDoc(v) == WriteFile("copy", PrepareManagedDoc(doc, v))

Person(d) ==
  /\ edits < MaxEdits /\ Len(d) <= MaxLines
  /\ edits' = edits + 1 /\ doc' = d /\ UNCHANGED kind

\* An own line is written anywhere, a line is removed, a section copied.
WriteLine(u, i) ==
  First(doc, Own(u)) = 0 /\ Person(InsertAt(doc, i, Own(u))) /\ UNCHANGED torn
RemoveLine(i) ==
  /\ Person(RemoveAt(doc, i))
  /\ torn' = (torn \/ doc[i][1] \in {"begin", "end", "lbegin", "lend"})
CopySection(s) ==
  LET r == LocateSection(doc, s) IN
  r # <<>> /\ Person(doc \o SubSeq(doc, r[1], r[2])) /\ UNCHANGED torn

Next ==
  \/ \E s \in Sections, v \in Version : Apply(s, v)
  \/ \E s \in Sections : Clean(s) \/ CopySection(s)
  \/ \E keep \in SUBSET Sections : Prune(keep)
  \/ \E active, retired, existing \in SUBSET Sections, v \in Version :
       /\ active \cap retired = {} /\ existing \subseteq active
       /\ Reconcile(active, existing, retired, v)
  \/ Migrate
  \/ \E v \in Version : WriteManagedDoc(v)
  \/ \E u \in Lines, i \in 1..Len(doc)+1 : WriteLine(u, i)
  \/ \E i \in 1..Len(doc) : RemoveLine(i)

Spec == Init /\ [][Next]_vars

-----------------------------------------------------------------------------
(* Properties *)

\* The lines of a person that are in no section: from a begin marker, old or
\* new, to the next end marker of its kind and name.
Inside(d, i) ==
  \E b \in 1..i-1 :
    LET e == CASE d[b][1] = "begin" -> EndOf(d[b][2])
               [] d[b][1] = "lbegin" -> <<"lend", d[b][2], 0>>
               [] OTHER -> <<>>
    IN From(d, b, e) > i
Loose(d) ==
  Written([i \in 1..Len(d) |-> IF d[i][1] = "own" /\ ~ Inside(d, i) THEN <<d[i]>> ELSE <<>>],
          [i \in 1..Len(d) |-> i + 1])

\* "unmanaged sections are never touched" (README.md:8): whatever harnez does
\* to a file whose markers are in pairs, the person's lines outside of the
\* sections stay, in their order, and so does the local part of a copy.
UserLinesKept ==
  [][edits' = edits /\ ~ torn =>
       \/ kind = "sections" /\ Loose(doc') = Loose(doc)
       \/ kind = "copy" /\ (StopIndex(doc) > 0 =>
                              SubSeq(doc, StopIndex(doc), Len(doc))
                                = SubSeq(doc', StopIndex(doc'), Len(doc')))]_vars

\* "Preserve malformed/nested blocks rather than risk deleting user text"
\* (sections.go:63), of every file, torn ones too: a line of the person that is
\* in no section is there after a reconciliation, and a second one with the
\* same configuration changes nothing.
TornFileKept ==
  kind = "sections" =>
    \A active, retired, existing \in SUBSET Sections, v \in Version :
      active \cap retired = {} /\ existing \subseteq active =>
        LET new == ReconcileSections(doc, active, existing, retired, v) IN
        /\ ToSet(Loose(doc)) \subseteq ToSet(new)
        /\ ReconcileSections(new, active, existing, retired, v) = new

\* "Apply is idempotent - run it as often as you like" (README.md:7): an init
\* that was interrupted after any of its writes and is run again ends where an
\* uninterrupted one ends, and a third one changes nothing, of a file whose
\* markers are in pairs and of one in which it leaves malformed blocks alone.
InitConverges ==
  kind = "sections" /\ (~ torn \/ ~ BlocksSafe(Migrated(doc))) =>
    \A conf \in SUBSET Sections, v \in Version :
      LET done == InitSections(doc, conf, v)
      IN /\ InitSections(done, conf, v) = done
         /\ InitSections(Migrated(doc), conf, v) = done
         /\ \A w \in Version :
              LET part == InitWrites(doc, conf, w)
              IN \A n \in 0..Len(Order) : InitSections(part[n], conf, v) = done

\* After an init every configured section is up to date and there once (if a
\* person has not copied it); a sticky one that is not configured is as it was,
\* no other section is left; cleaning what an apply appended gives the file
\* back; a copy that was written is seen as up to date by the drift report, and
\* one with a local section behind it was not written over.
OpensOf(s) == {Begin(s), <<"lbegin", s, 0>>}
Once(d, s) == \A i, j \in 1..Len(d) : d[i] \in OpensOf(s) /\ d[j] \in OpensOf(s) => i = j
Held(d, s) ==
  LET r == LocateSection(d, s) IN IF r = <<>> THEN <<>> ELSE SubSeq(d, r[1], r[2])
Configured ==
  /\ kind = "sections" /\ ~ torn =>
       \A conf \in SUBSET Sections, v \in Version, s \in Sections :
         LET done == InitSections(doc, conf, v)
         IN /\ s \in conf => /\ Held(done, s) = Block(s, v)
                             /\ Once(doc, s) => Once(done, s)
            /\ s \in Sticky \ conf => Held(done, s) = Held(Migrated(doc), s)
            /\ s \notin conf \cup Sticky => First(done, Begin(s)) = 0
            /\ LocateSection(doc, s) = <<>> =>
                 CleanSection(ApplySection(doc, s, v), s) = doc
  /\ kind = "copy" =>
       \A v \in Version :
         LET new == PrepareManagedDoc(doc, v)
         IN IF LocalAppend(doc, v) /\ StopIndex(doc) = 0 THEN new = doc
            ELSE Extract(new) = Bundled(v) /\ PrepareManagedDoc(new, v) = new

=============================================================================
