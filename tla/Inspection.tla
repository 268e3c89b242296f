------------------------------ MODULE Inspection ------------------------------
(***************************************************************************)
(* One inspection of a workspace while others change it (inspectWorkspace   *)
(* with observeReferences).  The reader captures the documents one by one,  *)
(* captures them all again and compares; reads the cited artifacts twice;   *)
(* and takes a second snapshot, whose digest must be the first one's.       *)
(*                                                                          *)
(* Nobody takes a lock against a reader.  The writers change one document   *)
(* at a time, by a rename, their operations executed alone                  *)
(* (AtomicWorkspace).  Git and editors replace, edit in place or remove      *)
(* documents and artifacts one at a time, valid together or not.            *)
(* captureRegularFile compares the file before, during and after reading    *)
(* it: a capture is one step.                                               *)
(***************************************************************************)
EXTENDS AtomicWorkspace, MemoryViews

CONSTANTS
    StartFiles,      \* the workspaces an inspection may meet
    StartArtifacts,  \* and the artifacts beside them
    Operations,      \* the operations writers execute meanwhile
    Outsiders,       \* documents that arrive without an operation: [file, doc]
    Size,            \* of each content, in the unit of the limits
    Limits,          \* maxFreshnessPaths, maxArtifactFileBytes, maxFreshnessBytes
    PageLimit,       \* entries on one page of the history
    MaxUpdates       \* bound: changes made while one inspection runs

\* A document has the type of its file, a missing artifact no file number.
Typed == [file : WorkFiles, doc : Work \cup {NULL}]
           \cup [file : KnowledgeFiles, doc : Knowledge \cup {NULL}]
           \cup [file : {LocalFile}, doc : LocalState \cup {NULL}]
           \cup [file : {JournalFile}, doc : Seq(Checkpoint)]
Artifact(c, i) == [content |-> c, inode |-> i]
None == Artifact(Missing, 0)

ASSUME InspectionAssumption ==
    /\ PageLimit \in Nat \ {0} /\ MaxUpdates \in Nat
    /\ IsFiniteSet(WorkId) /\ IsFiniteSet(KnowledgeId) /\ IsFiniteSet(Path)
    /\ \A f \in StartFiles : TypedFiles(f)
    /\ \A a \in StartArtifacts :
          /\ DOMAIN a = Path
          /\ \A p \in Path :
                /\ a[p] = Artifact(a[p].content, a[p].inode)
                /\ a[p] = None \/ (a[p].content \in Digest /\ a[p].inode \in Nat \ {0})
    /\ Operations \subseteq Proposal /\ Outsiders \subseteq Typed
    /\ \A d \in Digest : Size[d] \in Nat
    /\ \A l \in Limits : l.paths \in Nat
    /\ NULL \notin LocalState /\ NULL \notin Seq(Checkpoint) /\ NULL \notin Nat

VARIABLES
    inode,       \* the identity of each document's file, 0 where there is none
    artifacts,   \* content and identity of each artifact
    reader,      \* the inspection
    walk,        \* a reader who turns the pages of the history
    updates,     \* how many changes there have been
    tampered,    \* history: was one of them not an operation of the writers
    moments,     \* history: what there was to read since the reader's phase began
    returned     \* history: did one of its parts come back to what it had been

history == <<moments, returned>>
inspectionVars == <<files, inode, artifacts, reader, walk, updates, tampered, history>>

-----------------------------------------------------------------------------
(* Identities.  A new file gets a number never used before, or one that is   *)
(* free again.                                                               *)

Numbers == Cardinality(SnapshotFiles) + Cardinality(Path)
InUse == {inode[f] : f \in SnapshotFiles} \cup {artifacts[p].inode : p \in Path}
NewInode ==
    {Numbers + updates + 1} \cup
        (IF updates = 0 THEN {} ELSE (1..(Numbers + updates)) \ InUse)

HardLinked(p) == \E q \in Path \ {p} : artifacts[q].inode = artifacts[p].inode

-----------------------------------------------------------------------------
(* What one step of the reader reads: a directory's names, or a document     *)
(* and the identity of its file.                                             *)

\* The members of S in some order, always the same.
InOrder(S) ==
    CHOOSE s \in [1..Cardinality(S) -> S] : \A x \in S : \E i \in DOMAIN s : s[i] = x

RootDirectory == <<".dubsar">>
WorkDirectory == <<"work">>
KnowledgeDirectory == <<"knowledge">>
Directories == {RootDirectory, WorkDirectory, KnowledgeDirectory}

Names(S) == {f \in S : files[f] # NULL}
Read(x) ==
    CASE x = RootDirectory -> Names({LocalFile})
      [] x = WorkDirectory -> Names(WorkFiles)
      [] x = KnowledgeDirectory -> Names(KnowledgeFiles)
      [] OTHER -> <<files[x], inode[x]>>

Versions == [x \in SnapshotFiles \cup Directories |-> Read(x)]

\* Mutant: the Knowledge is listed and captured before the journal.
KnowledgeFirst ==
    <<RootDirectory, KnowledgeDirectory, WorkDirectory, JournalFile, LocalFile>>

FirstPass == <<RootDirectory, JournalFile, LocalFile, WorkDirectory, KnowledgeDirectory>>

\* Mutant: the names are not listed again.
SecondPassFilesOnly(got) == InOrder(DOMAIN got \ Directories)

\* recaptureAll compares what was captured, then the three lists of names.
SecondPass(got) ==
    InOrder(DOMAIN got \ Directories) \o <<RootDirectory, WorkDirectory, KnowledgeDirectory>>

Assembled(got) ==
    [f \in SnapshotFiles |-> IF f \in DOMAIN got THEN got[f][1] ELSE NULL]

Captured(got, i) == \E f \in DOMAIN got \ Directories : got[f][2] = i

\* What is captured once x is too.
WithCapture(got, x) ==
    [y \in DOMAIN got \cup {x} |-> IF y = x THEN Read(x) ELSE got[y]]

-----------------------------------------------------------------------------
(* The reader.                                                               *)

Idle ==
    [at |-> "idle", round |-> 1, todo |-> <<>>, got |-> <<>>, snapshot |-> NULL,
     limits |-> NULL, seen |-> <<>>, spent |-> 0, stopped |-> FALSE]

Reading == {"reading", "rereading"}
Observing == {"observing", "reobserving"}

\* What a phase reads, part by part, with the identities it compares.
Current(at) == IF at \in Observing THEN artifacts ELSE Versions
Now(at) == IF at \in Reading \cup Observing THEN {Current(at)} ELSE {}

\* A new phase begins at the moment its first step follows.
Enter(r, at) ==
    /\ reader' = [r EXCEPT !.at = at]
    /\ moments' = Now(at) /\ returned' = FALSE

Stay(r) == reader' = r /\ UNCHANGED history

\* Every failure of the second snapshot is reported as a race.
Fail(verdict) ==
    Enter(Idle, IF reader.round = 2 THEN "raced" ELSE verdict)

Start ==
    /\ reader.at = "idle" /\ walk.at = "idle"
    /\ Enter([Idle EXCEPT !.todo = FirstPass], "reading")

\* After the last capture: the checks across documents.
Complete(got, rest) ==
    IF rest # <<>> THEN Stay([reader EXCEPT !.got = got, !.todo = rest])
    ELSE IF SnapshotAccepts(Assembled(got))
         THEN /\ reader' = [reader EXCEPT !.at = "rereading", !.got = got, !.todo = SecondPass(got)]
              /\ UNCHANGED history
         ELSE Fail("invalid")

CaptureNext ==
    /\ reader.at = "reading"
    /\ LET x == Head(reader.todo)
           got == WithCapture(reader.got, x)
       IN  IF x = RootDirectory THEN Complete(got, Tail(reader.todo))
           ELSE IF x \in Directories
           THEN IF Cardinality(Read(x)) > (IF x = WorkDirectory THEN MaxWork ELSE MaxKnowledge)
                THEN Fail("invalid")
                ELSE Complete(got, InOrder(Read(x)) \o Tail(reader.todo))
           ELSE IF files[x] = NULL
           THEN IF x = LocalFile THEN Complete(reader.got, Tail(reader.todo)) ELSE Fail("invalid")
           ELSE IF Captured(reader.got, inode[x]) THEN Fail("duplicate")
           ELSE Complete(got, Tail(reader.todo))

\* Admitted: the first paths in their order, at most maxFreshnessPaths.
Admitted(s, most) ==
    LET q == InOrder(CitedPaths(s)) IN SubSeq(q, 1, IF most < Len(q) THEN most ELSE Len(q))

Recapture ==
    /\ reader.at = "rereading"
    /\ IF Read(Head(reader.todo)) # reader.got[Head(reader.todo)] THEN Fail("raced")
       ELSE IF Tail(reader.todo) # <<>> THEN Stay([reader EXCEPT !.todo = Tail(@)])
       ELSE IF reader.round = 2
       THEN IF Assembled(reader.got) = reader.snapshot
            THEN Enter(Idle, "done") ELSE Fail("raced")
       ELSE \E l \in Limits :
               Enter([reader EXCEPT !.snapshot = Assembled(reader.got), !.got = <<>>,
                      !.limits = l, !.todo = Admitted(Assembled(reader.got), l.paths)],
                     "observing")

-----------------------------------------------------------------------------
(* The artifacts.                                                            *)

Budget == reader.limits.budget - reader.spent
CaptureLimit == Min({reader.limits.file, Budget})

\* Another admitted path was captured with this identity: both are unknown.
Aliases(p) == {q \in DOMAIN reader.seen : reader.seen[q].inode = artifacts[p].inode}

Saw(S, outcome, i) ==
    [q \in DOMAIN reader.seen \cup S |->
        IF q \in S THEN [outcome |-> outcome, inode |-> i] ELSE reader.seen[q]]

Observe ==
    /\ reader.at = "observing" /\ reader.todo # <<>>
    /\ LET p == Head(reader.todo)
           a == artifacts[p]
           next == [reader EXCEPT !.todo = Tail(@)]
           Unresolved(stops) ==
               Stay([next EXCEPT !.seen = Saw({p}, Unknown, 0), !.stopped = stops])
       IN  IF reader.stopped \/ Budget <= 0 THEN Unresolved(TRUE)
           ELSE IF a.content = Missing THEN Stay([next EXCEPT !.seen = Saw({p}, Missing, 0)])
           ELSE IF HardLinked(p) THEN Unresolved(FALSE)
           ELSE IF Size[a.content] > CaptureLimit
               THEN Unresolved(CaptureLimit < reader.limits.file)
           ELSE Stay([next EXCEPT
                    !.seen = IF Aliases(p) # {} THEN Saw({p} \cup Aliases(p), Unknown, a.inode)
                             ELSE Saw({p}, a.content, a.inode),
                    !.spent = @ + Size[a.content]])

\* What the first pass resolved or found missing is read again.
EndOfFirstPass ==
    /\ reader.at = "observing" /\ reader.todo = <<>>
    /\ reader' = [reader EXCEPT !.at = "reobserving", !.spent = 0, !.stopped = FALSE,
                  !.todo = InOrder({p \in DOMAIN reader.seen : reader.seen[p].outcome # Unknown})]
    /\ UNCHANGED history

Unchanged(p) ==
    LET before == reader.seen[p]
    IN  IF before.outcome = Missing THEN artifacts[p].content = Missing
        ELSE artifacts[p] = Artifact(before.outcome, before.inode) /\ ~HardLinked(p)

\* The observation is made and no longer read by the model.
SecondSnapshot ==
    Enter([Idle EXCEPT !.round = 2, !.todo = FirstPass, !.snapshot = reader.snapshot], "reading")

\* Mutant: the second pass re-reads nothing.
ReobserveNothing ==
    /\ reader.at = "reobserving"
    /\ SecondSnapshot

Reobserve ==
    /\ reader.at = "reobserving"
    /\ IF reader.todo = <<>>
       THEN SecondSnapshot
       ELSE IF Unchanged(Head(reader.todo)) THEN Stay([reader EXCEPT !.todo = Tail(@)])
       ELSE Enter(Idle, "raced")

ReaderStep ==
    /\ Start \/ CaptureNext \/ Recapture \/ Observe \/ EndOfFirstPass \/ Reobserve
    /\ UNCHANGED <<files, inode, artifacts, walk, updates, tampered>>

Observation == [p \in DOMAIN reader.seen |-> reader.seen[p].outcome]

-----------------------------------------------------------------------------
(* The pages of the history, each from an inspection of its own.             *)

AtRest == [at |-> "idle", before |-> 0, entries |-> <<>>, first |-> <<>>]

Turned(before) == HistoryPage(Snapshot(files), before, PageLimit)

Advanced(first, entries, page) ==
    [at |-> IF page.next = NULL THEN "over" ELSE "walking",
     before |-> IF page.next = NULL THEN 0 ELSE page.next,
     entries |-> entries \o page.entries, first |-> first]

FirstPage ==
    /\ walk.at = "idle" /\ reader.at = "idle"
    /\ walk' = Advanced(Journal(files), <<>>, Turned(Len(Journal(files))))

NextPage ==
    /\ walk.at = "walking"
    /\ IF walk.before > Len(Journal(files)) THEN walk' = [walk EXCEPT !.at = "refused"]
       ELSE walk' = Advanced(walk.first, walk.entries, Turned(walk.before))

WalkStep ==
    /\ FirstPage \/ NextPage
    /\ UNCHANGED <<files, inode, artifacts, reader, updates, tampered, history>>

-----------------------------------------------------------------------------
(* Everyone else.  Changes outside a reading are not worth a state.          *)

InProgress == reader.at \in Reading \cup Observing \/ walk.at = "walking"

\* A part is again what it was at an earlier moment of the phase, the number
\* of its file included: no comparison of two readings can tell.
ComesBack ==
    \E x \in DOMAIN Current(reader.at) :
        /\ Current(reader.at)'[x] # Current(reader.at)[x]
        /\ \E m \in moments : m[x] = Current(reader.at)'[x]

Updated ==
    /\ UNCHANGED <<reader, walk>> /\ updates' = updates + 1
    /\ moments' = moments \cup Now(reader.at)'
    /\ returned' = (returned \/ ComesBack)

\* publishOneFile renames a new file onto the target.
Publish(p) ==
    /\ Target(p) \in SnapshotFiles
    /\ Execute(p)
    /\ \E i \in NewInode : inode' = [inode EXCEPT ![Target(p)] = i]
    /\ UNCHANGED <<artifacts, tampered>>

\* A checkout or an editor: a new file, the same file rewritten, or none.
Tamper(c) ==
    /\ files[c.file] # c.doc
    /\ files' = [files EXCEPT ![c.file] = c.doc]
    /\ \E i \in (IF c.doc = NULL THEN {0}
                 ELSE NewInode \cup ({inode[c.file]} \ {0})) :
          inode' = [inode EXCEPT ![c.file] = i]
    /\ tampered' = TRUE
    /\ UNCHANGED artifacts

\* The same for an artifact; a file rewritten changes under all its names.
\* Before and after the passes that read them, artifacts may be anything.
Rewrite(p, d) ==
    \E i \in NewInode \cup ({artifacts[p].inode} \ {0}) :
        artifacts' = [q \in Path |->
            IF q = p \/ artifacts[q].inode = i THEN Artifact(d, i)
            ELSE artifacts[q]]

Delete(p) ==
    /\ artifacts[p] # None
    /\ artifacts' = [artifacts EXCEPT ![p] = None]

Move(p, q) ==
    /\ artifacts[p] # None /\ artifacts[p].inode # artifacts[q].inode
    /\ artifacts' = [artifacts EXCEPT ![p] = None, ![q] = artifacts[p]]

ArtifactChange(p) ==
    /\ reader.at \in Observing
    /\ \/ \E d \in Digest \ {artifacts[p].content} : Rewrite(p, d)
       \/ Delete(p)
       \/ \E q \in Path : Move(p, q)
    /\ UNCHANGED <<files, inode, tampered>>

Update ==
    /\ InProgress /\ updates < MaxUpdates
    /\ \/ \E p \in Operations : Publish(p)
       \/ \E c \in Outsiders : Tamper(c)
       \/ \E p \in Path : ArtifactChange(p)
    /\ Updated

InspectionInit ==
    /\ files \in StartFiles
    /\ inode = [f \in SnapshotFiles |->
                   IF files[f] = NULL THEN 0
                   ELSE CHOOSE i \in 1..Cardinality(SnapshotFiles) : InOrder(SnapshotFiles)[i] = f]
    /\ artifacts \in StartArtifacts
    /\ reader = Idle /\ walk = AtRest
    /\ updates = 0 /\ tampered = FALSE /\ moments = {} /\ returned = FALSE

InspectionNext == ReaderStep \/ WalkStep \/ Update

InspectionSpec == InspectionInit /\ [][InspectionNext]_inspectionVars

-----------------------------------------------------------------------------
Documents(m) == [f \in SnapshotFiles |-> m[f][1]]

\* The documents a snapshot is made of were all in the workspace at one moment
\* between its first capture and its last, unless one of them came back to the
\* content and the file number it had, or a directory to its names: the two
\* passes of snapshotMemoryWorkspace agree on no other workspace that has not
\* existed.
SnapshotOfOneMoment ==
    [][reader.at = "rereading" /\ reader'.at \in {"observing", "done"} /\ ~returned =>
          \E m \in moments : Assembled(reader.got) = Documents(m)]_inspectionVars

\* What an observation says of the artifacts it has resolved, fresh, stale or
\* missing, held of all of them at one moment, unless one of them came back
\* (observeMemoryReferences).
ObservedAtOneMoment ==
    [][reader.at = "reobserving" /\ reader'.at = "reading" /\ ~returned =>
          \E m \in moments : \A p \in DOMAIN Observation :
              Observation[p] # Unknown => m[p].content = Observation[p]]_inspectionVars

\* A reader that meets only the writers' operations never calls invalid a
\* workspace that was valid throughout: the journal and the selection are read
\* before the Works they cite, and those before the Knowledge they cite.
NoFalseAlarm ==
    [][reader.at = "reading" /\ reader'.at = "invalid" /\ ~tampered =>
          \E m \in moments : ~SnapshotAccepts(Documents(m))]_inspectionVars

\* Who turns the pages of the history by the cursors it is given, while the
\* journal grows, is shown every entry of the journal of the first page, once,
\* newest first (buildProjectHistory).
WalkSeesEach ==
    ~tampered =>
        /\ walk.at = "over" => walk.entries = NewestFirst(walk.first, 0, Len(walk.first))
        /\ walk.at # "refused"

\* The evaluator, the router, the compiler, the facts and the lots view draw the
\* same conclusion from the status, the blockers and the attempts recorded for
\* the selected Work, each by conditions of its own.
ConclusionsAgree(s) ==
    LET action == NextAction(s)
        guidance == Guidance(s)
    IN  /\ action = "choose_work" <=> guidance.reason = "WORK_SELECTION_REQUIRED"
        /\ action = "choose_work" <=> Readiness(s) = "WORK_SELECTION_REQUIRED"
        /\ action = "finish_recorded" <=> guidance.action = "finish_recorded"
        /\ action = "reframe_recommended" <=> guidance.action = "reconsider"
        /\ action = "resolve_recorded_blocker" <=> guidance.reason = "RECORDED_BLOCKER_OPEN"
        /\ action = "review_paused_work" <=>
              \/ guidance.action = "resume_candidate"
              \/ guidance.reason = "PAUSED_WITHOUT_EXACT_REACTIVATION_SIGNAL"
        /\ action = "continue_selected_work" <=>
              Selected(s) # NULL /\ guidance.action \in {"continue", "record"}
        /\ action # RoutingAction(s) =>
              action \in {"reframe_recommended", "resolve_recorded_blocker"}
        /\ MemoryState(s) = "closed_recorded" <=> ArtifactLifecycle(s) = "closed_recorded"
        /\ MemoryState(s) = "empty" <=> ArtifactLifecycle(s) = "empty"
        /\ {w \in Works(s) : LotCategory(s, w) = "eligible"} = EligibleWorks(s) \ {Selected(s)}

\* With what each of them selects from the journal and how the capsule is cut,
\* they are told the same story about one snapshot.
Agreement(s) ==
    LET own == SelectedEntries(s)
        related == Guidance(s).related
    IN  /\ ConclusionsAgree(s)
        /\ Selected(s) # NULL => CurrentBlockers(s) = RecordedBlockers(s, Selected(s))
        /\ related # NULL => \E e \in ToSet(Front(own)) : e.checkpoint_id = related
        /\ Journal(s) # <<>> =>
              LET e == Last(Journal(s))
              IN  \A selector \in
                        {[kind |-> "lot", work |-> e.work_id]} \cup
                        {[kind |-> "path", path |-> p] : p \in DOMAIN Recorded(e).references} :
                     Precedents(s, selector)[1] = e
        /\ \A room \in 0..3 :
              CapsuleFits(s, room) /\ NextAction(s) = "resolve_recorded_blocker" =>
                  Capsule(s, room).blockers > 0

\* Whatever the workspace an inspection meets.
ViewsAgree ==
    reader.at = "idle" /\ SnapshotAccepts(files) => Agreement(Snapshot(files))
=============================================================================
