-------------------------- MODULE MCWorkspaceReaders --------------------------
\* Instances for TLC of Inspection and of OutsideUpdates: one behaviour is
\* about the readers of a workspace, about what they are told of one, or about
\* writers who meet updates made without the lock.
EXTENDS Inspection, OutsideUpdates, MCMemoryWriter

CONSTANTS b1, t1, t2, d1, r1, a1, a2, v1, v2

VARIABLE component

-----------------------------------------------------------------------------
ReadWork == {w1, w2}
ReadCheckpoint == {b1, t1, t2, d1, r1, c1}

State(blockers) == [outcome |-> "same", blockers |-> blockers]
Record(kind, references, blockers, attempt, limited) ==
    [kind |-> kind, references |-> references, attempt |-> attempt, limited |-> limited,
     state |-> State(blockers)]

MCContent ==
    b1 :> Record("blocker", <<>>, <<"blocker">>, NULL, FALSE)
      @@ t1 :> Record("attempt", <<>>, <<>>, "same", FALSE)
      @@ t2 :> Record("attempt", <<>>, <<>>, "same", TRUE)
      @@ d1 :> Record("decision", a1 :> v1 @@ a2 :> v1, <<>>, NULL, FALSE)
      @@ r1 :> Record("blocker_resolution", a1 :> v2, <<>>, NULL, FALSE)
      @@ c1 :> Record("progress", <<>>, <<>>, NULL, FALSE)

\* Journals: distinct checkpoints, each about one Work; r1 resolves b1.
Authored(c, w, before) ==
    [checkpoint_id |-> c, work_id |-> w,
     resolves |-> IF c = r1 /\ (\E i \in 1..Len(before) : before[i].checkpoint_id = b1)
                  THEN b1 ELSE NULL]
Longer(js) ==
    js \cup {Appended(j, Authored(c, w, j)) : j \in js, c \in ReadCheckpoint \ {c1}, w \in ReadWork}
Journals == {j \in Longer(Longer(Longer({<<>>}))) : UniqueIds(j)}

W(status, K) == [status |-> status, knowledge_ids |-> K]
Approved == [status |-> "approved", supersedes |-> NULL]
Workspace(first, second, selected, journal) ==
    [p \in File |->
        CASE p = WorkFile(w1) -> first
          [] p = WorkFile(w2) -> second
          [] p = KnowledgeFile(k1) -> Approved
          [] p = JournalFile -> journal
          [] p = LocalFile -> [selected_work_id |-> selected]
          [] OTHER -> NULL]

\* What readers are told is checked on every combination of these.
Works2 == {W(status, {k1}) : status \in WORK_STATUS} \cup {NULL}
AllWorkspaces ==
    {f \in {Workspace(first, second, selected, journal) :
               first \in Works2, second \in Works2, selected \in ReadWork \cup {NULL},
               journal \in Journals} : SnapshotAccepts(f)}

-----------------------------------------------------------------------------
\* A reading starts from one Work and three entries, one of which cites both
\* artifacts.
Begun(c, j) == Appended(j, Authored(c, w1, j))
OneEntry == Begun(d1, <<>>)
MCStart == {Workspace(W("open", {}), NULL, w1, Begun(b1, Begun(t1, OneEntry)))}

MCArtifacts ==
    {a1 :> Artifact(v1, 7) @@ a2 :> Artifact(v1, 8), a1 :> Artifact(v1, 7) @@ a2 :> None,
     a1 :> Artifact(v1, 7) @@ a2 :> Artifact(v1, 7)}

MCSize == v1 :> 1 @@ v2 :> 2
Limit(paths, file, budget) == [paths |-> paths, file |-> file, budget |-> budget]
MCLimits == {Limit(2, 2, 4), Limit(1, 1, 4), Limit(2, 2, 1)}

MCOperations ==
    {CreateCiting(w2, {k1}), SetStatus(w1, "paused"), Select(NULL),
     AppendEntry(c1, w2, NULL), AppendEntry(c1, w1, NULL)}
MCOutsiders ==
    {[file |-> WorkFile(w1), doc |-> NULL], [file |-> JournalFile, doc |-> OneEntry],
     [file |-> WorkFile(w1), doc |-> W("complete", {})]}

-----------------------------------------------------------------------------
readersVars == <<ovars, inspectionVars, component>>

writing == <<lockFile, pc, job, shown, change, temp, crashes, outside, blind>>
reading == <<inode, artifacts, reader, walk, updates, tampered, history>>

Resting ==
    /\ inode = [f \in SnapshotFiles |-> 0] /\ artifacts = [p \in Path |-> None]
    /\ reader = Idle /\ walk = AtRest
    /\ updates = 0 /\ tampered = FALSE /\ moments = {} /\ returned = FALSE

Unlocked ==
    /\ lockFile = FALSE /\ crashes = 0 /\ outside = 0 /\ blind = {}
    /\ pc = [w \in Writer |-> "idle"]
    /\ job = [w \in Writer |-> NULL] /\ shown = job /\ change = job /\ temp = job

ReadersInit ==
    /\ Unlocked
    /\ \/ component = "writers" /\ files = InitialFiles /\ Resting
       \/ component = "views" /\ files \in AllWorkspaces /\ Resting
       \/ component = "readers" /\ InspectionInit

ReadersNext ==
    /\ UNCHANGED component
    /\ \/ component = "writers" /\ OutsideNext /\ UNCHANGED reading
       \/ component = "readers" /\ InspectionNext /\ UNCHANGED writing

ReadersSpec ==
    ReadersInit /\ [][ReadersNext]_readersVars /\ \A w \in Writer : WF_vars(Advance(w))
=============================================================================
