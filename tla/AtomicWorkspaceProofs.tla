------------------------- MODULE AtomicWorkspaceProofs -------------------------
(***************************************************************************)
(* What one operation of the memory writer, executed alone, does to every   *)
(* document, and what the sequential workspace therefore keeps, for every   *)
(* set of proposals.  PendingCheckpointsProofs and WriterAndReaderProofs    *)
(* cite these facts once they have shown that their commits are such        *)
(* operations, and of the files that a reader meets, which change by such   *)
(* operations.                                                              *)
(***************************************************************************)
EXTENDS AtomicWorkspace, TLAPS

Ops == {"work_create", "work_status", "work_select", "inbox_add",
        "inbox_promote", "knowledge_retire", "checkpoint_append", "context_write"}

-----------------------------------------------------------------------------
(* Proposals and their targets. *)

\* What a writer, or anyone else who follows the operations, may execute.
Change(p) == p \in Proposal \/ p = ContextProposal(p.source)

LEMMA RequestIsChange == \A p : Request(p) => Change(p)
  BY ProposalsAssumption DEF Request, Change

\* A change is one of the eight operations.
LEMMA ChangeOp == \A p : Change(p) => p.op \in Ops
  <1> SUFFICES ASSUME NEW p, Change(p) PROVE p.op \in Ops
    OBVIOUS
  <1>1. CASE p \in Proposal
    BY <1>1 DEF Proposal, Ops
  <1>2. CASE p = ContextProposal(p.source)
    BY <1>2 DEF ContextProposal, Ops
  <1> QED
    BY <1>1, <1>2 DEF Change

\* The fields of each operation are what its payload says.
LEMMA ChangeFields ==
  ASSUME NEW p, Change(p)
  PROVE  /\ p.op \in {"work_create", "work_status"} =>
                p.work_id \in WorkId /\ p.status \in WORK_STATUS
         /\ p.op = "work_create" => p.knowledge_ids \in SUBSET KnowledgeId
         /\ p.op = "work_select" => p.work_id \in WorkId \cup {NULL}
         /\ p.op \in {"inbox_add", "inbox_promote"} => p.note_id \in NoteId
         /\ p.op \in {"inbox_promote", "knowledge_retire"} => p.knowledge_id \in KnowledgeId
         /\ p.op = "inbox_promote" =>
                p.status \in KNOWLEDGE_STATUS /\ p.supersedes \in KnowledgeId \cup {NULL}
         /\ p.op = "checkpoint_append" => p.entry \in Author
  <1>1. CASE p \in Proposal
    BY <1>1 DEF Proposal
  <1>2. CASE p = ContextProposal(p.source)
    BY <1>2 DEF ContextProposal
  <1> QED
    BY <1>1, <1>2 DEF Change

\* What each operation writes.
LEMMA Targets ==
  ASSUME NEW p, Change(p)
  PROVE  /\ p.op \in {"work_create", "work_status"} => Target(p) = WorkFile(p.work_id)
         /\ p.op = "work_select" => Target(p) = LocalFile
         /\ p.op = "inbox_add" => Target(p) = InboxFile(p.note_id)
         /\ p.op \in {"inbox_promote", "knowledge_retire"} => Target(p) = KnowledgeFile(p.knowledge_id)
         /\ p.op = "checkpoint_append" => Target(p) = JournalFile
         /\ p.op = "context_write" => Target(p) = ContextFile
  BY ChangeOp DEF Target, Ops

\* Files of different directories, and of different identifiers, differ.
LEMMA Distinct ==
  /\ \A w, v : WorkFile(w) = WorkFile(v) => w = v
  /\ \A w, v : KnowledgeFile(w) = KnowledgeFile(v) => w = v
  /\ \A w, v : InboxFile(w) = InboxFile(v) => w = v
  /\ \A w, v : WorkFile(w) # KnowledgeFile(v) /\ WorkFile(w) # InboxFile(v)
                 /\ KnowledgeFile(w) # InboxFile(v)
  /\ \A w : /\ WorkFile(w) \notin {JournalFile, LocalFile, ContextFile}
            /\ KnowledgeFile(w) \notin {JournalFile, LocalFile, ContextFile}
            /\ InboxFile(w) \notin {JournalFile, LocalFile, ContextFile}
  /\ JournalFile # LocalFile /\ JournalFile # ContextFile /\ LocalFile # ContextFile
  BY DEF WorkFile, KnowledgeFile, InboxFile, JournalFile, LocalFile, ContextFile

\* Every target is a file of the workspace.
LEMMA TargetIsFile == ASSUME NEW p, Change(p) PROVE Target(p) \in File
  BY ChangeOp, ChangeFields, Targets
     DEF Ops, File, SnapshotFiles, WorkFiles, KnowledgeFiles, InboxFiles

-----------------------------------------------------------------------------
(* The sequential workspace. *)

\* The document an operation leaves in its target has the type of that file.
LEMMA TypedUpdate ==
  ASSUME NEW p, Change(p), Updates(p), TypedFiles(files), Fits(p, files)
  PROVE  /\ p.op = "work_status" =>
                /\ files[Target(p)] \in Work
                /\ After(p, Snapshot(files), files) = [files[Target(p)] EXCEPT !.status = p.status]
                /\ After(p, Snapshot(files), files) \in Work
         /\ p.op = "knowledge_retire" =>
                /\ files[Target(p)] \in Knowledge
                /\ After(p, Snapshot(files), files) = [files[Target(p)] EXCEPT !.status = "retired"]
                /\ After(p, Snapshot(files), files) \in Knowledge
  <1>1. ASSUME p.op = "work_status"
        PROVE  /\ files[Target(p)] \in Work
               /\ After(p, Snapshot(files), files) = [files[Target(p)] EXCEPT !.status = p.status]
               /\ After(p, Snapshot(files), files) \in Work
    <2>1. Target(p) = WorkFile(p.work_id) /\ p.work_id \in WorkId /\ p.status \in WORK_STATUS
      BY <1>1, Targets, ChangeFields
    <2>2. files[Target(p)] \in Work
      BY <2>1, <1>1 DEF TypedFiles, TypedSnapshot, Snapshot, Fits, SnapshotFiles, WorkFiles, Updates
    <2>3. After(p, Snapshot(files), files) = [files[Target(p)] EXCEPT !.status = p.status]
      BY <1>1 DEF After
    <2> QED
      BY <2>1, <2>2, <2>3 DEF Work
  <1>2. ASSUME p.op = "knowledge_retire"
        PROVE  /\ files[Target(p)] \in Knowledge
               /\ After(p, Snapshot(files), files) = [files[Target(p)] EXCEPT !.status = "retired"]
               /\ After(p, Snapshot(files), files) \in Knowledge
    <2>1. Target(p) = KnowledgeFile(p.knowledge_id) /\ p.knowledge_id \in KnowledgeId
      BY <1>2, Targets, ChangeFields
    <2>2. files[Target(p)] \in Knowledge
      BY <2>1, <1>2 DEF TypedFiles, TypedSnapshot, Snapshot, Fits, SnapshotFiles, KnowledgeFiles, Updates
    <2>3. After(p, Snapshot(files), files) = [files[Target(p)] EXCEPT !.status = "retired"]
      BY <1>2 DEF After
    <2> QED
      BY <2>2, <2>3 DEF Knowledge, KNOWLEDGE_STATUS
  <1> QED
    BY <1>1, <1>2

\* A Work or Knowledge file never disappears and never changes but in status.
LEMMA StatusOnly ==
  ASSUME TypedFiles(files), NEW p, Change(p), Execute(p),
         NEW t \in WorkFiles \cup KnowledgeFiles, files[t] # NULL
  PROVE  /\ files'[t] # NULL
         /\ \A x : [files'[t] EXCEPT !.status = x] = [files[t] EXCEPT !.status = x]
  <1>1. CASE t # Target(p)
    <2>1. files'[t] = files[t]
      BY <1>1 DEF Execute
    <2> QED
      BY <2>1
  <1>2. CASE t = Target(p)
    <2>1. Updates(p)
      <3>1. ~Creates(p)
        BY <1>2 DEF Execute, Accepted, Fits
      <3>2. p.op \notin {"work_select", "checkpoint_append", "context_write"}
        BY <1>2, Targets, Distinct DEF WorkFiles, KnowledgeFiles
      <3> QED
        BY <3>1, <3>2, ChangeOp DEF Ops, Creates, Updates
    <2>2. Fits(p, files)
      BY DEF Execute, Accepted
    <2>3. files'[t] = After(p, Snapshot(files), files)
      BY <1>2, TargetIsFile DEF Execute, TypedFiles
    <2>4. p.op \in {"work_status", "knowledge_retire"}
      BY <2>1 DEF Updates
    <2>5. CASE p.op = "work_status"
      <3>1. /\ files[t] \in Work /\ files'[t] \in Work
            /\ files'[t] = [files[t] EXCEPT !.status = p.status]
        BY <2>1, <2>2, <2>3, <2>5, <1>2, TypedUpdate
      <3>2. \A x : [files'[t] EXCEPT !.status = x] = [files[t] EXCEPT !.status = x]
        BY <3>1 DEF Work
      <3> QED
        BY <3>1, <3>2, MissingAssumption
    <2>6. CASE p.op = "knowledge_retire"
      <3>1. /\ files[t] \in Knowledge /\ files'[t] \in Knowledge
            /\ files'[t] = [files[t] EXCEPT !.status = "retired"]
        BY <2>1, <2>2, <2>3, <2>6, <1>2, TypedUpdate
      <3>2. \A x : [files'[t] EXCEPT !.status = x] = [files[t] EXCEPT !.status = x]
        BY <3>1 DEF Knowledge
      <3> QED
        BY <3>1, <3>2, MissingAssumption
    <2> QED
      BY <2>4, <2>5, <2>6
  <1> QED
    BY <1>1, <1>2

\* What execution does to each file.
LEMMA ExecuteFrame ==
  ASSUME TypedFiles(files), NEW p, Change(p), Execute(p)
  PROVE  /\ DOMAIN files' = File
         /\ files'[Target(p)] = After(p, Snapshot(files), files)
         /\ \A x \in File : x # Target(p) => files'[x] = files[x]
  BY TargetIsFile DEF Execute, TypedFiles

\* The entry an append adds to the journal is a checkpoint.
LEMMA TypedEntry ==
  ASSUME NEW j \in Seq(Checkpoint), NEW a \in Author
  PROVE  Entry(a, j) \in Checkpoint
  <1>1. HeadDigest(j) \in Seq(Author)
    <2>1. CASE j = <<>>
      BY <2>1 DEF HeadDigest
    <2>2. CASE j # <<>>
      <3>1. Len(j) \in 1..Len(j)
        BY <2>2
      <3>2. j[Len(j)] \in Checkpoint
        BY <3>1
      <3>3. j[Len(j)].previous \in Seq(Author) /\ AuthorOf(j[Len(j)]) \in Author
        BY <3>2 DEF Checkpoint, AuthorOf, Author
      <3> QED
        BY <2>2, <3>3 DEF HeadDigest, CheckpointDigest
    <2> QED
      BY <2>1, <2>2
  <1> QED
    BY <1>1 DEF Entry, Author, Checkpoint

\* Execution keeps every document well typed.
LEMMA ExecuteTyped ==
  ASSUME TypedFiles(files), NEW p, Change(p), Execute(p)
  PROVE  TypedFiles(files')
  <1> DEFINE new == After(p, Snapshot(files), files)
  <1>1. p.op \in Ops
    BY ChangeOp
  <1>2. \A w \in WorkId : files'[WorkFile(w)] \in Work \cup {NULL}
    <2> SUFFICES ASSUME NEW w \in WorkId PROVE files'[WorkFile(w)] \in Work \cup {NULL}
      OBVIOUS
    <2>1. WorkFile(w) \in SnapshotFiles /\ WorkFile(w) \in File
      BY DEF File, SnapshotFiles, WorkFiles
    <2>2. files[WorkFile(w)] \in Work \cup {NULL}
      BY <2>1 DEF TypedFiles, TypedSnapshot, Snapshot
    <2>3. CASE WorkFile(w) # Target(p)
      BY <2>1, <2>2, <2>3, ExecuteFrame
    <2>4. CASE WorkFile(w) = Target(p)
      <3>1. p.op \in {"work_create", "work_status"}
        BY <2>4, <1>1, Targets, Distinct DEF Ops
      <3>2. CASE p.op = "work_create"
        <4>1. new = [status |-> p.status, knowledge_ids |-> p.knowledge_ids]
          BY <3>2 DEF After
        <4> QED
          BY <4>1, <3>2, <2>4, ChangeFields, ExecuteFrame DEF Work
      <3>3. CASE p.op = "work_status"
        <4>1. new \in Work
          BY <3>3, TypedUpdate DEF Execute, Accepted, Updates
        <4> QED
          BY <4>1, <2>4, ExecuteFrame
      <3> QED
        BY <3>1, <3>2, <3>3
    <2> QED
      BY <2>3, <2>4
  <1>3. \A k \in KnowledgeId : files'[KnowledgeFile(k)] \in Knowledge \cup {NULL}
    <2> SUFFICES ASSUME NEW k \in KnowledgeId PROVE files'[KnowledgeFile(k)] \in Knowledge \cup {NULL}
      OBVIOUS
    <2>1. KnowledgeFile(k) \in SnapshotFiles /\ KnowledgeFile(k) \in File
      BY DEF File, SnapshotFiles, KnowledgeFiles
    <2>2. files[KnowledgeFile(k)] \in Knowledge \cup {NULL}
      BY <2>1 DEF TypedFiles, TypedSnapshot, Snapshot
    <2>3. CASE KnowledgeFile(k) # Target(p)
      BY <2>1, <2>2, <2>3, ExecuteFrame
    <2>4. CASE KnowledgeFile(k) = Target(p)
      <3>1. p.op \in {"inbox_promote", "knowledge_retire"}
        BY <2>4, <1>1, Targets, Distinct DEF Ops
      <3>2. CASE p.op = "inbox_promote"
        <4>1. new = [status |-> p.status, supersedes |-> p.supersedes]
          BY <3>2 DEF After
        <4> QED
          BY <4>1, <3>2, <2>4, ChangeFields, ExecuteFrame DEF Knowledge
      <3>3. CASE p.op = "knowledge_retire"
        <4>1. new \in Knowledge
          BY <3>3, TypedUpdate DEF Execute, Accepted, Updates
        <4> QED
          BY <4>1, <2>4, ExecuteFrame
      <3> QED
        BY <3>1, <3>2, <3>3
    <2> QED
      BY <2>3, <2>4
  <1>4. files'[JournalFile] \in Seq(Checkpoint)
    <2>1. JournalFile \in SnapshotFiles /\ JournalFile \in File
      BY DEF File, SnapshotFiles
    <2>2. files[JournalFile] \in Seq(Checkpoint) /\ Journal(Snapshot(files)) = files[JournalFile]
      BY <2>1 DEF TypedFiles, TypedSnapshot, Snapshot, Journal
    <2>3. CASE JournalFile # Target(p)
      BY <2>1, <2>2, <2>3, ExecuteFrame
    <2>4. CASE JournalFile = Target(p)
      <3>1. p.op = "checkpoint_append"
        BY <2>4, <1>1, Targets, Distinct DEF Ops
      <3>2. new = Append(files[JournalFile], Entry(p.entry, files[JournalFile]))
        BY <3>1, <2>2 DEF After, Appended
      <3>3. Entry(p.entry, files[JournalFile]) \in Checkpoint
        BY <3>1, <2>2, ChangeFields, TypedEntry
      <3>4. new \in Seq(Checkpoint)
        BY <3>2, <3>3, <2>2
      <3> QED
        BY <3>4, <2>4, ExecuteFrame
    <2> QED
      BY <2>3, <2>4
  <1>5. files'[LocalFile] \in LocalState \cup {NULL}
    <2>1. LocalFile \in SnapshotFiles /\ LocalFile \in File
      BY DEF File, SnapshotFiles
    <2>2. files[LocalFile] \in LocalState \cup {NULL}
      BY <2>1 DEF TypedFiles, TypedSnapshot, Snapshot
    <2>3. CASE LocalFile # Target(p)
      BY <2>1, <2>2, <2>3, ExecuteFrame
    <2>4. CASE LocalFile = Target(p)
      <3>1. p.op = "work_select"
        BY <2>4, <1>1, Targets, Distinct DEF Ops
      <3>2. new = [selected_work_id |-> p.work_id]
        BY <3>1 DEF After
      <3> QED
        BY <3>1, <3>2, <2>4, ChangeFields, ExecuteFrame DEF LocalState
    <2> QED
      BY <2>3, <2>4
  <1>6. \A n \in NoteId : files'[InboxFile(n)] \in {n, NULL}
    <2> SUFFICES ASSUME NEW n \in NoteId PROVE files'[InboxFile(n)] \in {n, NULL}
      OBVIOUS
    <2>1. InboxFile(n) \in File /\ files[InboxFile(n)] \in {n, NULL}
      BY DEF File, InboxFiles, TypedFiles
    <2>2. CASE InboxFile(n) # Target(p)
      BY <2>1, <2>2, ExecuteFrame
    <2>3. CASE InboxFile(n) = Target(p)
      <3>1. p.op = "inbox_add" /\ p.note_id = n
        BY <2>3, <1>1, Targets, Distinct DEF Ops
      <3>2. new = p.note_id
        BY <3>1 DEF After
      <3> QED
        BY <3>1, <3>2, <2>3, ExecuteFrame
    <2> QED
      BY <2>2, <2>3
  <1>7. TypedSnapshot(Snapshot(files'))
    BY <1>2, <1>3, <1>4, <1>5
       DEF TypedSnapshot, Snapshot, SnapshotFiles, WorkFiles, KnowledgeFiles
  <1> QED
    BY <1>6, <1>7, ExecuteFrame DEF TypedFiles

LEMMA RequestsAreRequests == \A p \in Requests(files) : Request(p) /\ Change(p)
  BY RequestIsChange DEF Requests, Request, ContextProposal

LEMMA InitTyped == TypedFiles(InitialFiles)
  <1>1. /\ DOMAIN InitialFiles = File
        /\ InitialFiles[JournalFile] = <<>>
        /\ InitialFiles[LocalFile] = [selected_work_id |-> NULL]
        /\ \A w \in WorkId : InitialFiles[WorkFile(w)] = NULL
        /\ \A k \in KnowledgeId : InitialFiles[KnowledgeFile(k)] = NULL
        /\ \A n \in NoteId : InitialFiles[InboxFile(n)] = NULL
    BY Distinct DEF InitialFiles, File, SnapshotFiles, WorkFiles, KnowledgeFiles, InboxFiles
  <1>2. <<>> \in Seq(Checkpoint) /\ [selected_work_id |-> NULL] \in LocalState
    BY DEF LocalState
  <1> QED
    BY <1>1, <1>2 DEF TypedFiles, TypedSnapshot, Snapshot, SnapshotFiles, WorkFiles, KnowledgeFiles

\* A step of the sequential workspace, and what it does to the journal: nothing,
\* or one more entry that leaves a valid journal.
LEMMA ExecuteJournal ==
  ASSUME TypedFiles(files), NEW p, Change(p), Execute(p)
  PROVE  \/ Journal(files') = Journal(files)
         \/ /\ p.op = "checkpoint_append"
            /\ p.entry.work_id \in Works(files)
            /\ Journal(files') = Append(Journal(files), Entry(p.entry, Journal(files)))
            /\ ValidJournal(Journal(files'))
  <1>1. JournalFile \in File /\ JournalFile \in SnapshotFiles
    BY DEF File, SnapshotFiles
  <1>2. CASE Target(p) # JournalFile
    BY <1>1, <1>2, ExecuteFrame DEF Journal
  <1>3. CASE Target(p) = JournalFile
    <2>1. p.op = "checkpoint_append"
      BY <1>3, ChangeOp, Targets, Distinct DEF Ops
    <2>2. Journal(Snapshot(files)) = Journal(files)
      BY <1>1 DEF Journal, Snapshot
    <2>3. Works(Snapshot(files)) = Works(files)
      BY DEF Works, Snapshot, SnapshotFiles, WorkFiles
    <2>4. /\ p.entry.work_id \in Works(files)
          /\ ValidJournal(Append(Journal(files), Entry(p.entry, Journal(files))))
      BY <2>1, <2>2, <2>3 DEF Execute, Accepted, Citable, Appended
    <2>5. Journal(files') = Append(Journal(files), Entry(p.entry, Journal(files)))
      BY <1>3, <2>1, <2>2, ExecuteFrame DEF After, Appended, Journal
    <2> QED
      BY <2>1, <2>4, <2>5
  <1> QED
    BY <1>2, <1>3

LEMMA JournalTyped ==
  ASSUME NEW f, TypedFiles(f) PROVE Journal(f) \in Seq(Checkpoint)
  BY DEF TypedFiles, TypedSnapshot, Journal, Snapshot, SnapshotFiles

\* Work and Knowledge only accumulate.
LEMMA ExecuteKeeps ==
  ASSUME TypedFiles(files), NEW p, Change(p), Execute(p)
  PROVE  /\ Works(files) \subseteq Works(files')
         /\ KnownKnowledge(files) \subseteq KnownKnowledge(files')
  BY StatusOnly DEF Works, KnownKnowledge, WorkFiles, KnowledgeFiles

\* Executing one operation keeps every citation resolved.
LEMMA ExecuteCitations ==
  ASSUME TypedFiles(files), NEW p, Change(p), Execute(p), ReferencesResolve(files)
  PROVE  ReferencesResolve(files')
  <1> DEFINE new == After(p, Snapshot(files), files)
  <1>1. /\ Works(Snapshot(files)) = Works(files)
        /\ KnownKnowledge(Snapshot(files)) = KnownKnowledge(files)
        /\ ApprovedKnowledge(Snapshot(files)) \subseteq KnownKnowledge(files)
    BY DEF Works, KnownKnowledge, ApprovedKnowledge, Snapshot, SnapshotFiles, WorkFiles, KnowledgeFiles
  <1>2. Selected(files') # NULL => Selected(files') \in Works(files')
    <2>1. LocalFile \in File
      BY DEF File, SnapshotFiles
    <2>2. CASE Target(p) # LocalFile
      <3>1. Selected(files') = Selected(files)
        BY <2>1, <2>2, ExecuteFrame DEF Selected
      <3> QED
        BY <3>1, ExecuteKeeps DEF ReferencesResolve
    <2>3. CASE Target(p) = LocalFile
      <3>1. p.op = "work_select"
        BY <2>3, ChangeOp, Targets, Distinct DEF Ops
      <3>2. files'[LocalFile] = [selected_work_id |-> p.work_id]
        BY <2>3, <3>1, ExecuteFrame DEF After
      <3>3. p.work_id = NULL \/ p.work_id \in Works(files)
        BY <3>1, <1>1 DEF Execute, Accepted, Citable
      <3> QED
        BY <3>2, <3>3, ExecuteKeeps DEF Selected
    <2> QED
      BY <2>2, <2>3
  <1>3. \A w \in Works(files') : files'[WorkFile(w)].knowledge_ids \subseteq KnownKnowledge(files')
    <2> SUFFICES ASSUME NEW w \in Works(files')
                 PROVE  files'[WorkFile(w)].knowledge_ids \subseteq KnownKnowledge(files')
      OBVIOUS
    <2>1. WorkFile(w) \in File /\ WorkFile(w) \in WorkFiles /\ w \in WorkId
      BY DEF Works, File, SnapshotFiles, WorkFiles
    <2>2. CASE Target(p) # WorkFile(w)
      <3>1. files'[WorkFile(w)] = files[WorkFile(w)]
        BY <2>1, <2>2, ExecuteFrame
      <3>2. w \in Works(files)
        BY <3>1 DEF Works
      <3> QED
        BY <3>1, <3>2, ExecuteKeeps DEF ReferencesResolve
    <2>3. CASE Target(p) = WorkFile(w)
      <3>1. p.op \in {"work_create", "work_status"}
        BY <2>3, ChangeOp, Targets, Distinct DEF Ops
      <3>2. CASE p.op = "work_create"
        <4>1. files'[WorkFile(w)] = new
          BY <2>3, ExecuteFrame
        <4>2. new = [status |-> p.status, knowledge_ids |-> p.knowledge_ids]
          BY <3>2 DEF After
        <4>3. files'[WorkFile(w)].knowledge_ids = p.knowledge_ids
          BY <4>1, <4>2
        <4>4. p.knowledge_ids \subseteq KnownKnowledge(files)
          BY <3>2, <1>1 DEF Execute, Accepted, Citable
        <4> QED
          BY <4>3, <4>4, ExecuteKeeps
      <3>3. CASE p.op = "work_status"
        <4>1. /\ files[WorkFile(w)] \in Work
              /\ files'[WorkFile(w)] = [files[WorkFile(w)] EXCEPT !.status = p.status]
          BY <3>3, <2>3, TypedUpdate, ExecuteFrame DEF Execute, Accepted, Updates
        <4>2. files'[WorkFile(w)].knowledge_ids = files[WorkFile(w)].knowledge_ids
          BY <4>1 DEF Work
        <4>3. w \in Works(files)
          BY <4>1, <2>1, MissingAssumption DEF Works
        <4> QED
          BY <4>2, <4>3, ExecuteKeeps DEF ReferencesResolve
      <3> QED
        BY <3>1, <3>2, <3>3
    <2> QED
      BY <2>2, <2>3
  <1>4. \A i \in 1..Len(Journal(files')) : Journal(files')[i].work_id \in Works(files')
    <2>1. CASE Journal(files') = Journal(files)
      BY <2>1, ExecuteKeeps DEF ReferencesResolve
    <2>2. CASE /\ p.entry.work_id \in Works(files)
               /\ Journal(files') = Append(Journal(files), Entry(p.entry, Journal(files)))
      <3>1. Journal(files) \in Seq(Checkpoint)
        BY JournalTyped
      <3>2. Entry(p.entry, Journal(files)).work_id = p.entry.work_id
        BY DEF Entry
      <3>3. \A i \in 1..Len(Journal(files')) :
              \/ i \in 1..Len(Journal(files)) /\ Journal(files')[i] = Journal(files)[i]
              \/ Journal(files')[i] = Entry(p.entry, Journal(files))
        BY <2>2, <3>1
      <3> QED
        BY <2>2, <3>2, <3>3, ExecuteKeeps DEF ReferencesResolve
    <2> QED
      BY <2>1, <2>2, ExecuteJournal
  <1> QED
    BY <1>2, <1>3, <1>4 DEF ReferencesResolve

\* Executing one operation creates no Work that cites an entry not approved at
\* that instant, and brings no retired entry back.
LEMMA ExecuteCitesApproved ==
  ASSUME TypedFiles(files), NEW p, Change(p), Execute(p)
  PROVE  /\ \A w \in WorkId :
              files[WorkFile(w)] = NULL /\ files'[WorkFile(w)] # NULL =>
                  files'[WorkFile(w)].knowledge_ids \subseteq ApprovedKnowledge(files')
         /\ \A k \in KnownKnowledge(files) :
              files[KnowledgeFile(k)].status = "retired" =>
                  files'[KnowledgeFile(k)].status = "retired"
  <1>1. ASSUME NEW w \in WorkId, files[WorkFile(w)] = NULL, files'[WorkFile(w)] # NULL
        PROVE  files'[WorkFile(w)].knowledge_ids \subseteq ApprovedKnowledge(files')
    <2>1. WorkFile(w) \in File
      BY DEF File, SnapshotFiles, WorkFiles
    <2>2. Target(p) = WorkFile(w)
      BY <1>1, <2>1, ExecuteFrame
    <2>3. p.op = "work_create"
      BY <1>1, <2>2, ChangeOp, Targets, Distinct DEF Ops, Execute, Accepted, Fits, Updates
    <2>4. files'[WorkFile(w)] = [status |-> p.status, knowledge_ids |-> p.knowledge_ids]
      BY <2>2, <2>3, ExecuteFrame DEF After
    <2>5. p.knowledge_ids \subseteq ApprovedKnowledge(Snapshot(files))
      BY <2>3 DEF Execute, Accepted, Citable
    <2>6. ApprovedKnowledge(Snapshot(files)) \subseteq ApprovedKnowledge(files')
      <3> SUFFICES ASSUME NEW k \in ApprovedKnowledge(Snapshot(files))
                   PROVE  k \in ApprovedKnowledge(files')
        OBVIOUS
      <3>1. k \in KnowledgeId
        BY DEF ApprovedKnowledge, KnownKnowledge
      <3>2. KnowledgeFile(k) \in SnapshotFiles /\ KnowledgeFile(k) \in File
        BY <3>1 DEF File, SnapshotFiles, KnowledgeFiles
      <3>3. Snapshot(files)[KnowledgeFile(k)] = files[KnowledgeFile(k)]
        BY <3>2 DEF Snapshot
      <3>4. files'[KnowledgeFile(k)] = files[KnowledgeFile(k)]
        BY <3>2, <2>2, Distinct, ExecuteFrame
      <3> QED
        BY <3>1, <3>3, <3>4 DEF ApprovedKnowledge, KnownKnowledge
    <2> QED
      BY <2>4, <2>5, <2>6
  <1>2. ASSUME NEW k \in KnownKnowledge(files), files[KnowledgeFile(k)].status = "retired"
        PROVE  files'[KnowledgeFile(k)].status = "retired"
    <2>1. KnowledgeFile(k) \in File /\ files[KnowledgeFile(k)] # NULL
      BY DEF File, SnapshotFiles, KnowledgeFiles, KnownKnowledge
    <2>2. CASE Target(p) # KnowledgeFile(k)
      BY <1>2, <2>1, <2>2, ExecuteFrame
    <2>3. CASE Target(p) = KnowledgeFile(k)
      <3>1. p.op = "knowledge_retire"
        BY <2>1, <2>3, ChangeOp, Targets, Distinct
           DEF Ops, Execute, Accepted, Fits, Creates
      <3>2. Updates(p) /\ Fits(p, files)
        BY <3>1 DEF Execute, Accepted, Updates
      <3>3. /\ files[KnowledgeFile(k)] \in Knowledge
            /\ After(p, Snapshot(files), files) =
                  [files[KnowledgeFile(k)] EXCEPT !.status = "retired"]
        BY <3>1, <3>2, <2>3, TypedUpdate
      <3>4. files'[KnowledgeFile(k)] = After(p, Snapshot(files), files)
        BY <2>3, ExecuteFrame
      <3> QED
        BY <3>3, <3>4 DEF Knowledge
    <2> QED
      BY <2>2, <2>3
  <1> QED
    BY <1>1, <1>2

-----------------------------------------------------------------------------
(* What the sequential workspace keeps. *)

AtomicInv == TypedFiles(files) /\ JournalValid /\ CitationsResolve

\* Executed one at a time, the operations keep documents typed, the journal a
\* valid chain and every citation resolved.
THEOREM AtomicSafety == AtomicSpec => []AtomicInv
  <1>1. AtomicInit => AtomicInv
    <2> SUFFICES ASSUME AtomicInit PROVE AtomicInv
      OBVIOUS
    <2>1. TypedFiles(files)
      BY InitTyped DEF AtomicInit
    <2>2. /\ files[JournalFile] = <<>>
          /\ files[LocalFile] = [selected_work_id |-> NULL]
          /\ \A w \in WorkId : files[WorkFile(w)] = NULL
      BY Distinct DEF AtomicInit, InitialFiles, File, SnapshotFiles, WorkFiles
    <2>3. Selected(files) = NULL /\ Works(files) = {} /\ Journal(files) = <<>>
      BY <2>2 DEF Selected, Works, Journal
    <2>4. Len(Journal(files)) = 0 /\ 1..Len(Journal(files)) = {}
      BY <2>3
    <2>5. JournalValid
      BY <2>4, LimitsAssumption
         DEF JournalValid, ValidJournal, Chained, UniqueIds, ResolvesEarlier
    <2> QED
      BY <2>1, <2>3, <2>4, <2>5 DEF AtomicInv, CitationsResolve, ReferencesResolve
  <1>2. AtomicInv /\ [AtomicNext]_files => AtomicInv'
    <2> SUFFICES ASSUME AtomicInv, [AtomicNext]_files PROVE AtomicInv'
      OBVIOUS
    <2>1. CASE UNCHANGED files
      BY <2>1 DEF AtomicInv, JournalValid, CitationsResolve
    <2>2. ASSUME NEW p \in Requests(files), Execute(p) PROVE AtomicInv'
      <3>1. Change(p) /\ TypedFiles(files)
        BY <2>2, RequestsAreRequests DEF AtomicInv
      <3>2. TypedFiles(files')
        BY <3>1, <2>2, ExecuteTyped
      <3>3. ValidJournal(Journal(files'))
        BY <3>1, <2>2, ExecuteJournal DEF AtomicInv, JournalValid
      <3>4. ReferencesResolve(files')
        BY <3>1, <2>2, ExecuteCitations DEF AtomicInv, CitationsResolve
      <3> QED
        BY <3>2, <3>3, <3>4 DEF AtomicInv, JournalValid, CitationsResolve
    <2> QED
      BY <2>1, <2>2 DEF AtomicNext
  <1> QED
    BY <1>1, <1>2, PTL DEF AtomicSpec

\* A step of the sequential workspace only extends the journal.
LEMMA AtomicStepAppends ==
  ASSUME TypedFiles(files), [AtomicNext]_files
  PROVE  /\ Len(Journal(files)) <= Len(Journal(files'))
         /\ SubSeq(Journal(files'), 1, Len(Journal(files))) = Journal(files)
  <1>1. Journal(files) \in Seq(Checkpoint)
    BY JournalTyped
  <1>2. CASE Journal(files') = Journal(files)
    BY <1>1, <1>2
  <1>3. ASSUME NEW p \in Requests(files), Execute(p),
               Journal(files') = Append(Journal(files), Entry(p.entry, Journal(files)))
        PROVE  /\ Len(Journal(files)) <= Len(Journal(files'))
               /\ SubSeq(Journal(files'), 1, Len(Journal(files))) = Journal(files)
    BY <1>1, <1>3
  <1>4. CASE UNCHANGED files
    BY <1>2, <1>4
  <1> QED
    BY <1>2, <1>3, <1>4, ExecuteJournal, RequestsAreRequests DEF AtomicNext
=============================================================================
