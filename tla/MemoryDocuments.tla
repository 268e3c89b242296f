--------------------------- MODULE MemoryDocuments ---------------------------
(***************************************************************************)
(* The documents of one `.dubsar/` workspace, what a snapshot of it is and  *)
(* accepts, and what each of the eight operations of the memory writer      *)
(* would publish.  There is no state here: MemoryWriter runs these          *)
(* operators from concurrent writers, AtomicWorkspace runs them one at a    *)
(* time, PendingCheckpoints uses the journal.                               *)
(*                                                                          *)
(* A workspace is a function from file names to documents, NULL where there *)
(* is no file.  Only the fields that a guard or a property reads are kept.  *)
(* A SHA-256 digest is represented by the value it covers: equal digests    *)
(* are equal contents.                                                      *)
(***************************************************************************)
EXTENDS Naturals, Sequences, FiniteSets

CONSTANTS
    WorkId, KnowledgeId, NoteId, CheckpointId,
    MaxWork,          \* MEMORY_MAX_WORK_ITEMS
    MaxKnowledge,     \* MEMORY_MAX_KNOWLEDGE_ITEMS
    MaxCheckpoints,   \* MEMORY_MAX_CHECKPOINTS
    NULL              \* a missing file, or a null field of a document

ASSUME LimitsAssumption ==
    /\ MaxWork \in Nat /\ MaxKnowledge \in Nat /\ MaxCheckpoints \in Nat

ASSUME NullAssumption ==
    NULL \notin WorkId \cup KnowledgeId \cup NoteId \cup CheckpointId

-----------------------------------------------------------------------------
(* Files. *)

WorkFile(w) == <<"work", w>>
KnowledgeFile(k) == <<"knowledge", k>>
InboxFile(n) == <<"inbox", n>>
JournalFile == <<"checkpoints.json">>
LocalFile == <<"local.json">>
ContextFile == <<"generated", "context.md">>

WorkFiles == {WorkFile(w) : w \in WorkId}
KnowledgeFiles == {KnowledgeFile(k) : k \in KnowledgeId}
InboxFiles == {InboxFile(n) : n \in NoteId}

\* The files a snapshot captures; inbox/ and generated/ are not among them.
SnapshotFiles == WorkFiles \cup KnowledgeFiles \cup {JournalFile, LocalFile}

File == SnapshotFiles \cup InboxFiles \cup {ContextFile}

-----------------------------------------------------------------------------
(* Documents. *)

WORK_STATUS == {"open", "paused", "complete"}
KNOWLEDGE_STATUS == {"approved", "superseded", "retired"}

Work == [status : WORK_STATUS, knowledge_ids : SUBSET KnowledgeId]
Knowledge == [status : KNOWLEDGE_STATUS, supersedes : KnowledgeId \cup {NULL}]
LocalState == [selected_work_id : WorkId \cup {NULL}]

ASSUME MissingAssumption == NULL \notin Work /\ NULL \notin Knowledge

\* What an author writes in a checkpoint; index and digests are derived.
Author == [checkpoint_id : CheckpointId, work_id : WorkId,
           resolves : CheckpointId \cup {NULL}]

\* The digest of an entry covers its author fields and the digest before it,
\* so it stands for the whole chain that ends in the entry; the null digest
\* before the first entry is the empty chain.
AuthorOf(e) == [checkpoint_id |-> e.checkpoint_id, work_id |-> e.work_id,
                resolves |-> e.resolves]
CheckpointDigest(e) == Append(e.previous, AuthorOf(e))
HeadDigest(j) == IF j = <<>> THEN <<>> ELSE CheckpointDigest(j[Len(j)])

Checkpoint == [checkpoint_id : CheckpointId, work_id : WorkId,
               resolves : CheckpointId \cup {NULL}, index : Nat, previous : Seq(Author)]

Entry(a, j) == [checkpoint_id |-> a.checkpoint_id, work_id |-> a.work_id,
                resolves |-> a.resolves, index |-> Len(j),
                previous |-> HeadDigest(j)]

\* Mutant: the last entry is dropped before the new one is appended.
AppendedReplacingLast(j, a) ==
    LET kept == IF j = <<>> THEN j ELSE SubSeq(j, 1, Len(j) - 1)
    IN  Append(kept, Entry(a, kept))

Appended(j, a) == Append(j, Entry(a, j))

\* assertMemoryCheckpoints: the hash chain, unique ids, resolves points back.
Chained(j) ==
    \A i \in 1..Len(j) :
        /\ j[i].index = i - 1
        /\ j[i].previous = IF i = 1 THEN <<>> ELSE CheckpointDigest(j[i - 1])
UniqueIds(j) ==
    \A i, k \in 1..Len(j) : j[i].checkpoint_id = j[k].checkpoint_id => i = k
ResolvesEarlier(j) ==
    \A i \in 1..Len(j) : \/ j[i].resolves = NULL
                         \/ \E k \in 1..(i - 1) : j[k].checkpoint_id = j[i].resolves
ValidJournal(j) ==
    Len(j) <= MaxCheckpoints /\ Chained(j) /\ UniqueIds(j) /\ ResolvesEarlier(j)

-----------------------------------------------------------------------------
(* The snapshot (snapshotMemoryWorkspace). *)

Works(f) == {w \in WorkId : f[WorkFile(w)] # NULL}
KnownKnowledge(f) == {k \in KnowledgeId : f[KnowledgeFile(k)] # NULL}
ApprovedKnowledge(f) ==
    {k \in KnownKnowledge(f) : f[KnowledgeFile(k)].status = "approved"}
Journal(f) == f[JournalFile]
Selected(f) == IF f[LocalFile] = NULL THEN NULL ELSE f[LocalFile].selected_work_id

\* Mutant: inbox notes and the generated context are captured as well.
SnapshotOfEverything(f) == f

\* snapshot_sha256: the content of every canonical file and of local.json.
Snapshot(f) == [p \in SnapshotFiles |-> f[p]]

\* markdownNames: a directory may not hold more files than its limit.
WithinItemLimits(f) ==
    Cardinality(Works(f)) <= MaxWork /\ Cardinality(KnownKnowledge(f)) <= MaxKnowledge

\* The checks across documents: every identifier one of them cites exists.
ReferencesResolve(f) ==
    /\ Selected(f) # NULL => Selected(f) \in Works(f)
    /\ \A w \in Works(f) : f[WorkFile(w)].knowledge_ids \subseteq KnownKnowledge(f)
    /\ \A i \in 1..Len(Journal(f)) : Journal(f)[i].work_id \in Works(f)

SnapshotAccepts(f) ==
    WithinItemLimits(f) /\ ValidJournal(Journal(f)) /\ ReferencesResolve(f)

\* The documents have the types their readers check.
TypedSnapshot(s) ==
    /\ DOMAIN s = SnapshotFiles
    /\ \A w \in WorkId : s[WorkFile(w)] \in Work \cup {NULL}
    /\ \A k \in KnowledgeId : s[KnowledgeFile(k)] \in Knowledge \cup {NULL}
    /\ s[JournalFile] \in Seq(Checkpoint)
    /\ s[LocalFile] \in LocalState \cup {NULL}

TypedFiles(f) ==
    /\ DOMAIN f = File
    /\ TypedSnapshot(Snapshot(f))
    /\ \A n \in NoteId : f[InboxFile(n)] \in {n, NULL}

-----------------------------------------------------------------------------
(* The operations (buildChange).  A proposal is a record whose `op` is the  *)
(* operation and whose other fields are its payload.  `s` is the snapshot   *)
(* the writer captured first, `f` the live files it read after it.          *)

Proposal ==
    [op : {"work_create"}, work_id : WorkId, status : WORK_STATUS,
     knowledge_ids : SUBSET KnowledgeId]
      \cup [op : {"work_status"}, work_id : WorkId, status : WORK_STATUS]
      \cup [op : {"work_select"}, work_id : WorkId \cup {NULL}]
      \cup [op : {"inbox_add"}, note_id : NoteId]
      \cup [op : {"inbox_promote"}, note_id : NoteId, knowledge_id : KnowledgeId,
            status : KNOWLEDGE_STATUS, supersedes : KnowledgeId \cup {NULL}]
      \cup [op : {"knowledge_retire"}, knowledge_id : KnowledgeId]
      \cup [op : {"checkpoint_append"}, entry : Author]

\* The generated context names the snapshot it was compiled from.
ContextProposal(s) == [op |-> "context_write", source |-> s]

Target(p) ==
    CASE p.op \in {"work_create", "work_status"} -> WorkFile(p.work_id)
      [] p.op = "work_select" -> LocalFile
      [] p.op = "inbox_add" -> InboxFile(p.note_id)
      [] p.op \in {"inbox_promote", "knowledge_retire"} -> KnowledgeFile(p.knowledge_id)
      [] p.op = "checkpoint_append" -> JournalFile
      [] p.op = "context_write" -> ContextFile

\* Mutant: nothing is looked up in the snapshot, and the journal that results
\* is not passed through assertMemoryCheckpoints.
CitableUnchecked(p, s) == TRUE

\* What buildChange requires of the captured snapshot...
Citable(p, s) ==
    CASE p.op = "work_create" -> p.knowledge_ids \subseteq ApprovedKnowledge(s)
      [] p.op = "work_select" -> p.work_id = NULL \/ p.work_id \in Works(s)
      [] p.op = "inbox_promote" ->
            /\ p.supersedes # p.knowledge_id
            /\ p.supersedes = NULL \/ p.supersedes \in KnownKnowledge(s)
      [] p.op = "checkpoint_append" ->
            /\ p.entry.work_id \in Works(s)
            /\ ValidJournal(Appended(Journal(s), p.entry))
      [] p.op = "context_write" -> p.source = s
      [] OTHER -> TRUE

\* ... and of the live files: what is created must not exist, what is updated
\* must, and a promotion reads its note.
Creates(p) == p.op \in {"work_create", "inbox_add", "inbox_promote"}
Updates(p) == p.op \in {"work_status", "knowledge_retire"}
Fits(p, f) ==
    /\ Creates(p) => f[Target(p)] = NULL
    /\ Updates(p) => f[Target(p)] # NULL
    /\ p.op = "inbox_promote" => f[InboxFile(p.note_id)] # NULL

Accepted(p, s, f) == Citable(p, s) /\ Fits(p, f)

\* The document the operation publishes (afterBytes).
After(p, s, f) ==
    CASE p.op = "work_create" -> [status |-> p.status, knowledge_ids |-> p.knowledge_ids]
      [] p.op = "work_status" -> [f[Target(p)] EXCEPT !.status = p.status]
      [] p.op = "work_select" -> [selected_work_id |-> p.work_id]
      [] p.op = "inbox_add" -> p.note_id
      [] p.op = "inbox_promote" -> [status |-> p.status, supersedes |-> p.supersedes]
      [] p.op = "knowledge_retire" -> [f[Target(p)] EXCEPT !.status = "retired"]
      [] p.op = "checkpoint_append" -> Appended(Journal(s), p.entry)
      [] p.op = "context_write" -> [source |-> p.source]

\* before_sha256: from the snapshot where it has the file, else from the file.
Before(p, s, f) ==
    IF Target(p) \in SnapshotFiles /\ s[Target(p)] # NULL THEN s[Target(p)] ELSE f[Target(p)]

\* source_sha256: the inbox note a promotion reads.
Source(p, f) == IF p.op = "inbox_promote" THEN f[InboxFile(p.note_id)] ELSE NULL

\* The change a user previews and confirms: change_sha256 covers these fields.
BuildChange(p, s, f) ==
    [proposal |-> p, target |-> Target(p), snapshot |-> s,
     before |-> Before(p, s, f), after |-> After(p, s, f), source |-> Source(p, f)]

\* initializationFiles: the workspace the initializer publishes.
InitialFiles ==
    [p \in File |-> CASE p = JournalFile -> <<>>
                      [] p = LocalFile -> [selected_work_id |-> NULL]
                      [] OTHER -> NULL]
=============================================================================
