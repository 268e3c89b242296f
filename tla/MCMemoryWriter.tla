---------------------------- MODULE MCMemoryWriter ----------------------------
\* Instances of MemoryWriter for TLC: two writers over a workspace small enough
\* that every operation meets every other one.
EXTENDS MemoryWriter, TLC

CONSTANTS w1, w2, k1, n1, c1, c2, p1, p2

MCWork == {w1}
MCKnowledge == {k1}
MCNote == {n1}
MCCheckpoint == {c1, c2}
MCWriter == {p1, p2}

WriterSymmetry == Permutations(Writer)

CreateCiting(w, K) ==
    [op |-> "work_create", work_id |-> w, status |-> "open", knowledge_ids |-> K]
SetStatus(w, s) == [op |-> "work_status", work_id |-> w, status |-> s]
Select(w) == [op |-> "work_select", work_id |-> w]
AppendEntry(c, w, r) ==
    [op |-> "checkpoint_append",
     entry |-> [checkpoint_id |-> c, work_id |-> w, resolves |-> r]]
AddNote(n) == [op |-> "inbox_add", note_id |-> n]
Promote(n, k) ==
    [op |-> "inbox_promote", note_id |-> n, knowledge_id |-> k,
     status |-> "approved", supersedes |-> NULL]
Retire(k) == [op |-> "knowledge_retire", knowledge_id |-> k]

\* Work, selection and journal.
JournalProposals ==
    {CreateCiting(w1, {}), Select(w1),
     AppendEntry(c1, w1, NULL), AppendEntry(c2, w1, c1), AppendEntry(c2, w1, NULL)}

\* Inbox, Knowledge and the Work that cites it.
KnowledgeProposals ==
    {AddNote(n1), Promote(n1, k1), Retire(k1), CreateCiting(w1, {k1})}
\* One Work and one checkpoint, for the runs whose question is elsewhere.
OutsideProposals ==
    {CreateCiting(w1, {}), SetStatus(w1, "complete"), AppendEntry(c1, w1, NULL)}

\* Every Work is created, none cites anything.
CreateProposals == {CreateCiting(w, {}) : w \in WorkId}
=============================================================================
