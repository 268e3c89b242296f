------------------------ MODULE MCPendingCheckpoints ------------------------
\* Instances of PendingCheckpoints for TLC: two sources, two checkpoint
\* identifiers, two processes.
EXTENDS PendingCheckpoints, TLC

CONSTANTS w1, w2, c1, c2, s1, s2, p1, p2

MCCheckpoint == {c1, c2}
MCSource == {s1, s2}
MCProcess == {p1, p2}

PendingSymmetry == Permutations(Process) \cup Permutations(DeclaredSource)

Create(w) == [op |-> "work_create", work_id |-> w, status |-> "open", knowledge_ids |-> {}]
AppendEntry(a) == [op |-> "checkpoint_append", entry |-> a]

About(c, w, r) == [checkpoint_id |-> c, work_id |-> w, resolves |-> r]

\* Two candidates about one Work, the second resolving the first.
MCAuthors == {About(c1, w1, NULL), About(c2, w1, NULL), About(c2, w1, c1)}

\* What the other memory writers do meanwhile.
MCProposals == {Create(w1)} \cup {AppendEntry(a) : a \in MCAuthors}

\* Candidates about two Works: what others append moves the global head, with
\* or without the head of the candidate's Work.
TwoWorkAuthors == {About(c1, w1, NULL), About(c2, w2, NULL)}
TwoWorkProposals ==
    {Create(w1), Create(w2)}
      \cup {AppendEntry(a) : a \in TwoWorkAuthors \cup {About(c2, w1, NULL)}}
=============================================================================
