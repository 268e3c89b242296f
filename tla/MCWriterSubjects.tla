--------------------------- MODULE MCWriterSubjects ---------------------------
\* The instance of MCMemoryWriter over the journal and the Knowledge: the
\* proposals of one behaviour are about one of the two subjects, each small
\* enough on its own.  Processes die in the behaviours about the journal.
EXTENDS MCMemoryWriter

VARIABLE subject

SubjectProposals == JournalProposals \cup KnowledgeProposals

AboutSubject ==
    /\ \A w \in Writer : job'[w] # NULL =>
          (subject = "journal" <=> job'[w].proposal \in JournalProposals)
    /\ subject = "knowledge" => crashes' = 0

SubjectInit == Init /\ subject \in {"journal", "knowledge"}
SubjectSpec ==
    SubjectInit /\ [][Next /\ AboutSubject /\ UNCHANGED subject]_<<vars, subject>>
=============================================================================
