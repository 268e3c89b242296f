SPECIFICATION SubjectSpec
CONSTANTS
    w1 = w1
    w2 = w2
    k1 = k1
    n1 = n1
    c1 = c1
    c2 = c2
    p1 = p1
    p2 = p2
    NULL = NULL
    WorkId <- MCWork
    KnowledgeId <- MCKnowledge
    NoteId <- MCNote
    CheckpointId <- MCCheckpoint
    Writer <- MCWriter
    MaxWork = 2
    MaxKnowledge = 2
    MaxCheckpoints = 2
    Proposals <- SubjectProposals
    WritesContext = TRUE
    MaxCrashes = 1
INVARIANTS
    Inv
    DocumentsValid
PROPERTIES
    PublishedFromCurrent
    AtomicSpec
    CitesApprovedKnowledge
SYMMETRY WriterSymmetry
