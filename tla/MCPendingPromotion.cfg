SPECIFICATION Spec
CONSTANTS
    w1 = w1
    w2 = w2
    c1 = c1
    c2 = c2
    s1 = s1
    s2 = s2
    p1 = p1
    p2 = p2
    NULL = NULL
    WorkId = {w1, w2}
    KnowledgeId = {}
    NoteId = {}
    CheckpointId <- MCCheckpoint
    DeclaredSource <- MCSource
    Authors <- TwoWorkAuthors
    Process <- MCProcess
    Proposals <- TwoWorkProposals
    WritesContext = FALSE
    MaxWork = 2
    MaxKnowledge = 1
    MaxCheckpoints = 2
    MaxSources = 2
    MaxCandidates = 2
    MaxCrashes = 0
    MaxMerges = 0
SYMMETRY PendingSymmetry
PROPERTIES
    CandidatesImmutable
    AtomicSpec
CHECK_DEADLOCK FALSE
