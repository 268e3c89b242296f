SPECIFICATION Spec
CONSTANTS
    w1 = w1
    w2 = w2
    c1 = c1
    c2 = c2
    s1 = s1
    s2 = s2
    p1 = p1
    p2 = p2
    NULL = NULL
    WorkId = {w1}
    KnowledgeId = {}
    NoteId = {}
    CheckpointId <- MCCheckpoint
    DeclaredSource <- MCSource
    Authors <- MCAuthors
    Process <- MCProcess
    Proposals <- MCProposals
    WritesContext = FALSE
    MaxWork = 2
    MaxKnowledge = 1
    MaxCheckpoints = 2
    MaxSources = 1
    MaxCandidates = 2
    MaxCrashes = 1
    MaxMerges = 1
SYMMETRY PendingSymmetry
INVARIANTS
    PendingTreeListable
PROPERTIES
    ContinuesWorkChain
CHECK_DEADLOCK FALSE
