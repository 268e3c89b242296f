SPECIFICATION ReadersSpec
CONSTANTS
    w1 = w1  w2 = w2  k1 = k1  n1 = n1  c1 = c1  c2 = c2  p1 = p1  p2 = p2
    b1 = b1  t1 = t1  t2 = t2  d1 = d1  r1 = r1  a1 = a1  a2 = a2  v1 = v1  v2 = v2
    NULL = NULL  Missing = Missing  Unknown = Unknown
    WorkId <- ReadWork
    KnowledgeId <- MCKnowledge
    NoteId <- MCNote
    CheckpointId <- ReadCheckpoint
    Writer <- MCWriter
    MaxWork = 2
    MaxKnowledge = 2
    MaxCheckpoints = 4
    Proposals <- OutsideProposals
    Outside <- OutsideProposals
    WritesContext = FALSE
    MaxCrashes = 0
    MaxOutside = 2
    Path = {a1, a2}  Digest = {v1, v2}
    Content <- MCContent
    StartFiles <- MCStart  StartArtifacts <- MCArtifacts
    Operations <- MCOperations  Outsiders <- MCOutsiders
    Size <- MCSize  Limits <- MCLimits
    PageLimit = 2
    MaxUpdates = 2
INVARIANTS ViewsAgree WalkSeesEach
PROPERTIES SnapshotOfOneMoment ObservedAtOneMoment NoFalseAlarm
    OutsideNotOverwritten LockReleased
CHECK_DEADLOCK FALSE
