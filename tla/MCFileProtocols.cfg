CONSTANTS
    l1 = l1  l2 = l2  a1 = a1  a2 = a2  k1 = k1  k2 = k2  d1 = d1  t1 = t1  t2 = t2
    r1 = r1  r2 = r2  r3 = r3  i1 = i1  i2 = i2  i3 = i3
    e1 = e1  e2 = e2  e3 = e3  f1 = f1  v1 = v1  v2 = v2
    NoLot = NoLot  NoDigest = NoDigest
    Lot <- MCLot  DependsOn <- MCDepends  Expected <- MCExpected  Acceptance <- MCAcceptance
    EntryId = {e1, e2, e3}  Path = {f1}  Version = {v1, v2}
    Author = {a1, a2}
    Checkpoints <- MCCheckpoints  Edits <- MCEdits  FirstWorkspaces <- MCFirst
    MaxEvidence = 2  MaxEdits = 2  MaxAuthorCrashes = 1
    Notekeeper = {k1, k2}  Category = {"journal", "decisions"}  Digest = {d1}
    MaxEntries = 2  MaxNoteCrashes = 1
    Tool = {t1, t2}  Root = {r1, r2, r3}  ProjectId = {i1, i2, i3}  MaxProjects = 2
    Under <- MCUnder
    p1 = p1  p2 = p2  b1 = b1  b2 = b2
    Process <- MCProcess  Blocker <- MCBlocker  NULL = NULL
    Commands = {"initialize", "bootstrap", "lite_initialize", "migrate", "checkpoint"}
    ResultingState <- States
    MaxLite = 2  MaxJournal = 2  MaxBlockers = 1  MaxCrashes = 1
    c1 = c1  c2 = c2  x1 = x1  x2 = x2  Absent = Absent  Partial = Partial
    CaseId = {c1, c2}  Content = {v1, v2}
    Clerk = {c1, c2}  Artifact = {x1, x2}  ReceiptName <- MCReceiptName
    AuditScenarios <- MCAuditScenarios  AuditEdits <- MCAuditEdits
SPECIFICATION FilesSpec
INVARIANTS FilesTypeOK NextActionMatchesReadiness RegistryStaysLoadable
    UnreadableOnlyThroughKnownGaps OneCase BundleReady SignedAtOneMoment LedgerShowsRecorded
PROPERTIES WritersKeepIntegrity CompletedOnEvidence EntriesKeptAndNumbered
    JournalsOnlyGrow CloseKeepsInspectedBlockers
SYMMETRY ProtocolSymmetry
CHECK_DEADLOCK FALSE
