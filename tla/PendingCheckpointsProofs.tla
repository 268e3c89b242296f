----------------------- MODULE PendingCheckpointsProofs -----------------------
(***************************************************************************)
(* What holds of pending checkpoints for every set of processes, sources,   *)
(* authors and limits, with crashes, I/O failures, canonical writes and     *)
(* merges between any two steps.  The argument: PInv says, for each process *)
(* under way, which of the facts it has checked still hold; it is           *)
(* inductive, so the rename of a promotion is one atomic append             *)
(* (PromotionExecutes), and the rename of a record adds a candidate that    *)
(* the list accepts (TreeListable).                                         *)
(***************************************************************************)
EXTENDS PendingCheckpoints, AtomicWorkspaceProofs, FiniteSetTheorems, SequenceTheorems, WellFoundedInduction

-----------------------------------------------------------------------------
(* Journals and candidates. *)

\* A non-empty set of indices has a largest one.
LEMMA LargestIndex ==
  ASSUME NEW n \in Nat, NEW S \in SUBSET (1 .. n), S # {}
  PROVE  \E i \in S : \A k \in S : k <= i
  <1> DEFINE T == {n - i : i \in S}
  <1>0. \A i \in S : n - i \in Nat
    OBVIOUS
  <1>1. T \subseteq Nat /\ T # {}
    BY <1>0
  <1>2. PICK x \in T : \A y \in T : ~(<<y, x>> \in OpToRel(<, Nat))
    BY <1>1, WFMin, NatLessThanWellFounded
  <1>3. \A y \in T : ~(y < x)
    BY <1>1, <1>2 DEF OpToRel
  <1>4. PICK i \in S : x = n - i
    OBVIOUS
  <1>5. \A k \in S : ~(n - k < n - i)
    BY <1>3, <1>4
  <1> QED
    BY <1>5

\* Digests are chains of author fields.
LEMMA HeadTyped ==
  ASSUME NEW j \in Seq(Checkpoint)
  PROVE  /\ \A i \in 1 .. Len(j) : CheckpointDigest(j[i]) \in Seq(Author)
         /\ HeadDigest(j) \in Seq(Author)
  <1>1. \A i \in 1 .. Len(j) : CheckpointDigest(j[i]) \in Seq(Author)
    <2> SUFFICES ASSUME NEW i \in 1 .. Len(j) PROVE CheckpointDigest(j[i]) \in Seq(Author)
      OBVIOUS
    <2>1. j[i] \in Checkpoint
      OBVIOUS
    <2>2. j[i].previous \in Seq(Author) /\ AuthorOf(j[i]) \in Author
      BY <2>1 DEF Checkpoint, AuthorOf, Author
    <2> QED
      BY <2>2 DEF CheckpointDigest
  <1>2. j # <<>> => Len(j) \in 1 .. Len(j)
    OBVIOUS
  <1> QED
    BY <1>1, <1>2 DEF HeadDigest

\* So is the head of a Work.
LEMMA WorkHeadTyped ==
  ASSUME NEW j \in Seq(Checkpoint), NEW w PROVE WorkHead(j, w) \in Seq(Author)
  <1> DEFINE about == {i \in 1 .. Len(j) : j[i].work_id = w}
             last == CHOOSE i \in about : \A k \in about : k <= i
  <1>1. CASE about = {}
    BY <1>1 DEF WorkHead
  <1>2. CASE about # {}
    <2>1. Len(j) \in Nat /\ about \in SUBSET (1 .. Len(j))
      OBVIOUS
    <2>2. \E i \in about : \A k \in about : k <= i
      BY <1>2, <2>1, LargestIndex
    <2>3. last \in 1 .. Len(j)
      BY <2>2
    <2>4. WorkHead(j, w) = CheckpointDigest(j[last])
      BY <1>2 DEF WorkHead
    <2> HIDE DEF last
    <2> QED
      BY <2>3, <2>4, HeadTyped
  <1> QED
    BY <1>1, <1>2

\* What a record publishes is a candidate.
LEMMA CandidateTyped ==
  ASSUME NEW a \in Authors, NEW j \in Seq(Checkpoint)
  PROVE  CandidateOf(a, j) \in Candidate /\ CandidateOf(a, j).entry = a
  BY HeadTyped, WorkHeadTyped DEF CandidateOf, Candidate

\* An entry with a fresh identifier that resolves an earlier one, or none, can be
\* appended to a valid journal that has room.
LEMMA AppendValid ==
  ASSUME NEW j \in Seq(Checkpoint), ValidJournal(j), Len(j) < MaxCheckpoints,
         NEW a \in Author, a.checkpoint_id \notin Ids(j), a.resolves = NULL \/ a.resolves \in Ids(j)
  PROVE  ValidJournal(Appended(j, a))
  <1> DEFINE e == Entry(a, j)
             n == Len(j)
             k == Appended(j, a)
  <1>1. n \in Nat /\ e \in Checkpoint
    BY TypedEntry
  <1>2. /\ e.checkpoint_id = a.checkpoint_id /\ e.resolves = a.resolves /\ e.index = n
        /\ e.previous = HeadDigest(j)
    BY DEF Entry
  <1> HIDE DEF e
  <1>3. Len(k) = n + 1 /\ k[n + 1] = e /\ \A i \in 1 .. n : k[i] = j[i]
    BY <1>1 DEF Appended, e
  <1> HIDE DEF k
  <1>4. n = 0 <=> j = <<>>
    OBVIOUS
  <1>5. Chained(k)
    <2>1. \A i \in 1 .. n : k[i].index = i - 1
            /\ k[i].previous = IF i = 1 THEN <<>> ELSE CheckpointDigest(k[i - 1])
      BY <1>1, <1>3 DEF ValidJournal, Chained
    <2>2. k[n + 1].previous = IF n + 1 = 1 THEN <<>> ELSE CheckpointDigest(k[n + 1 - 1])
      BY <1>1, <1>2, <1>3, <1>4 DEF HeadDigest
    <2> QED
      BY <1>1, <1>2, <1>3, <2>1, <2>2 DEF Chained
  <1>6. UniqueIds(k)
    <2>1. \A i \in 1 .. n : k[i].checkpoint_id # k[n + 1].checkpoint_id
      BY <1>2, <1>3 DEF Ids
    <2> QED
      BY <1>1, <1>3, <2>1 DEF ValidJournal, UniqueIds
  <1>7. ResolvesEarlier(k)
    <2>1. k[n + 1].resolves = NULL \/ \E i \in 1 .. n : k[i].checkpoint_id = k[n + 1].resolves
      BY <1>2, <1>3 DEF Ids
    <2>2. \A i \in 1 .. n : k[i].resolves = NULL
             \/ \E l \in 1 .. i - 1 : k[l].checkpoint_id = k[i].resolves
      BY <1>1, <1>3 DEF ValidJournal, ResolvesEarlier
    <2> QED
      BY <1>1, <1>3, <2>1, <2>2 DEF ResolvesEarlier
  <1>8. ValidJournal(k)
    BY <1>1, <1>3, <1>5, <1>6, <1>7, LimitsAssumption DEF ValidJournal
  <1> QED
    BY <1>8 DEF k

-----------------------------------------------------------------------------
(* The inductive invariant. *)

\* Process w created the record lock, or the memory lock, and has not removed it.
HoldsRecord(w) == Recording(w) /\ pc[w] # "confirmed"
HoldsMemory(w) == Promoting(w) /\ pc[w] # "confirmed"

\* Each lock file exists while a process holds it, and has at most one holder;
\* after a crash it exists without one.
Locks ==
    \A v, w \in Process :
        /\ HoldsRecord(w) => recordLock
        /\ HoldsMemory(w) => memoryLock
        /\ HoldsRecord(v) /\ HoldsRecord(w) => v = w
        /\ HoldsMemory(v) /\ HoldsMemory(w) => v = w

\* There is room for a candidate at t, which a merge does not look at.
RoomFor(t) ==
    merges = 0 => /\ Cardinality(Recorded \cup {t}) <= MaxCandidates
                  /\ Cardinality(dirs \cup {t[1]}) <= MaxSources

\* A recorder publishes a candidate that the list accepts, finds room for it
\* until its rename, and is alone in having a temporary file.
RecordOK(w) ==
    Recording(w) =>
        LET t == change[w].slot IN
        /\ t \in Slot /\ change[w].after \in Candidate
        /\ change[w].after.entry.checkpoint_id = t[2]
        /\ CitesKnown(change[w].after.entry, files)
        /\ pc[w] # "confirmed" => debris \subseteq {t[1]}
        /\ pc[w] = "rechecked" => debris = {}
        /\ pc[w] \in {"rechecked", "opened", "staged", "ready"} => RoomFor(t)
        /\ pc[w] \in {"opened", "staged", "ready"} => t[1] \in dirs
        /\ pc[w] \in {"staged", "ready"} => t[1] \in debris
        /\ pc[w] = "ready" /\ merges = 0 => pending[t] = NULL

\* The promotion has been built again under the lock, and has to be published.
Rechecked(w) == Promoting(w) /\ pc[w] \in {"rechecked", "staged", "ready"}

\* What a promotion has checked under the lock still holds: it appends the
\* candidate that lies there to the journal that lies there.
PromoteOK(w) ==
    Rechecked(w) =>
        LET t == change[w].slot IN
        /\ t \in Slot /\ pending[t] # NULL
        /\ SnapshotAccepts(files) /\ Appendable(t)
        /\ change[w].after = Appended(Journal(files), pending[t].entry)

\* No record is about to replace a candidate that is being promoted: the list
\* the promotion required fails while a record has its temporary file, and no
\* record starts one in a slot that is taken.
Apart ==
    \A v, w \in Process :
        Rechecked(w) /\ Recording(v) /\ pc[v] \in {"staged", "ready"} =>
            change[v].slot # change[w].slot

\* A process under way is recording or promoting.
Kinds == \A w \in Process : pc[w] # "idle" => change[w].kind \in {"record", "promote"}

\* The inductive invariant.
PInv ==
    /\ PendingTreeListable /\ Locks /\ Apart /\ Kinds
    /\ \A w \in Process : RecordOK(w) /\ PromoteOK(w)

-----------------------------------------------------------------------------
(* What happens to the files. *)

\* The rename of a promotion is one atomic append.
LEMMA PromotionExecutes ==
  ASSUME TypeOK, NEW w \in Process, PromoteOK(w), RenamePromotion(w) PROVE AtomicNext
  <1> DEFINE t == change[w].slot
             a == pending[t].entry
             p == [op |-> "checkpoint_append", entry |-> a]
             j == Journal(files)
  <1>1. /\ t \in Slot /\ pending[t] # NULL /\ SnapshotAccepts(files) /\ Appendable(t)
        /\ files' = [files EXCEPT ![JournalFile] = Appended(j, a)]
    BY DEF PromoteOK, Rechecked, RenamePromotion
  <1>2. a \in Authors /\ a.checkpoint_id = t[2] /\ a \in Author
    BY <1>1, PendingAssumption DEF TypeOK, Candidate
  <1>3. p \in Requests(files)
    BY <1>2, PendingAssumption DEF Requests
  <1>4. Journal(Snapshot(files)) = j /\ Works(Snapshot(files)) = Works(files)
    BY DEF Journal, Snapshot, SnapshotFiles, Works, WorkFiles
  <1>5. j \in Seq(Checkpoint)
    BY JournalTyped DEF TypeOK
  <1>6. ValidJournal(Appended(j, a))
    <2>1. ValidJournal(j) /\ Len(j) < MaxCheckpoints /\ a.checkpoint_id \notin Ids(j)
      BY <1>1, <1>2 DEF SnapshotAccepts, Appendable
    <2>2. a.resolves = NULL \/ a.resolves \in Ids(j)
      BY <1>1 DEF Appendable, CitesKnown
    <2> HIDE DEF a, j
    <2> QED
      BY <1>2, <1>5, <2>1, <2>2, AppendValid
  <1>7. a.work_id \in Works(files)
    BY <1>1 DEF Appendable, CitesKnown
  <1>8. Accepted(p, Snapshot(files), files)
    BY <1>4, <1>6, <1>7 DEF Accepted, Citable, Fits, Creates, Updates
  <1>9. Target(p) = JournalFile /\ After(p, Snapshot(files), files) = Appended(j, a)
    BY <1>4 DEF Target, After
  <1>10. Execute(p)
    BY <1>1, <1>8, <1>9 DEF Execute
  <1> QED
    BY <1>3, <1>10 DEF AtomicNext

\* What a candidate cites stays known.
LEMMA CitationsStay ==
  ASSUME TypedFiles(files), [AtomicNext]_files
  PROVE  /\ TypedFiles(files)'
         /\ \A a : CitesKnown(a, files) => CitesKnown(a, files')
  <1>1. CASE UNCHANGED files
    BY <1>1
  <1>2. ASSUME NEW p \in Requests(files), Execute(p)
        PROVE  TypedFiles(files)' /\ Works(files) \subseteq Works(files')
    BY <1>2, RequestsAreRequests, ExecuteTyped, ExecuteKeeps
  <1>3. Ids(Journal(files)) \subseteq Ids(Journal(files'))
    <2>1. /\ Journal(files) \in Seq(Checkpoint) /\ Journal(files') \in Seq(Checkpoint)
          /\ Len(Journal(files)) <= Len(Journal(files'))
          /\ SubSeq(Journal(files'), 1, Len(Journal(files))) = Journal(files)
      BY <1>1, <1>2, JournalTyped, AtomicStepAppends DEF AtomicNext
    <2>2. \A i \in 1 .. Len(Journal(files)) :
             i \in 1 .. Len(Journal(files')) /\ Journal(files')[i] = Journal(files)[i]
      BY <2>1
    <2> QED
      BY <2>2 DEF Ids
  <1> QED
    BY <1>1, <1>2, <1>3 DEF CitesKnown, AtomicNext

-----------------------------------------------------------------------------
(* Each step keeps the invariant.  First the locks and the control state. *)

\* The steps of a process that write nothing but its own state and the locks.
QuietStep(w) ==
    \/ StartRecord(w) \/ LockRecord(w) \/ RecheckRecord(w) \/ FinalCheckRecord(w) \/ RefuseRecord(w)
    \/ StartPromote(w) \/ LockMemory(w) \/ RecheckPromotion(w) \/ StagePromotion(w)
    \/ FinalCheckPromotion(w) \/ RefusePromotion(w) \/ ClosePromotion(w)
    \/ RefuseLocked(w) \/ IOFailure(w) \/ Crash(w)

\* The steps that write the pending tree.
TreeStep(w) == MakeTree(w) \/ StageRecord(w) \/ RenameRecord(w) \/ CloseRecord(w)

\* Every step is one of these, the rename of a promotion, a writer's or a merge.
LEMMA Steps ==
  ASSUME Next
  PROVE  \/ \E w \in Process : QuietStep(w) \/ TreeStep(w) \/ RenamePromotion(w)
         \/ CanonicalWrite \/ Merge
  BY DEF Next, Record, Promote, QuietStep, TreeStep

\* The part of the type that every step of a process may change.
Control ==
    /\ pc \in [Process -> PC] /\ DOMAIN change = Process /\ Kinds
    /\ recordLock \in BOOLEAN /\ memoryLock \in BOOLEAN
    /\ crashes \in 0..MaxCrashes /\ merges \in 0..MaxMerges

\* A step of w keeps the control state typed and the locks with their holders,
\* and leaves the other processes alone.
LEMMA ControlStep ==
  ASSUME Control, Locks, NEW w \in Process, QuietStep(w) \/ TreeStep(w) \/ RenamePromotion(w)
  PROVE  /\ Control' /\ Locks'
         /\ \A v \in Process : v # w => pc'[v] = pc[v] /\ change'[v] = change[v]
  <1> USE DEF Control, Kinds, Goto, PC
  <1>0. MaxCrashes \in Nat /\ MaxMerges \in Nat
    BY PendingAssumption
  <1>1. /\ \A v \in Process : v # w => pc'[v] = pc[v] /\ change'[v] = change[v]
        /\ pc'[w] \in PC /\ (pc'[w] # "idle" => change'[w].kind \in {"record", "promote"})
        /\ pc' \in [Process -> PC] /\ DOMAIN change' = Process
    <2>1. CASE StartRecord(w) \/ StartPromote(w)
      <3>1. PICK x : change' = [change EXCEPT ![w] = x] /\ x.kind \in {"record", "promote"}
        <4>1. CASE StartRecord(w)
          BY <4>1 DEF StartRecord, BuildRecord
        <4>2. CASE StartPromote(w)
          BY <4>2 DEF StartPromote, BuildPromotion
        <4> QED
          BY <2>1, <4>1, <4>2
      <3>2. pc' = [pc EXCEPT ![w] = "confirmed"]
        BY <2>1 DEF StartRecord, StartPromote
      <3> QED
        BY <3>1, <3>2
    <2>2. CASE LockRecord(w) \/ RecheckRecord(w) \/ FinalCheckRecord(w) \/ RefuseRecord(w) \/ TreeStep(w)
      BY <2>2 DEF Recording, LockRecord, RecheckRecord, FinalCheckRecord, RefuseRecord, TreeStep, MakeTree,
                  StageRecord, RenameRecord, CloseRecord
    <2>3. CASE \/ LockMemory(w) \/ RecheckPromotion(w) \/ StagePromotion(w) \/ FinalCheckPromotion(w)
               \/ RefusePromotion(w) \/ ClosePromotion(w) \/ RenamePromotion(w)
      BY <2>3 DEF Promoting, LockMemory, RecheckPromotion, StagePromotion, FinalCheckPromotion,
                  RefusePromotion, ClosePromotion, RenamePromotion
    <2>4. CASE RefuseLocked(w) \/ IOFailure(w) \/ Crash(w)
      BY <2>4 DEF RefuseLocked, IOFailure, Crash
    <2> QED
      BY <2>1, <2>2, <2>3, <2>4 DEF QuietStep
  <1>2. Kinds'
    BY <1>1
  <1>3. /\ recordLock' \in BOOLEAN /\ memoryLock' \in BOOLEAN
        /\ crashes' \in 0..MaxCrashes /\ merges' \in 0..MaxMerges
    <2>0. CASE Crash(w)
      BY <1>0, <2>0 DEF Crash, pendingVars
    <2>1. CASE QuietStep(w) /\ ~Crash(w)
      BY <2>1 DEF QuietStep, StartRecord, StartPromote, LockRecord, RecheckRecord, FinalCheckRecord,
                  RefuseRecord, LockMemory, RecheckPromotion, StagePromotion, FinalCheckPromotion,
                  RefusePromotion, ClosePromotion, RefuseLocked, IOFailure, pendingVars
    <2>2. CASE TreeStep(w) \/ RenamePromotion(w)
      BY <2>2 DEF TreeStep, MakeTree, StageRecord, RenameRecord, CloseRecord, RenamePromotion, pendingVars
    <2> QED
      BY <2>0, <2>1, <2>2
  <1>4. Locks'
    <2> USE DEF Locks, HoldsRecord, HoldsMemory, Recording, Promoting
    <2>1. CASE StartRecord(w) \/ StartPromote(w)
      BY <1>1, <2>1 DEF StartRecord, StartPromote, pendingVars
    <2>2. CASE LockRecord(w)
      BY <1>1, <2>2 DEF LockRecord
    <2>3. CASE RecheckRecord(w) \/ FinalCheckRecord(w) \/ RefuseRecord(w)
      BY <1>1, <2>3 DEF RecheckRecord, FinalCheckRecord, RefuseRecord, pendingVars
    <2>4. CASE MakeTree(w) \/ StageRecord(w) \/ RenameRecord(w)
      BY <1>1, <2>4 DEF MakeTree, StageRecord, RenameRecord
    <2>5. CASE CloseRecord(w)
      BY <1>1, <2>5 DEF CloseRecord
    <2>6. CASE LockMemory(w)
      BY <1>1, <2>6 DEF LockMemory, pendingVars
    <2>7. CASE RecheckPromotion(w) \/ StagePromotion(w) \/ FinalCheckPromotion(w) \/ RefusePromotion(w)
               \/ RenamePromotion(w)
      BY <1>1, <2>7 DEF RecheckPromotion, StagePromotion, FinalCheckPromotion, RefusePromotion,
                        RenamePromotion, pendingVars
    <2>8. CASE ClosePromotion(w)
      BY <1>1, <2>8 DEF ClosePromotion, pendingVars
    <2>9. CASE RefuseLocked(w) \/ IOFailure(w) \/ Crash(w)
      BY <1>1, <2>9 DEF RefuseLocked, IOFailure, Crash, pendingVars
    <2> QED
      BY <2>1, <2>2, <2>3, <2>4, <2>5, <2>6, <2>7, <2>8, <2>9 DEF QuietStep, TreeStep
  <1> QED
    BY <1>1, <1>2, <1>3, <1>4

-----------------------------------------------------------------------------
(* Then what each process knows, group of steps by group of steps. *)

\* Nothing that a process has checked changes.
Still == UNCHANGED <<files, pending, dirs, debris, merges>>

\* A quiet step writes no file, and removes no record lock.
LEMMA QuietStepStill ==
  ASSUME NEW w, QuietStep(w) PROVE Still /\ (recordLock => recordLock')
  BY DEF QuietStep, Still, StartRecord, StartPromote, LockRecord, RecheckRecord, FinalCheckRecord,
         RefuseRecord, LockMemory, RecheckPromotion, StagePromotion, FinalCheckPromotion,
         RefusePromotion, ClosePromotion, RefuseLocked, IOFailure, Crash, pendingVars

\* What depends on the files and the tree only stays.
LEMMA StillKeeps ==
  ASSUME Still
  PROVE  /\ Recorded' = Recorded
         /\ \A t : RoomFor(t) => RoomFor(t)'
         /\ \A t : Appendable(t) => Appendable(t)'
         /\ SnapshotAccepts(files) => SnapshotAccepts(files)'
  BY DEF Still, Recorded, RoomFor, Appendable

\* A quiet step keeps what a recorder knows: the recheck under the lock is what
\* establishes it.
LEMMA QuietRecord ==
  ASSUME PInv, Control, NEW w \in Process, QuietStep(w), NEW v \in Process
  PROVE  RecordOK(v)'
  <1> USE DEF PInv, Control, Goto
  <1>0. Still /\ \A t : RoomFor(t) => RoomFor(t)'
    BY QuietStepStill, StillKeeps
  <1>1. CASE v # w
    <2>1. pc'[v] = pc[v] /\ change'[v] = change[v]
      BY <1>1, ControlStep
    <2> QED
      BY <1>0, <2>1 DEF Still, RecordOK, Recording
  <1>2. CASE v = w /\ StartRecord(w)
    <2>1. PICK s \in DeclaredSource, a \in Authors :
            /\ CitesKnown(a, files)
            /\ change' = [change EXCEPT ![w] = BuildRecord(<<s, a.checkpoint_id>>, a)]
      BY <1>2 DEF StartRecord
    <2>2. Journal(files) \in Seq(Checkpoint) /\ a \in Author
      BY JournalTyped, PendingAssumption DEF PendingTreeListable, TypeOK
    <2>3. CandidateOf(a, Journal(files)) \in Candidate /\ CandidateOf(a, Journal(files)).entry = a
      BY <2>2, CandidateTyped
    <2>4. <<s, a.checkpoint_id>> \in Slot
      BY <2>2 DEF Slot, Author
    <2>5. pc'[w] = "confirmed" /\ UNCHANGED files
      BY <1>2 DEF StartRecord
    <2>6. change'[w].slot = <<s, a.checkpoint_id>> /\ change'[w].after = CandidateOf(a, Journal(files))
      BY <2>1 DEF BuildRecord
    <2> QED
      BY <1>2, <2>1, <2>3, <2>4, <2>5, <2>6 DEF RecordOK
  <1>3. CASE v = w /\ (LockRecord(w) \/ RecheckRecord(w))
    BY <1>0, <1>3 DEF LockRecord, RecheckRecord, RecordStillFits, HasRoom, RoomFor, Recording, RecordOK, Still,
                      PendingTreeListable, DebrisGuarded
  <1>4. CASE v = w /\ (FinalCheckRecord(w) \/ RefuseRecord(w) \/ IOFailure(w))
    BY <1>0, <1>4 DEF FinalCheckRecord, RefuseRecord, IOFailure, Recording, RecordOK, Still
  <1>5. CASE v = w /\ StartPromote(w)
    BY <1>5 DEF StartPromote, BuildPromotion, RecordOK, Recording
  <1>6. CASE v = w /\ \/ LockMemory(w) \/ RecheckPromotion(w) \/ StagePromotion(w)
                      \/ FinalCheckPromotion(w) \/ RefusePromotion(w)
    BY <1>6 DEF LockMemory, RecheckPromotion, StagePromotion, FinalCheckPromotion, RefusePromotion,
                RecordOK, Recording, Promoting
  <1>7. CASE v = w /\ (ClosePromotion(w) \/ RefuseLocked(w) \/ Crash(w))
    BY <1>7 DEF ClosePromotion, RefuseLocked, Crash, RecordOK, Recording
  <1> QED
    BY <1>1, <1>2, <1>3, <1>4, <1>5, <1>6, <1>7 DEF QuietStep

\* A quiet step keeps what a promotion knows.
LEMMA QuietPromote ==
  ASSUME PInv, Control, NEW w \in Process, QuietStep(w), NEW v \in Process
  PROVE  PromoteOK(v)'
  <1> USE DEF PInv, Control, Goto
  <1>0. /\ Still /\ (\A t : Appendable(t) => Appendable(t)')
        /\ (SnapshotAccepts(files) => SnapshotAccepts(files)')
    BY QuietStepStill, StillKeeps
  <1>1. CASE v # w
    <2>1. pc'[v] = pc[v] /\ change'[v] = change[v]
      BY <1>1, ControlStep
    <2> QED
      BY <1>0, <2>1 DEF Still, PromoteOK, Rechecked, Promoting
  <1>2. CASE v = w /\ RecheckPromotion(w)
    <2> DEFINE t == change[w].slot
    <2>1. PromotionAccepts(t) /\ BuildPromotion(t) = change[w] /\ UNCHANGED change
      BY <1>2 DEF RecheckPromotion, PromotionStillCurrent
    <2>2. pc'[w] = "rechecked" => change[w].already = FALSE
      BY <1>2, <2>1 DEF RecheckPromotion, BuildPromotion, AlreadyPromoted
    <2>3. t \in Slot /\ pending[t] # NULL /\ SnapshotAccepts(files)
      BY <2>1 DEF PromotionAccepts, Recorded
    <2>4. change[w].already = AlreadyPromoted(t)
      BY <2>1 DEF BuildPromotion
    <2>5. ~AlreadyPromoted(t) => Appendable(t) /\ change[w].after = Appended(Journal(files), pending[t].entry)
      BY <2>1 DEF PromotionAccepts, BuildPromotion
    <2>6. pc'[w] \in {"closing", "rechecked"}
      BY <1>2 DEF RecheckPromotion
    <2> QED
      BY <1>0, <1>2, <2>1, <2>2, <2>3, <2>4, <2>5, <2>6 DEF PromoteOK, Rechecked, Still
  <1>3. CASE v = w /\ (StagePromotion(w) \/ FinalCheckPromotion(w))
    BY <1>0, <1>3 DEF StagePromotion, FinalCheckPromotion, PromoteOK, Rechecked, Promoting, Still
  <1>4. CASE v = w /\ \/ StartRecord(w) \/ StartPromote(w) \/ LockMemory(w) \/ RefusePromotion(w)
                      \/ ClosePromotion(w) \/ RefuseLocked(w) \/ IOFailure(w) \/ Crash(w)
                      \/ RefuseRecord(w) \/ LockRecord(w)
    <2>1. pc'[w] \notin {"rechecked", "staged", "ready"}
      BY <1>4 DEF StartRecord, StartPromote, LockMemory, RefusePromotion, ClosePromotion, RefuseLocked,
                  IOFailure, Crash, RefuseRecord, LockRecord
    <2> QED
      BY <1>4, <2>1 DEF PromoteOK, Rechecked
  <1>5. CASE v = w /\ (RecheckRecord(w) \/ FinalCheckRecord(w))
    BY <1>5 DEF RecheckRecord, FinalCheckRecord, PromoteOK, Rechecked, Recording, Promoting
  <1> QED
    BY <1>1, <1>2, <1>3, <1>4, <1>5 DEF QuietStep

\* A quiet step keeps records and promotions apart: the list that a promotion
\* requires under its lock fails while a temporary file is there.
LEMMA QuietApart ==
  ASSUME PInv, Control, NEW u \in Process, QuietStep(u)
  PROVE  Apart'
  <1> USE DEF PInv, Control, Goto
  <1> SUFFICES ASSUME NEW v \in Process, NEW w \in Process,
                      Rechecked(w)', Recording(v)', pc'[v] \in {"staged", "ready"},
                      change'[v].slot = change'[w].slot
               PROVE  FALSE
    BY DEF Apart
  <1>0. v # w /\ pc'[w] \in {"rechecked", "staged", "ready"}
    BY DEF Rechecked, Recording, Promoting
  <1>1. Recording(v) /\ pc[v] \in {"staged", "ready"} /\ change'[v] = change[v]
    <2>1. CASE v # u
      BY <2>1, ControlStep DEF Recording
    <2>2. CASE v = u /\ (FinalCheckRecord(u) \/ RefuseRecord(u) \/ IOFailure(u))
      BY <2>2 DEF FinalCheckRecord, RefuseRecord, IOFailure, Recording
    <2>3. CASE v = u /\ (StagePromotion(u) \/ FinalCheckPromotion(u))
      BY <2>3 DEF StagePromotion, FinalCheckPromotion, Recording, Promoting
    <2>4. CASE v = u /\ \/ StartRecord(u) \/ StartPromote(u) \/ LockMemory(u) \/ RefusePromotion(u)
                        \/ ClosePromotion(u) \/ RefuseLocked(u) \/ Crash(u) \/ LockRecord(u)
                        \/ RecheckRecord(u) \/ RecheckPromotion(u)
      <3>1. pc'[u] \notin {"staged", "ready"}
        BY <2>4 DEF StartRecord, StartPromote, LockMemory, RefusePromotion, ClosePromotion, RefuseLocked,
                    Crash, LockRecord, RecheckRecord, RecheckPromotion
      <3> QED
        BY <2>4, <3>1
    <2> QED
      BY <2>1, <2>2, <2>3, <2>4 DEF QuietStep
  <1>2. CASE w # u
    <2>1. Rechecked(w) /\ change'[w] = change[w]
      BY <1>2, ControlStep DEF Rechecked, Promoting
    <2> QED
      BY <1>1, <2>1 DEF Apart
  <1>3. CASE w = u /\ RecheckPromotion(u)
    <2>1. debris = {}
      BY <1>3 DEF RecheckPromotion, PromotionStillCurrent, PromotionAccepts, ListAccepts
    <2> QED
      BY <1>1, <2>1 DEF RecordOK
  <1>4. CASE w = u /\ (StagePromotion(u) \/ FinalCheckPromotion(u))
    <2>1. Rechecked(w) /\ change'[w] = change[w]
      BY <1>4 DEF Rechecked, StagePromotion, FinalCheckPromotion
    <2> QED
      BY <1>1, <2>1 DEF Apart
  <1>5. CASE w = u /\ ~(RecheckPromotion(u) \/ StagePromotion(u) \/ FinalCheckPromotion(u))
    <2>1. Promoting(u)' /\ pc'[u] \in {"rechecked", "staged", "ready"}
      BY <1>5 DEF Rechecked
    <2>2. ~(RecheckRecord(u) \/ FinalCheckRecord(u))
      BY <2>1 DEF RecheckRecord, FinalCheckRecord, Promoting, Recording
    <2>3. ~(StartRecord(u) \/ LockRecord(u) \/ RefuseRecord(u) \/ StartPromote(u) \/ LockMemory(u)
            \/ RefusePromotion(u) \/ ClosePromotion(u) \/ RefuseLocked(u) \/ IOFailure(u) \/ Crash(u))
      BY <2>1 DEF StartRecord, StartPromote, LockMemory, RefusePromotion, ClosePromotion, RefuseLocked,
                  IOFailure, Crash, RefuseRecord, LockRecord
    <2> QED
      BY <1>5, <2>2, <2>3 DEF QuietStep
  <1> QED
    BY <1>2, <1>3, <1>4, <1>5

\* The holder of the record lock is alone in it.
LEMMA TreeStepHolder ==
  ASSUME PInv, Control, NEW w \in Process, TreeStep(w)
  PROVE  /\ HoldsRecord(w) /\ recordLock /\ UNCHANGED <<files, merges>>
         /\ \A v \in Process : v # w => ~HoldsRecord(v) /\ pc'[v] = pc[v] /\ change'[v] = change[v]
  <1>1. HoldsRecord(w) /\ UNCHANGED <<files, merges>>
    BY DEF TreeStep, MakeTree, StageRecord, RenameRecord, CloseRecord, HoldsRecord
  <1> QED
    BY <1>1, ControlStep DEF PInv, Locks

\* A write to the tree keeps what every recorder knows.
LEMMA TreeRecord ==
  ASSUME PInv, Control, NEW w \in Process, TreeStep(w), NEW v \in Process
  PROVE  RecordOK(v)'
  <1> USE DEF PInv, Control, Goto
  <1>0. UNCHANGED <<files, merges>>
    BY TreeStepHolder
  <1>1. CASE v # w
    <2>1. ~HoldsRecord(v) /\ pc'[v] = pc[v] /\ change'[v] = change[v]
      BY <1>1, TreeStepHolder
    <2> QED
      BY <1>0, <2>1 DEF HoldsRecord, RecordOK, Recording
  <1>2. CASE v = w /\ MakeTree(w)
    <2>1. Recorded' = Recorded /\ dirs' = dirs \cup {change[w].slot[1]} /\ UNCHANGED <<debris, change>>
      BY <1>2 DEF MakeTree, Recorded
    <2>2. RoomFor(change[w].slot) /\ RoomFor(change[w].slot)'
      BY <1>0, <1>2, <2>1 DEF MakeTree, RecordOK, RoomFor
    <2> QED
      BY <1>0, <1>2, <2>1, <2>2 DEF MakeTree, RecordOK, Recording
  <1>3. CASE v = w /\ StageRecord(w)
    <2>1. Recorded' = Recorded /\ UNCHANGED <<dirs, change>> /\ debris' = debris \cup {change[w].slot[1]}
      BY <1>3 DEF StageRecord, Recorded
    <2>2. RoomFor(change[w].slot) /\ RoomFor(change[w].slot)'
      BY <1>0, <1>3, <2>1 DEF StageRecord, RecordOK, RoomFor
    <2> QED
      BY <1>0, <1>3, <2>1, <2>2 DEF StageRecord, RecordOK, Recording
  <1>4. CASE v = w /\ RenameRecord(w)
    BY <1>0, <1>4 DEF RenameRecord, RecordOK, Recording
  <1>5. CASE v = w /\ CloseRecord(w)
    BY <1>5 DEF CloseRecord, RecordOK, Recording
  <1> QED
    BY <1>1, <1>2, <1>3, <1>4, <1>5 DEF TreeStep

\* A write to the tree never replaces the candidate of a promotion under way.
LEMMA TreePromote ==
  ASSUME PInv, Control, NEW w \in Process, TreeStep(w), NEW v \in Process
  PROVE  PromoteOK(v)'
  <1> USE DEF PInv, Control, Goto
  <1> SUFFICES ASSUME Rechecked(v)' PROVE PromoteOK(v)'
    BY DEF PromoteOK
  <1>1. v # w
    BY DEF TreeStep, MakeTree, StageRecord, RenameRecord, CloseRecord, Rechecked, Recording, Promoting
  <1>2. pc'[v] = pc[v] /\ change'[v] = change[v] /\ UNCHANGED files
    BY <1>1, TreeStepHolder
  <1>3. Rechecked(v)
    BY <1>2 DEF Rechecked, Promoting
  <1>4. pending'[change[v].slot] = pending[change[v].slot]
    <2>1. CASE RenameRecord(w)
      <3>1. change[w].slot # change[v].slot
        BY <1>3, <2>1 DEF Apart, RenameRecord
      <3> QED
        BY <2>1, <3>1, <1>3 DEF RenameRecord, PromoteOK, PendingTreeListable, TypeOK
    <2> QED
      BY <2>1 DEF TreeStep, MakeTree, StageRecord, CloseRecord
  <1> QED
    BY <1>2, <1>3, <1>4 DEF PromoteOK, Appendable

\* A record is staged only in a slot that is free, a promotion's is not.
LEMMA TreeApart ==
  ASSUME PInv, Control, NEW u \in Process, TreeStep(u)
  PROVE  Apart'
  <1> USE DEF PInv, Control, Goto
  <1> SUFFICES ASSUME NEW v \in Process, NEW w \in Process,
                      Rechecked(w)', Recording(v)', pc'[v] \in {"staged", "ready"},
                      change'[v].slot = change'[w].slot
               PROVE  FALSE
    BY DEF Apart
  <1>1. w # u
    BY DEF TreeStep, MakeTree, StageRecord, RenameRecord, CloseRecord, Rechecked, Recording, Promoting
  <1>2. Rechecked(w) /\ change'[w] = change[w]
    BY <1>1, TreeStepHolder DEF Rechecked, Promoting
  <1>3. CASE v # u
    <2>1. Recording(v) /\ pc[v] \in {"staged", "ready"} /\ change'[v] = change[v]
      BY <1>3, TreeStepHolder DEF Recording
    <2> QED
      BY <1>2, <2>1 DEF Apart
  <1>4. CASE v = u
    <2>1. StageRecord(u)
      BY <1>4 DEF TreeStep, MakeTree, RenameRecord, CloseRecord
    <2> QED
      BY <1>2, <1>4, <2>1 DEF StageRecord, PromoteOK
  <1> QED
    BY <1>3, <1>4

\* A write to the tree keeps it one that the list accepts.
LEMMA TreeListable ==
  ASSUME PInv, Control, NEW w \in Process, TreeStep(w)
  PROVE  PendingTreeListable'
  <1> USE DEF PInv, Goto
  <1> DEFINE t == change[w].slot
  <1>0. HoldsRecord(w) /\ recordLock /\ UNCHANGED <<files, merges>> /\ Control'
    BY TreeStepHolder, ControlStep
  <1>1. t \in Slot /\ t[1] \in DeclaredSource
    BY <1>0 DEF RecordOK, HoldsRecord, Slot
  <1>2. CASE MakeTree(w)
    <2>1. UNCHANGED <<pending, debris, recordLock>> /\ dirs' = dirs \cup {t[1]} /\ Recorded' = Recorded
      BY <1>2 DEF MakeTree, Recorded
    <2>2. RoomFor(t)
      BY <1>2 DEF MakeTree, RecordOK
    <2>3. TypeOK'
      BY <1>0, <1>1, <2>1 DEF PendingTreeListable, TypeOK, Control
    <2>4. WithinPendingLimits'
      BY <1>0, <2>1, <2>2 DEF PendingTreeListable, WithinPendingLimits, RoomFor
    <2> QED
      BY <1>0, <2>1, <2>3, <2>4 DEF PendingTreeListable, DebrisGuarded, CandidatesListable
  <1>3. CASE StageRecord(w)
    <2>1. /\ UNCHANGED <<pending, dirs, recordLock>> /\ debris' = debris \cup {t[1]} /\ Recorded' = Recorded
          /\ t[1] \in dirs
      BY <1>3 DEF StageRecord, Recorded, RecordOK
    <2>3. TypeOK'
      BY <1>0, <1>1, <2>1 DEF PendingTreeListable, TypeOK, Control
    <2> QED
      BY <1>0, <2>1, <2>3 DEF PendingTreeListable, DebrisGuarded, CandidatesListable, WithinPendingLimits
  <1>4. CASE RenameRecord(w)
    <2> DEFINE c == change[w].after
    <2>1. /\ UNCHANGED <<dirs, recordLock>> /\ debris' = debris \ {t[1]}
          /\ pending' = [pending EXCEPT ![t] = c]
          /\ pc[w] = "ready" /\ Recording(w)
      BY <1>4 DEF RenameRecord
    <2>2. c \in Candidate /\ c.entry.checkpoint_id = t[2] /\ CitesKnown(c.entry, files) /\ RoomFor(t)
      BY <2>1 DEF RecordOK
    <2>3. DOMAIN pending = Slot
      BY DEF PendingTreeListable, TypeOK
    <2>4. pending'[t] = c /\ \A u \in Slot : u # t => pending'[u] = pending[u]
      BY <1>1, <2>1, <2>3
    <2> HIDE DEF t, c
    <2>5. TypeOK'
      BY <1>0, <1>1, <2>1, <2>2, <2>3, <2>4 DEF PendingTreeListable, TypeOK, Control
    <2>6. merges = 0 => Recorded' = Recorded \/ Recorded' = Recorded \cup {t}
      <3>1. merges = 0 => pending[t] = NULL
        BY <2>1 DEF RecordOK, t
      <3> QED
        BY <1>1, <2>4, <3>1 DEF Recorded
    <2>7. WithinPendingLimits'
      BY <1>0, <2>1, <2>2, <2>6 DEF PendingTreeListable, WithinPendingLimits, RoomFor
    <2>8. CandidatesListable'
      BY <1>0, <2>2, <2>4, <1>1 DEF PendingTreeListable, CandidatesListable, Recorded
    <2> QED
      BY <1>0, <2>1, <2>5, <2>7, <2>8 DEF PendingTreeListable, DebrisGuarded
  <1>5. CASE CloseRecord(w)
    <2>1. UNCHANGED <<pending, dirs>> /\ debris' = debris \ {t[1]} /\ Recorded' = Recorded
      BY <1>5 DEF CloseRecord, Recorded
    <2>2. debris' = {}
      BY <1>0, <2>1 DEF RecordOK, HoldsRecord
    <2>3. TypeOK'
      BY <1>0, <1>1, <2>1, <2>2 DEF PendingTreeListable, TypeOK, Control
    <2> QED
      BY <1>0, <2>1, <2>2, <2>3 DEF PendingTreeListable, DebrisGuarded, CandidatesListable, WithinPendingLimits
  <1> QED
    BY <1>2, <1>3, <1>4, <1>5 DEF TreeStep

-----------------------------------------------------------------------------
(* The steps that write the journal, and those of other worktrees. *)

\* The rename of a promotion.
LEMMA PromotionKeeps ==
  ASSUME PInv, Control, NEW w \in Process, RenamePromotion(w)
  PROVE  PInv'
  <1> USE DEF PInv, Control, Goto
  <1>1. AtomicNext /\ UNCHANGED <<pending, dirs, debris, recordLock, memoryLock, change, crashes, merges>>
    BY PromotionExecutes DEF RenamePromotion, pendingVars, PendingTreeListable
  <1>2. TypedFiles(files)' /\ \A a : CitesKnown(a, files) => CitesKnown(a, files')
    BY <1>1, CitationsStay DEF PendingTreeListable, TypeOK
  <1>3. Control' /\ Locks' /\ pc'[w] = "closing" /\ \A v \in Process : v # w => pc'[v] = pc[v]
    BY ControlStep DEF RenamePromotion
  <1>4. Recorded' = Recorded
    BY <1>1 DEF Recorded
  <1>5. PendingTreeListable'
    BY <1>1, <1>2, <1>3, <1>4 DEF PendingTreeListable, TypeOK, WithinPendingLimits, DebrisGuarded,
                                  CandidatesListable
  <1>6. Promoting(w)
    BY DEF RenamePromotion
  <1>7. ASSUME NEW v \in Process PROVE RecordOK(v)'
    <2>1. Recording(v)' => v # w
      BY <1>1, <1>6 DEF Recording, Promoting
    <2>2. RoomFor(change[v].slot) => RoomFor(change[v].slot)'
      BY <1>1, <1>4 DEF RoomFor
    <2> QED
      BY <1>1, <1>2, <1>3, <2>1, <2>2 DEF RecordOK, Recording
  <1>8. ASSUME NEW v \in Process PROVE ~Rechecked(v)'
    <2>1. HoldsMemory(w) /\ (Rechecked(v) => HoldsMemory(v))
      BY DEF HoldsMemory, Rechecked, RenamePromotion
    <2> QED
      BY <1>1, <1>3, <2>1 DEF Rechecked, Locks, Promoting
  <1> QED
    BY <1>3, <1>5, <1>7, <1>8 DEF PromoteOK, Apart

\* A memory writer's commit: none while a promotion holds the memory lock, and
\* what candidates cite stays.
LEMMA WriterKeeps ==
  ASSUME PInv, Control, CanonicalWrite
  PROVE  PInv'
  <1> USE DEF PInv, Control
  <1>1. AtomicNext /\ ~memoryLock
        /\ UNCHANGED <<pending, dirs, debris, recordLock, memoryLock, pc, change, crashes, merges>>
    BY DEF CanonicalWrite, pendingVars, processVars
  <1>2. TypedFiles(files)' /\ \A a : CitesKnown(a, files) => CitesKnown(a, files')
    BY <1>1, CitationsStay DEF PendingTreeListable, TypeOK
  <1>3. Control' /\ Locks'
    BY <1>1 DEF Kinds, Locks, HoldsRecord, HoldsMemory, Recording, Promoting
  <1>4. Recorded' = Recorded
    BY <1>1 DEF Recorded
  <1>5. PendingTreeListable'
    BY <1>1, <1>2, <1>3, <1>4 DEF PendingTreeListable, TypeOK, WithinPendingLimits, DebrisGuarded,
                                  CandidatesListable
  <1>7. ASSUME NEW v \in Process PROVE RecordOK(v)'
    <2>1. RoomFor(change[v].slot) => RoomFor(change[v].slot)'
      BY <1>1, <1>4 DEF RoomFor
    <2> QED
      BY <1>1, <1>2, <2>1 DEF RecordOK, Recording
  <1>8. ASSUME NEW v \in Process PROVE ~Rechecked(v)'
    <2>1. Rechecked(v) => HoldsMemory(v)
      BY DEF HoldsMemory, Rechecked
    <2> QED
      BY <1>1, <2>1 DEF Rechecked, Locks, Promoting
  <1> QED
    BY <1>1, <1>3, <1>5, <1>7, <1>8 DEF PromoteOK, Apart

\* A merge from another worktree, under no lock.
LEMMA MergeKeeps ==
  ASSUME PInv, Control, Merge
  PROVE  PInv'
  <1> USE DEF PInv, Control
  <1> DEFINE j == Journal(files)
  <1>1. PICK s \in DeclaredSource, a \in Authors, n \in 0..Len(j) :
          /\ <<s, a.checkpoint_id>> \notin Recorded
          /\ CitesKnown(a, files)
          /\ pending' = [pending EXCEPT ![<<s, a.checkpoint_id>>] = CandidateOf(a, SubSeq(j, 1, n))]
          /\ dirs' = dirs \cup {s}
    BY DEF Merge
  <1> DEFINE t == <<s, a.checkpoint_id>>
             c == CandidateOf(a, SubSeq(j, 1, n))
  <1>2. /\ UNCHANGED <<files, debris, recordLock, memoryLock, pc, change, crashes>>
        /\ merges' = merges + 1 /\ merges' \in 0..MaxMerges /\ merges' # 0
    BY PendingAssumption DEF Merge, processVars
  <1>3. j \in Seq(Checkpoint) /\ a \in Author
    BY JournalTyped, PendingAssumption DEF PendingTreeListable, TypeOK
  <1>4. SubSeq(j, 1, n) \in Seq(Checkpoint)
    BY <1>3
  <1>5. c \in Candidate /\ c.entry = a
    BY <1>3, <1>4, CandidateTyped
  <1>6. t \in Slot /\ t[2] = a.checkpoint_id /\ DOMAIN pending = Slot
    BY <1>3 DEF Slot, Author, PendingTreeListable, TypeOK
  <1>7. pending[t] = NULL
    BY <1>1, <1>6 DEF Recorded
  <1>8. pending' = [pending EXCEPT ![t] = c]
    BY <1>1
  <1> HIDE DEF t, c
  <1>9. /\ DOMAIN pending' = Slot /\ pending'[t] = c
        /\ \A u \in Slot : u # t => pending'[u] = pending[u]
    BY <1>6, <1>8
  <1>10. Control' /\ Locks'
    BY <1>2 DEF Kinds, Locks, HoldsRecord, HoldsMemory, Recording, Promoting
  <1>11. TypeOK'
    BY <1>1, <1>2, <1>5, <1>6, <1>9, <1>10 DEF PendingTreeListable, TypeOK
  <1>12. CandidatesListable'
    BY <1>1, <1>2, <1>5, <1>9 DEF PendingTreeListable, CandidatesListable, Recorded
  <1>13. PendingTreeListable'
    BY <1>2, <1>11, <1>12 DEF PendingTreeListable, WithinPendingLimits, DebrisGuarded
  <1>14. ASSUME NEW v \in Process PROVE RecordOK(v)'
    <2>1. RoomFor(change[v].slot)'
      BY <1>2 DEF RoomFor
    <2> QED
      BY <1>1, <1>2, <2>1 DEF RecordOK, Recording
  <1>15. ASSUME NEW v \in Process PROVE PromoteOK(v)'
    <2> SUFFICES ASSUME Rechecked(v) PROVE PromoteOK(v)'
      BY <1>2 DEF PromoteOK, Rechecked, Promoting
    <2>1. pending'[change[v].slot] = pending[change[v].slot]
      BY <1>7, <1>9 DEF PromoteOK
    <2> QED
      BY <1>2, <2>1 DEF PromoteOK, Appendable
  <1>16. Apart'
    BY <1>2 DEF Apart, Rechecked, Recording, Promoting
  <1> QED
    BY <1>10, <1>13, <1>14, <1>15, <1>16

-----------------------------------------------------------------------------
(* The theorems. *)

\* In every reachable state each process that has checked something under its
\* lock can rely on it, whatever the other processes do.
THEOREM Invariance == Spec => []PInv
  <1>1. Init => PInv
    <2> SUFFICES ASSUME Init PROVE PInv
      OBVIOUS
    <2>1. TypeOK
      <3>1. TypedFiles(files)
        BY InitTyped DEF Init, AtomicInit
      <3>2. MaxCrashes \in Nat /\ MaxMerges \in Nat
        BY PendingAssumption
      <3>3. 0 \in 0..MaxCrashes /\ 0 \in 0..MaxMerges
        BY <3>2
      <3> QED
        BY <3>1, <3>3 DEF Init, TypeOK, PC
    <2>2. Recorded = {}
      BY DEF Init, Recorded
    <2>3. PendingTreeListable
      BY <2>1, <2>2, FS_EmptySet, PendingAssumption
         DEF Init, PendingTreeListable, WithinPendingLimits, DebrisGuarded, CandidatesListable
    <2>4. \A w \in Process : pc[w] = "idle"
      BY DEF Init
    <2> QED
      BY <2>3, <2>4 DEF PInv, Locks, HoldsRecord, HoldsMemory, Recording, Promoting, Apart, Rechecked,
                        Kinds, RecordOK, PromoteOK
  <1>2. PInv /\ [Next]_vars => PInv'
    <2> SUFFICES ASSUME PInv, [Next]_vars PROVE PInv'
      OBVIOUS
    <2>1. Control
      BY DEF PInv, Control, PendingTreeListable, TypeOK
    <2>2. ASSUME NEW w \in Process, QuietStep(w) PROVE PInv'
      <3>1. Control' /\ Locks'
        BY <2>1, <2>2, ControlStep DEF PInv
      <3>2. Still /\ Recorded' = Recorded /\ (recordLock => recordLock')
        BY <2>2, QuietStepStill, StillKeeps
      <3>3. PendingTreeListable'
        BY <3>1, <3>2 DEF PInv, Still, Control, PendingTreeListable, TypeOK, WithinPendingLimits, DebrisGuarded,
                          CandidatesListable
      <3>4. Apart' /\ \A v \in Process : RecordOK(v)' /\ PromoteOK(v)'
        BY <2>1, <2>2, QuietRecord, QuietPromote, QuietApart
      <3> QED
        BY <3>1, <3>3, <3>4 DEF PInv, Control
    <2>3. ASSUME NEW w \in Process, TreeStep(w) PROVE PInv'
      <3>1. Control' /\ Locks'
        BY <2>1, <2>3, ControlStep DEF PInv
      <3>2. PendingTreeListable' /\ Apart' /\ \A v \in Process : RecordOK(v)' /\ PromoteOK(v)'
        BY <2>1, <2>3, TreeListable, TreeApart, TreeRecord, TreePromote
      <3> QED
        BY <3>1, <3>2 DEF PInv, Control
    <2>4. CASE UNCHANGED vars
      <3>1. UNCHANGED <<files, memoryLock, crashes, merges, pending, dirs, debris, recordLock, pc, change>>
        BY <2>4 DEF vars, pendingVars, processVars
      <3>2. PendingTreeListable'
        BY <3>1 DEF PInv, PendingTreeListable, TypeOK, WithinPendingLimits, DebrisGuarded,
                    CandidatesListable, Recorded
      <3>3. Locks' /\ Kinds' /\ Apart'
        BY <3>1 DEF PInv, Locks, HoldsRecord, HoldsMemory, Recording, Promoting, Apart, Rechecked, Kinds
      <3>4. \A w \in Process : RecordOK(w)'
        BY <3>1 DEF PInv, RecordOK, Recording, RoomFor, Recorded
      <3>5. \A w \in Process : PromoteOK(w)'
        BY <3>1 DEF PInv, PromoteOK, Rechecked, Promoting, Appendable
      <3> QED
        BY <3>2, <3>3, <3>4, <3>5 DEF PInv
    <2> QED
      BY <2>1, <2>2, <2>3, <2>4, Steps, PromotionKeeps, WriterKeeps, MergeKeeps
  <1> QED
    BY <1>1, <1>2, PTL DEF Spec

\* The pending tree is typed, within the list's limits as long as no merge brings
\* candidates, without an unguarded temporary file, and every candidate's subject
\* is known (listPendingCheckpoints).
THEOREM PendingListable == Spec => []PendingTreeListable
  BY Invariance, PTL DEF PInv

\* A step does nothing to the canonical files, or one operation.
LEMMA StepIsAtomic == PInv /\ [Next]_vars => [AtomicNext]_files
  <1> SUFFICES ASSUME PInv, [Next]_vars PROVE [AtomicNext]_files
    OBVIOUS
  <1>1. CASE UNCHANGED vars
    BY <1>1 DEF vars
  <1>2. ASSUME NEW w \in Process, QuietStep(w) \/ TreeStep(w) PROVE UNCHANGED files
    BY <1>2, QuietStepStill DEF Still, TreeStep, MakeTree, StageRecord, RenameRecord, CloseRecord
  <1>3. ASSUME NEW w \in Process, RenamePromotion(w) PROVE AtomicNext
    BY <1>3, PromotionExecutes DEF PInv, PendingTreeListable
  <1>4. CASE CanonicalWrite
    BY <1>4 DEF CanonicalWrite
  <1>5. CASE Merge
    BY <1>5 DEF Merge
  <1> QED
    BY <1>1, <1>2, <1>3, <1>4, <1>5, Steps

\* Promotions and memory writers together implement the sequential workspace:
\* a promotion is one checkpoint_append, executed at its rename.
THEOREM Refinement == Spec => AtomicSpec
  <1>1. Init => AtomicInit
    BY DEF Init
  <1> QED
    BY <1>1, StepIsAtomic, Invariance, PTL DEF Spec, AtomicSpec

\* So the journal stays a chain that assertMemoryCheckpoints accepts and every
\* citation resolved, promotions included.
THEOREM WorkspaceKept == Spec => [](JournalValid /\ CitationsResolve)
  BY Refinement, AtomicSafety, PTL DEF AtomicInv

\* No record replaces a candidate: publishPendingRecord checks the target before
\* it stages and before it renames, under the record lock.
THEOREM Immutable == Spec => CandidatesImmutable
  <1> DEFINE Same == \A t \in Slot : merges = 0 /\ pending[t] # NULL => pending'[t] = pending[t]
  <1>1. PInv /\ [Next]_vars => [Same]_vars
    <2> SUFFICES ASSUME PInv, Next, NEW t \in Slot, merges = 0, pending[t] # NULL
                 PROVE  pending'[t] = pending[t]
      OBVIOUS
    <2>0. DOMAIN pending = Slot
      BY DEF PInv, PendingTreeListable, TypeOK
    <2>1. ASSUME NEW w \in Process, RenameRecord(w) PROVE pending'[t] = pending[t]
      <3>1. pending[change[w].slot] = NULL
        BY <2>1 DEF PInv, RecordOK, RenameRecord
      <3> QED
        BY <2>0, <2>1, <3>1 DEF RenameRecord
    <2>2. ASSUME NEW w \in Process, QuietStep(w) \/ RenamePromotion(w) \/ (TreeStep(w) /\ ~RenameRecord(w))
          PROVE  pending' = pending
      BY <2>2, QuietStepStill DEF Still, RenamePromotion, pendingVars, TreeStep, MakeTree, StageRecord, CloseRecord
    <2>3. CASE CanonicalWrite
      BY <2>3 DEF CanonicalWrite, pendingVars
    <2>4. CASE Merge
      <3>1. PICK u, c : u \notin Recorded /\ pending' = [pending EXCEPT ![u] = c]
        BY <2>4 DEF Merge
      <3> QED
        BY <2>0, <3>1 DEF Recorded
    <2> QED
      BY <2>1, <2>2, <2>3, <2>4, Steps
  <1> QED
    BY <1>1, Invariance, PTL DEF Spec, CandidatesImmutable

\* A promotion appends its candidate, on the head its author saw: what
\* classifyPromotion found under the memory lock holds until the rename.
THEOREM ContinuesChain == Spec => ContinuesWorkChain
  <1> DEFINE C(w) == pending[change[w].slot]
             Continues(w) ==
                 /\ AuthorOf(Journal(files')[Len(Journal(files'))]) = C(w).entry
                 /\ C(w).base_work = WorkHead(Journal(files), C(w).entry.work_id)
             Kept == \A w \in Process :
                        Promoting(w) /\ pc[w] = "ready" /\ files' # files => Continues(w)
  <1>1. PInv /\ [Next]_vars => [Kept]_vars
    <2> SUFFICES ASSUME PInv, Next, NEW w \in Process, Promoting(w), pc[w] = "ready", files' # files
                 PROVE  Continues(w)
      OBVIOUS
    <2>1. Rechecked(w) /\ HoldsMemory(w) /\ memoryLock
      BY DEF Rechecked, HoldsMemory, PInv, Locks
    <2>2. ASSUME NEW v \in Process, QuietStep(v) \/ TreeStep(v) PROVE FALSE
      BY <2>2, QuietStepStill DEF Still, TreeStep, MakeTree, StageRecord, RenameRecord, CloseRecord
    <2>3. ~CanonicalWrite /\ ~Merge
      BY <2>1 DEF CanonicalWrite, Merge
    <2>4. PICK v \in Process : RenamePromotion(v)
      BY <2>2, <2>3, Steps
    <2>5. v = w
      <3>1. HoldsMemory(v)
        BY <2>4 DEF RenamePromotion, HoldsMemory
      <3> QED
        BY <2>1, <3>1 DEF PInv, Locks
    <2> DEFINE a == C(w).entry
               j == Journal(files)
    <2>6. /\ change[w].slot \in Slot /\ C(w) # NULL /\ Appendable(change[w].slot)
          /\ change[w].after = Appended(j, a)
      BY <2>1 DEF PInv, PromoteOK
    <2>7. a \in Author /\ j \in Seq(Checkpoint)
      BY <2>6, PendingAssumption, JournalTyped DEF PInv, PendingTreeListable, TypeOK, Candidate
    <2>8. Journal(files') = Append(j, Entry(a, j))
      BY <2>4, <2>5, <2>6 DEF RenamePromotion, Journal, Appended, PInv, PendingTreeListable, TypeOK, TypedFiles,
                              File, SnapshotFiles
    <2>9. AuthorOf(Entry(a, j)) = a
      BY <2>7 DEF AuthorOf, Entry, Author
    <2>10. Entry(a, j) \in Checkpoint
      BY <2>7, TypedEntry
    <2>11. Journal(files')[Len(Journal(files'))] = Entry(a, j)
      <3> HIDE DEF a, j
      <3> QED
        BY <2>7, <2>8, <2>10
    <2> QED
      BY <2>6, <2>9, <2>11 DEF Appendable
  <1> QED
    BY <1>1, Invariance, PTL DEF Spec, ContinuesWorkChain
=============================================================================
