------------------------- MODULE WriterAndReaderProofs -------------------------
(***************************************************************************)
(* What holds of the memory writer and of the readers beside it, for every  *)
(* set of writers, every workspace, every set of proposals and every number *)
(* of changes.                                                              *)
(*                                                                          *)
(* The writers (MemoryWriter): IInv is inductive, so a rename is always one *)
(* atomic operation (Refinement); what AtomicWorkspace keeps                *)
(* (AtomicWorkspaceProofs), the writers keep.  Under updates that take no   *)
(* lock (OutsideUpdates) that argument is lost: StillCurrent is no longer   *)
(* stable, and what remains is what the last check of the target answers.   *)
(*                                                                          *)
(* The readers (Inspection): a snapshot and an observation are each of one  *)
(* moment, no false alarm, and the history is entire.                       *)
(***************************************************************************)
EXTENDS Inspection, OutsideUpdates, AtomicWorkspaceProofs, FiniteSetTheorems

-----------------------------------------------------------------------------
(* The writers. *)

\* What a writer that is ready has checked makes its rename one execution of
\* its operation on the files of that instant.
LEMMA RenameExecutes ==
  ASSUME TypeOK, NEW w \in Writer, WriterInv(w), Rename(w)
  PROVE  /\ change[w].proposal \in Requests(files)
         /\ Request(change[w].proposal)
         /\ Execute(change[w].proposal)
  <1> DEFINE c == change[w]
  <1> DEFINE p == change[w].proposal
  <1>1. Planned(c, files) /\ StillCurrent(w) /\ temp[w] = c.after
    BY DEF Rename, WriterInv
  <1>2. Request(p) /\ c.target = Target(p) /\ c.after = After(p, c.snapshot, files)
    BY <1>1 DEF Planned
  <1>3. SnapshotAccepts(files) /\ Snapshot(files) = c.snapshot
    BY <1>1 DEF StillCurrent
  <1>4. Citable(p, Snapshot(files))
    BY <1>1, <1>3 DEF Planned
  <1>5. Fits(p, files)
    <2>1. Creates(p) => files[Target(p)] = NULL
      BY <1>1, <1>2 DEF Planned, StillCurrent
    <2>2. Updates(p) => files[Target(p)] # NULL
      BY <1>1, <1>2 DEF Planned
    <2>3. p.op = "inbox_promote" => files[InboxFile(p.note_id)] # NULL
      BY <1>1 DEF Planned, StillCurrent, Source
    <2> QED
      BY <2>1, <2>2, <2>3 DEF Fits
  <1>6. Execute(p)
    BY <1>1, <1>2, <1>3, <1>4, <1>5 DEF Execute, Accepted, Rename
  <1>7. p \in Requests(files)
    <2>1. CASE p \in Proposals
      BY <2>1 DEF Requests
    <2>2. CASE WritesContext /\ p = ContextProposal(p.source)
      <3>1. p.op = "context_write"
        BY <2>2 DEF ContextProposal
      <3>2. p.source = Snapshot(files)
        BY <3>1, <1>4 DEF Citable
      <3> QED
        BY <2>2, <3>2 DEF Requests
    <2> QED
      BY <1>2, <2>1, <2>2 DEF Request
  <1> QED
    BY <1>2, <1>6, <1>7

\* What a writer builds and has confirmed is a planned change.
LEMMA ConfirmPlans ==
  ASSUME TypeOK, NEW w \in Writer, WriterInv(w), Confirm(w)
  PROVE  Planned(Built(w), files)
  <1> DEFINE p == job[w].proposal
  <1> DEFINE s == job[w].snapshot
  <1>1. /\ Request(p) /\ Citable(p, s) /\ Fits(p, files)
        /\ \A x \in WorkFiles \cup KnowledgeFiles : s[x] # NULL => files[x] # NULL
    BY DEF Confirm, WriterInv, BuildAccepts, Accepted
  <1>2. /\ Built(w).proposal = p /\ Built(w).target = Target(p) /\ Built(w).snapshot = s
        /\ Built(w).before = Before(p, s, files) /\ Built(w).after = After(p, s, files)
        /\ Built(w).source = Source(p, files)
    BY DEF Built, BuildChange
  <1>3. Creates(p) => Before(p, s, files) = NULL
    <2> SUFFICES ASSUME Creates(p) PROVE Before(p, s, files) = NULL
      OBVIOUS
    <2>1. files[Target(p)] = NULL
      BY <1>1 DEF Fits
    <2>2. Target(p) \in WorkFiles \cup KnowledgeFiles \/ Target(p) \notin SnapshotFiles
      BY <1>1, Targets, RequestIsChange, ChangeFields, Distinct
         DEF Creates, SnapshotFiles, WorkFiles, KnowledgeFiles
    <2> QED
      BY <2>1, <2>2, <1>1 DEF Before
  <1>4. p.op = "inbox_promote" => Source(p, files) # NULL
    BY <1>1 DEF Fits, Source
  <1> QED
    BY <1>1, <1>2, <1>3, <1>4 DEF Planned, Fits

\* Another writer's publication does not spoil a planned change.
LEMMA PlannedStable ==
  ASSUME TypedFiles(files), NEW p, Request(p), Execute(p), NEW c, Planned(c, files)
  PROVE  Planned(c, files')
  <1> DEFINE q == c.proposal
  <1>1. /\ Request(q) /\ c.target = Target(q) /\ c.after = After(q, c.snapshot, files)
        /\ (Updates(q) => files[Target(q)] # NULL)
    BY DEF Planned
  <1>2. Updates(q) => Target(q) \in WorkFiles \cup KnowledgeFiles
    BY <1>1, Targets, RequestIsChange, ChangeFields DEF Updates, WorkFiles, KnowledgeFiles
  <1>3. Updates(q) => /\ files'[Target(q)] # NULL
                      /\ \A x : [files'[Target(q)] EXCEPT !.status = x]
                                  = [files[Target(q)] EXCEPT !.status = x]
    BY <1>1, <1>2, RequestIsChange, StatusOnly
  <1>4. After(q, c.snapshot, files') = After(q, c.snapshot, files)
    <2>1. CASE q.op = "work_status"
      <3>1. /\ After(q, c.snapshot, files') = [files'[Target(q)] EXCEPT !.status = q.status]
            /\ After(q, c.snapshot, files) = [files[Target(q)] EXCEPT !.status = q.status]
        BY <2>1 DEF After
      <3> QED
        BY <2>1, <3>1, <1>3 DEF Updates
    <2>2. CASE q.op = "knowledge_retire"
      <3>1. /\ After(q, c.snapshot, files') = [files'[Target(q)] EXCEPT !.status = "retired"]
            /\ After(q, c.snapshot, files) = [files[Target(q)] EXCEPT !.status = "retired"]
        BY <2>2 DEF After
      <3> QED
        BY <2>2, <3>1, <1>3 DEF Updates
    <2>3. CASE q.op \in Ops \ {"work_status", "knowledge_retire"}
      BY <2>3 DEF After, Ops
    <2> QED
      BY <1>1, <2>1, <2>2, <2>3, RequestIsChange, ChangeOp DEF Ops
  <1> QED
    BY <1>1, <1>3, <1>4 DEF Planned

\* A step of writer w that leaves the files alone does not touch the others.
LEMMA OthersUnchanged ==
  ASSUME NEW w, NEW v \in Writer \ {w}, WriterInv(v), UNCHANGED files,
         pc'[v] = pc[v], job'[v] = job[v], shown'[v] = shown[v],
         change'[v] = change[v], temp'[v] = temp[v]
  PROVE  WriterInv(v)'
  BY DEF WriterInv, StillCurrent

\* The steps that neither take the lock nor are made under it.
LEMMA UnlockedSteps ==
  ASSUME TypeOK, IInv, NEW w \in Writer,
         StartPreview(w) \/ StartApply(w) \/ ShowPreview(w) \/ Confirm(w)
           \/ RefuseBuild(w) \/ RefuseLocked(w)
  PROVE  IInv'
  <1> USE DEF TypeOK
  <1>1. UNCHANGED <<files, lockFile>>
    BY DEF StartPreview, StartApply, Capture, ShowPreview, Confirm, RefuseBuild, RefuseLocked
  <1>2. /\ pc[w] \notin Holding /\ pc'[w] \notin Holding
        /\ \A v \in Writer \ {w} : /\ pc'[v] = pc[v] /\ job'[v] = job[v] /\ shown'[v] = shown[v]
                                   /\ change'[v] = change[v] /\ temp'[v] = temp[v]
    BY DEF StartPreview, StartApply, Capture, ShowPreview, Confirm, RefuseBuild,
           RefuseLocked, Holding
  <1>3. LockExclusive'
    BY <1>1, <1>2 DEF IInv, LockExclusive, Holding
  <1>4. \A v \in Writer \ {w} : WriterInv(v)'
    BY <1>1, <1>2, OthersUnchanged DEF IInv
  <1>5. WriterInv(w)
    BY DEF IInv
  <1>6. WriterInv(w)'
    <2>1. CASE \E mode, p : Request(p) /\ Capture(w, mode, p)
      <3>1. PICK mode, p : Request(p) /\ Capture(w, mode, p)
        BY <2>1
      <3>2. /\ pc'[w] = "captured" /\ job'[w].proposal = p /\ job'[w].snapshot = Snapshot(files)
            /\ shown'[w] = shown[w] /\ files' = files
        BY <3>1 DEF Capture
      <3>3. \A x \in WorkFiles \cup KnowledgeFiles : Snapshot(files)[x] = files[x]
        BY DEF Snapshot, SnapshotFiles
      <3> QED
        BY <3>1, <3>2, <3>3, <1>5 DEF WriterInv
    <2>2. CASE ShowPreview(w)
      <3>1. pc'[w] = "idle" /\ shown'[w] = Built(w) /\ Built(w).proposal = job[w].proposal
        BY <2>2 DEF ShowPreview, Built, BuildChange
      <3>2. Request(job[w].proposal)
        BY <2>2, <1>5 DEF ShowPreview, WriterInv
      <3> QED
        BY <3>1, <3>2 DEF WriterInv
    <2>3. CASE Confirm(w)
      <3>1. /\ pc'[w] = "confirmed" /\ change'[w] = Built(w)
            /\ shown'[w] = shown[w] /\ files' = files
        BY <2>3 DEF Confirm
      <3>2. Planned(Built(w), files)
        BY <2>3, <1>5, ConfirmPlans
      <3> QED
        BY <3>1, <3>2, <1>5 DEF WriterInv
    <2>4. CASE RefuseBuild(w) \/ RefuseLocked(w)
      <3>1. pc'[w] = "idle" /\ shown'[w] = shown[w]
        BY <2>4 DEF RefuseBuild, RefuseLocked
      <3> QED
        BY <3>1, <1>5 DEF WriterInv
    <2>5. StartPreview(w) => \E mode, p : Request(p) /\ Capture(w, mode, p)
      BY RequestsAreRequests DEF StartPreview
    <2>6. StartApply(w) => \E mode, p : Request(p) /\ Capture(w, mode, p)
      BY <1>5 DEF StartApply, WriterInv
    <2> QED
      BY <2>1, <2>2, <2>3, <2>4, <2>5, <2>6
  <1> QED
    BY <1>3, <1>4, <1>6 DEF IInv

\* Taking the lock, and the steps under it that publish nothing.
LEMMA LockedSteps ==
  ASSUME TypeOK, IInv, NEW w \in Writer,
         Lock(w) \/ Recheck(w) \/ Stage(w) \/ FinalCheck(w) \/ Verify(w)
           \/ RefuseConcurrent(w) \/ IOFailure(w)
  PROVE  IInv'
  <1> USE DEF TypeOK
  <1>1. files' = files /\ shown' = shown /\ change' = change /\ lockFile' = TRUE
    BY DEF Lock, Recheck, Stage, FinalCheck, Verify, RefuseConcurrent, IOFailure,
           IInv, LockExclusive, Holding
  <1>2. \A v \in Writer \ {w} : /\ pc'[v] = pc[v] /\ job'[v] = job[v] /\ shown'[v] = shown[v]
                                /\ change'[v] = change[v] /\ temp'[v] = temp[v]
    BY DEF Lock, Recheck, Stage, FinalCheck, Verify, RefuseConcurrent, IOFailure
  <1>3. pc'[w] \in Holding /\ \A v \in Writer \ {w} : pc[v] \notin Holding
    BY DEF Lock, Recheck, Stage, FinalCheck, Verify, RefuseConcurrent, IOFailure,
           IInv, LockExclusive, Holding
  <1>4. LockExclusive'
    BY <1>1, <1>2, <1>3 DEF LockExclusive
  <1>5. \A v \in Writer \ {w} : WriterInv(v)'
    BY <1>1, <1>2, OthersUnchanged DEF IInv
  <1>6. WriterInv(w)
    BY DEF IInv
  <1>7. WriterInv(w)'
    <2>1. CASE Lock(w)
      <3>1. pc[w] = "confirmed" /\ pc'[w] = "locked"
        BY <2>1 DEF Lock
      <3> QED
        BY <3>1, <1>1, <1>6 DEF WriterInv
    <2>2. CASE Recheck(w)
      <3>1. pc[w] = "locked" /\ pc'[w] = "rechecked" /\ StillCurrent(w)'
        BY <2>2, <1>1 DEF Recheck, StillCurrent
      <3> QED
        BY <3>1, <1>1, <1>6 DEF WriterInv
    <2>3. CASE Stage(w)
      <3>1. pc[w] = "rechecked" /\ pc'[w] = "staged" /\ temp'[w] = change[w].after
        BY <2>3 DEF Stage
      <3> QED
        BY <3>1, <1>1, <1>6 DEF WriterInv, StillCurrent
    <2>4. CASE FinalCheck(w)
      <3>1. pc[w] = "staged" /\ pc'[w] = "ready" /\ temp'[w] = temp[w]
        BY <2>4 DEF FinalCheck
      <3> QED
        BY <3>1, <1>1, <1>6 DEF WriterInv, StillCurrent
    <2>5. CASE Verify(w) \/ RefuseConcurrent(w) \/ IOFailure(w)
      <3>1. pc'[w] = "closing"
        BY <2>5 DEF Verify, RefuseConcurrent, IOFailure
      <3> QED
        BY <3>1, <1>1, <1>6 DEF WriterInv
    <2> QED
      BY <2>1, <2>2, <2>3, <2>4, <2>5
  <1> QED
    BY <1>4, <1>5, <1>7 DEF IInv

\* The commit.
LEMMA RenameStep ==
  ASSUME TypeOK, IInv, NEW w \in Writer, Rename(w)
  PROVE  IInv'
  <1> USE DEF TypeOK
  <1> DEFINE p == change[w].proposal
  <1>1. Request(p) /\ Execute(p)
    BY RenameExecutes DEF IInv
  <1>2. /\ pc[w] = "ready" /\ pc'[w] = "published"
        /\ \A v \in Writer \ {w} : pc'[v] = pc[v] /\ temp'[v] = temp[v]
        /\ job' = job /\ shown' = shown /\ change' = change /\ lockFile' = lockFile
    BY DEF Rename
  <1>3. lockFile /\ \A v \in Writer \ {w} : pc[v] \notin Holding
    BY <1>2 DEF IInv, LockExclusive, Holding
  <1>4. LockExclusive'
    BY <1>2, <1>3 DEF LockExclusive, Holding
  <1>5. WriterInv(w)'
    BY <1>2 DEF IInv, WriterInv
  <1>6. ASSUME NEW v \in Writer \ {w} PROVE WriterInv(v)'
    <2>1. WriterInv(v)
      BY DEF IInv
    <2>2. pc[v] \notin {"locked", "rechecked", "staged", "ready"}
      BY <1>3 DEF Holding
    <2>3. \A x \in WorkFiles \cup KnowledgeFiles : files[x] # NULL => files'[x] # NULL
      BY <1>1, RequestIsChange, StatusOnly
    <2>4. pc[v] = "confirmed" => Planned(change[v], files')
      BY <2>1, <1>1, PlannedStable DEF WriterInv
    <2> QED
      BY <2>1, <2>2, <2>3, <2>4, <1>2 DEF WriterInv
  <1> QED
    BY <1>4, <1>5, <1>6 DEF IInv

\* Unlinking the lock, and dying.
LEMMA EndSteps ==
  ASSUME TypeOK, IInv, NEW w \in Writer, Close(w) \/ Crash(w)
  PROVE  IInv'
  <1> USE DEF TypeOK
  <1>1. files' = files /\ shown' = shown /\ pc'[w] = "idle"
    BY DEF Close, Crash
  <1>2. \A v \in Writer \ {w} : /\ pc'[v] = pc[v] /\ job'[v] = job[v] /\ shown'[v] = shown[v]
                                /\ change'[v] = change[v] /\ temp'[v] = temp[v]
    BY DEF Close, Crash
  <1>3. \A v \in Writer \ {w} : WriterInv(v)'
    BY <1>1, <1>2, OthersUnchanged DEF IInv
  <1>4. WriterInv(w)'
    BY <1>1 DEF IInv, WriterInv
  <1>5. LockExclusive'
    <2>1. CASE Close(w)
      <3>1. \A v \in Writer : pc'[v] \notin Holding
        BY <2>1, <1>1, <1>2 DEF Close, IInv, LockExclusive, Holding
      <3> QED
        BY <3>1 DEF LockExclusive
    <2>2. CASE Crash(w)
      <3>1. lockFile' = lockFile
        BY <2>2 DEF Crash
      <3> QED
        BY <3>1, <1>1, <1>2 DEF IInv, LockExclusive, Holding
    <2> QED
      BY <2>1, <2>2
  <1> QED
    BY <1>3, <1>4, <1>5 DEF IInv

LEMMA TypeStep ==
  ASSUME TypeOK, IInv, [Next]_vars
  PROVE  TypeOK'
  <1>1. CASE UNCHANGED vars
    BY <1>1 DEF vars, TypeOK
  <1>2. ASSUME NEW w \in Writer,
               StartPreview(w) \/ StartApply(w) \/ Advance(w) \/ IOFailure(w) \/ Crash(w)
        PROVE  TypeOK'
    <2>1. TypedFiles(files')
      <3>1. CASE Rename(w)
        BY <3>1, RenameExecutes, RequestIsChange, ExecuteTyped DEF IInv, TypeOK
      <3>2. CASE files' = files
        BY <3>2 DEF TypeOK
      <3> QED
        BY <1>2, <3>1, <3>2
           DEF StartPreview, StartApply, Capture, Advance, ShowPreview, Confirm, RefuseBuild,
               Lock, RefuseLocked, Recheck, Stage, FinalCheck, Verify, RefuseConcurrent,
               Close, IOFailure, Crash
    <2>2. lockFile' \in BOOLEAN
      BY <1>2
         DEF TypeOK,
             StartPreview, StartApply, Capture, Advance, ShowPreview, Confirm, RefuseBuild,
             Lock, RefuseLocked, Recheck, Stage, FinalCheck, Rename, Verify, RefuseConcurrent,
             Close, IOFailure, Crash
    <2>4. /\ pc' \in [Writer -> PC] /\ crashes' \in 0..MaxCrashes
          /\ DOMAIN job' = Writer /\ DOMAIN shown' = Writer
          /\ DOMAIN change' = Writer /\ DOMAIN temp' = Writer
      <3>1. CASE StartPreview(w) \/ StartApply(w) \/ IOFailure(w) \/ Crash(w)
        BY <3>1, CrashesAssumption
           DEF TypeOK, PC, Holding, StartPreview, StartApply, Capture, IOFailure, Crash
      <3>2. CASE Advance(w)
        BY <3>2
           DEF TypeOK, PC, Holding, Advance, ShowPreview, Confirm, RefuseBuild,
               Lock, RefuseLocked, Recheck, Stage, FinalCheck, Rename, Verify,
               RefuseConcurrent, Close
      <3> QED
        BY <1>2, <3>1, <3>2
    <2>3. ASSUME NEW v \in Writer, pc'[v] = "captured"
          PROVE  job'[v].mode \in {"preview", "apply"} /\ TypedSnapshot(job'[v].snapshot)
      <3>1. CASE v = w /\ (StartPreview(w) \/ StartApply(w))
        BY <3>1 DEF StartPreview, StartApply, Capture, TypeOK, TypedFiles
      <3>2. CASE v # w /\ (StartPreview(w) \/ StartApply(w))
        <4>1. pc[v] = "captured" /\ job'[v] = job[v]
          BY <2>3, <3>2 DEF StartPreview, StartApply, Capture, TypeOK
        <4> QED
          BY <4>1 DEF TypeOK
      <3>3. CASE Advance(w) \/ IOFailure(w) \/ Crash(w)
        <4>1. \/ pc' = pc /\ job' = job
              \/ \E q \in PC \ {"captured"} : pc' = [pc EXCEPT ![w] = q]
          BY <3>3 DEF PC, Holding, Advance, ShowPreview, Confirm, RefuseBuild, Lock,
                      RefuseLocked, Recheck, Stage, FinalCheck, Rename, Verify,
                      RefuseConcurrent, Close, IOFailure, Crash
        <4>2. job' = job \/ \E j : job' = [job EXCEPT ![w] = j]
          BY <3>3 DEF Advance, ShowPreview, Confirm, RefuseBuild, Lock,
                      RefuseLocked, Recheck, Stage, FinalCheck, Rename, Verify,
                      RefuseConcurrent, Close, IOFailure, Crash
        <4>3. pc[v] = "captured" /\ job'[v] = job[v]
          BY <2>3, <4>1, <4>2 DEF TypeOK
        <4> QED
          BY <4>3 DEF TypeOK
      <3> QED
        BY <1>2, <3>1, <3>2, <3>3
    <2> QED
      BY <2>1, <2>2, <2>3, <2>4 DEF TypeOK
  <1> QED
    BY <1>1, <1>2 DEF Next

-----------------------------------------------------------------------------
(* Theorems. *)

\* Under every interleaving and every crash, a change on its way to publication
\* is one that executing its operation now would publish.
THEOREM Invariance == Spec => []Inv
  <1>1. Init => Inv
    <2> SUFFICES ASSUME Init PROVE Inv
      OBVIOUS
    <2>1. TypeOK
      <3>1. TypedFiles(files)
        BY InitTyped DEF Init
      <3>2. /\ pc \in [Writer -> PC] /\ crashes \in 0..MaxCrashes
            /\ DOMAIN job = Writer /\ DOMAIN shown = Writer
            /\ DOMAIN change = Writer /\ DOMAIN temp = Writer
        BY CrashesAssumption DEF Init, PC
      <3>4. lockFile \in BOOLEAN
        BY DEF Init
      <3>3. \A w \in Writer : pc[w] # "captured"
        BY DEF Init
      <3> QED
        BY <3>1, <3>2, <3>3, <3>4 DEF TypeOK
    <2>2. IInv
      BY DEF Init, IInv, LockExclusive, WriterInv, Holding
    <2> QED
      BY <2>1, <2>2 DEF Inv
  <1>2. Inv /\ [Next]_vars => Inv'
    <2> SUFFICES ASSUME Inv, [Next]_vars PROVE Inv'
      OBVIOUS
    <2>1. TypeOK'
      BY TypeStep DEF Inv
    <2>2. IInv'
      <3>1. CASE UNCHANGED vars
        BY <3>1 DEF vars, Inv, IInv, LockExclusive, WriterInv, StillCurrent
      <3>2. CASE Next
        BY <3>2, UnlockedSteps, LockedSteps, RenameStep, EndSteps DEF Inv, Next, Advance
      <3> QED
        BY <3>1, <3>2
    <2> QED
      BY <2>1, <2>2 DEF Inv
  <1> QED
    BY <1>1, <1>2, PTL DEF Spec

\* Every step of the writers is one operation of the sequential workspace, or
\* leaves the files alone.
LEMMA StepIsAtomic ==
  ASSUME Inv, [Next]_vars PROVE [AtomicNext]_files
  <1>1. CASE UNCHANGED vars
    BY <1>1 DEF vars
  <1>2. ASSUME NEW w \in Writer, Rename(w) PROVE AtomicNext
    BY <1>2, RenameExecutes DEF Inv, IInv, AtomicNext
  <1>3. ASSUME NEW w \in Writer,
               StartPreview(w) \/ StartApply(w) \/ Advance(w) \/ IOFailure(w) \/ Crash(w),
               ~Rename(w)
        PROVE  UNCHANGED files
    BY <1>3 DEF StartPreview, StartApply, Capture, Advance, ShowPreview, Confirm, RefuseBuild,
                Lock, RefuseLocked, Recheck, Stage, FinalCheck, Verify, RefuseConcurrent,
                Close, IOFailure, Crash
  <1> QED
    BY <1>1, <1>2, <1>3 DEF Next

\* The detailed writers implement the sequential workspace.
THEOREM Refinement == Spec => AtomicSpec
  <1>1. Init => AtomicInit
    BY DEF Init, AtomicInit
  <1> QED
    BY <1>1, StepIsAtomic, Invariance, PTL DEF Spec, AtomicSpec

\* At most one process is between creating and unlinking the lock file.
THEOREM MutualExclusion == Spec => []LockExclusive
  BY Invariance, PTL DEF Inv, IInv

\* Every reader finds a valid journal and a workspace whose citations resolve.
THEOREM WorkspaceValid == Spec => []DocumentsValid
  BY Refinement, AtomicSafety, PTL DEF AtomicInv, DocumentsValid

\* No checkpoint is ever rewritten, dropped or reordered.
THEOREM AppendOnly == Spec => JournalAppendOnly
  <1>1. Inv /\ [Next]_vars =>
          [/\ Len(Journal(files)) <= Len(Journal(files'))
           /\ SubSeq(Journal(files'), 1, Len(Journal(files))) = Journal(files)]_vars
    BY StepIsAtomic, AtomicStepAppends DEF Inv, TypeOK
  <1> QED
    BY <1>1, Invariance, PTL DEF Spec, JournalAppendOnly

\* No lost update: what a rename replaces is what the confirmed change was
\* computed from.
THEOREM NoLostUpdate == Spec => PublishedFromCurrent
  <1>1. Inv /\ [Next]_vars =>
          [\A w \in Writer : Publishes(w) =>
              /\ Snapshot(files) = change[w].snapshot
              /\ files[change[w].target] = change[w].before]_vars
    BY DEF Inv, IInv, WriterInv, StillCurrent, Publishes
  <1> QED
    BY <1>1, Invariance, PTL DEF Spec, PublishedFromCurrent

\* No Work is published that cites an entry retired behind its preview.
THEOREM CitesApproved == Spec => CitesApprovedKnowledge
  <1> DEFINE Step == /\ \A w \in WorkId :
                          files[WorkFile(w)] = NULL /\ files'[WorkFile(w)] # NULL =>
                              files'[WorkFile(w)].knowledge_ids \subseteq ApprovedKnowledge(files')
                     /\ \A k \in KnownKnowledge(files) :
                          files[KnowledgeFile(k)].status = "retired" =>
                              files'[KnowledgeFile(k)].status = "retired"
  <1>1. ASSUME Inv, [Next]_vars PROVE Step
    <2>1. CASE UNCHANGED files
      BY <2>1
    <2>2. ASSUME NEW p \in Requests(files), Execute(p) PROVE Step
      BY <1>1, <2>2, ExecuteCitesApproved, RequestsAreRequests DEF Inv, TypeOK
    <2> QED
      BY <1>1, <2>1, <2>2, StepIsAtomic DEF AtomicNext
  <1>2. Inv /\ [Next]_vars => [Step]_vars
    BY <1>1
  <1> QED
    BY <1>2, Invariance, PTL DEF Spec, CitesApprovedKnowledge

-----------------------------------------------------------------------------
(* Updates that take no lock.                                               *)

\* A confirmed change is one of the operations, on a file of the workspace;
\* so is what a user has been shown and what is being built.
Wellformed(w) ==
  /\ pc[w] = "captured" => Request(job[w].proposal)
  /\ shown[w] # NULL => Request(shown[w].proposal)
  /\ pc[w] \in {"confirmed", "locked", "rechecked", "staged", "ready"} => change[w].target \in File

\* Until its rename a writer that has made its last check of the target finds
\* there what it is about to replace, unless an update came after the check.
CheckedOrBlind(w) ==
  pc[w] = "ready" => files[change[w].target] = change[w].before \/ w \in blind

OutsideInv ==
  /\ DOMAIN files = File /\ pc \in [Writer -> PC]
  /\ DOMAIN job = Writer /\ DOMAIN shown = Writer /\ DOMAIN change = Writer
  /\ LockExclusive
  /\ \A w \in Writer : Wellformed(w) /\ CheckedOrBlind(w)

\* A step of one writer leaves what the others hold in memory alone.
LEMMA StepOfOneWriter ==
  ASSUME OutsideInv, NEW w \in Writer,
         StartPreview(w) \/ StartApply(w) \/ Advance(w) \/ IOFailure(w) \/ Crash(w)
  PROVE  /\ DOMAIN files' = File /\ pc' \in [Writer -> PC]
         /\ DOMAIN job' = Writer /\ DOMAIN shown' = Writer /\ DOMAIN change' = Writer
         /\ \A v \in Writer \ {w} : /\ pc'[v] = pc[v] /\ job'[v] = job[v]
                                    /\ shown'[v] = shown[v] /\ change'[v] = change[v]
  <1>1. CASE StartPreview(w) \/ StartApply(w) \/ IOFailure(w) \/ Crash(w)
    BY <1>1 DEF OutsideInv, PC, Holding, StartPreview, StartApply, Capture, IOFailure, Crash
  <1>2. CASE ShowPreview(w) \/ Confirm(w) \/ RefuseBuild(w) \/ Lock(w) \/ RefuseLocked(w)
    BY <1>2 DEF OutsideInv, PC, Holding, ShowPreview, Confirm, RefuseBuild, Lock, RefuseLocked
  <1>3. CASE Recheck(w) \/ Stage(w) \/ FinalCheck(w) \/ Rename(w) \/ Verify(w)
               \/ RefuseConcurrent(w) \/ Close(w)
    BY <1>3 DEF OutsideInv, PC, Holding, Recheck, Stage, FinalCheck, Rename, Verify,
                RefuseConcurrent, Close
  <1> QED
    BY <1>1, <1>2, <1>3 DEF Advance

\* The lock file excludes, whatever the documents hold.
LEMMA LockStillExcludes ==
  ASSUME OutsideInv, NEW w \in Writer,
         StartPreview(w) \/ StartApply(w) \/ Advance(w) \/ IOFailure(w) \/ Crash(w)
  PROVE  LockExclusive'
  <1>1. \A v \in Writer \ {w} : pc'[v] = pc[v]
    BY StepOfOneWriter
  <1>2. LockExclusive /\ pc \in [Writer -> PC]
    BY DEF OutsideInv
  <1>3. CASE Lock(w)
    <2>1. /\ lockFile' /\ pc'[w] \in Holding
          /\ \A v \in Writer : pc[v] \notin Holding
      BY <1>2, <1>3 DEF Lock, LockExclusive, Holding
    <2> QED
      BY <1>1, <2>1 DEF LockExclusive
  <1>4. CASE \/ Recheck(w) \/ Stage(w) \/ FinalCheck(w) \/ Rename(w) \/ Verify(w)
             \/ RefuseConcurrent(w) \/ IOFailure(w)
    <2>1. /\ lockFile' = lockFile /\ pc[w] \in Holding /\ pc'[w] \in Holding
      BY <1>2, <1>4 DEF Holding, PC, Recheck, Stage, FinalCheck, Rename, Verify,
                        RefuseConcurrent, IOFailure
    <2> QED
      BY <1>1, <1>2, <2>1 DEF LockExclusive
  <1>5. CASE Close(w)
    <2>1. pc[w] \in Holding /\ pc'[w] \notin Holding
      BY <1>2, <1>5 DEF Close, Holding
    <2> QED
      BY <1>1, <1>2, <2>1 DEF LockExclusive
  <1>6. CASE \/ StartPreview(w) \/ StartApply(w) \/ ShowPreview(w) \/ Confirm(w)
             \/ RefuseBuild(w) \/ RefuseLocked(w) \/ Crash(w)
    <2>1. lockFile' = lockFile /\ pc'[w] \notin Holding
      BY <1>2, <1>6 DEF Holding, StartPreview, StartApply, Capture, ShowPreview, Confirm,
                        RefuseBuild, RefuseLocked, Crash
    <2> QED
      BY <1>1, <1>2, <2>1 DEF LockExclusive
  <1> QED
    BY <1>3, <1>4, <1>5, <1>6 DEF Advance

LEMMA StillWellformed ==
  ASSUME OutsideInv, NEW w \in Writer,
         StartPreview(w) \/ StartApply(w) \/ Advance(w) \/ IOFailure(w) \/ Crash(w)
  PROVE  Wellformed(w)'
  <1>1. Wellformed(w) /\ pc \in [Writer -> PC] /\ DOMAIN job = Writer /\ DOMAIN shown = Writer
        /\ DOMAIN change = Writer
    BY DEF OutsideInv
  <1>2. CASE \E mode, p : Request(p) /\ Capture(w, mode, p)
    BY <1>1, <1>2 DEF Capture, Wellformed
  <1>3. CASE ShowPreview(w)
    <2>1. pc'[w] = "idle" /\ shown'[w] = Built(w) /\ Built(w).proposal = job[w].proposal
      BY <1>1, <1>3 DEF ShowPreview, Built, BuildChange
    <2> QED
      BY <1>1, <1>3, <2>1 DEF ShowPreview, Wellformed
  <1>4. CASE Confirm(w)
    <2>1. /\ pc'[w] = "confirmed" /\ shown'[w] = shown[w] /\ change'[w] = Built(w)
          /\ Built(w).target = Target(job[w].proposal)
      BY <1>1, <1>4 DEF Confirm, Built, BuildChange
    <2>2. Request(job[w].proposal)
      BY <1>1, <1>4 DEF Confirm, Wellformed
    <2>3. Built(w).target \in File
      BY <2>1, <2>2, RequestIsChange, TargetIsFile
    <2> QED
      BY <1>1, <2>1, <2>3 DEF Wellformed
  <1>5. CASE RefuseBuild(w) \/ RefuseLocked(w) \/ Close(w) \/ Crash(w)
    BY <1>1, <1>5 DEF RefuseBuild, RefuseLocked, Close, Crash, Wellformed
  <1>6. CASE Lock(w) \/ Recheck(w) \/ Stage(w) \/ FinalCheck(w) \/ Rename(w)
               \/ Verify(w) \/ RefuseConcurrent(w) \/ IOFailure(w)
    BY <1>1, <1>6 DEF Lock, Recheck, Stage, FinalCheck, Rename, Verify, RefuseConcurrent,
                      IOFailure, Wellformed
  <1>7. StartPreview(w) => \E mode, p : Request(p) /\ Capture(w, mode, p)
    BY RequestsAreRequests DEF StartPreview
  <1>8. StartApply(w) => \E mode, p : Request(p) /\ Capture(w, mode, p)
    BY <1>1 DEF StartApply, Wellformed
  <1> QED
    BY <1>2, <1>3, <1>4, <1>5, <1>6, <1>7, <1>8 DEF Advance

\* Only a rename changes a file, and while another writer is ready no writer
\* but that one renames.
LEMMA ReadyStaysChecked ==
  ASSUME OutsideInv, NEW w \in Writer,
         StartPreview(w) \/ StartApply(w) \/ Advance(w) \/ IOFailure(w) \/ Crash(w),
         blind' = {v \in blind : pc'[v] = "ready"}, NEW v \in Writer
  PROVE  CheckedOrBlind(v)'
  <1>1. /\ pc \in [Writer -> PC] /\ pc' \in [Writer -> PC]
        /\ CheckedOrBlind(v) /\ LockExclusive
        /\ v # w => pc'[v] = pc[v] /\ change'[v] = change[v]
    BY StepOfOneWriter DEF OutsideInv
  <1>2. SUFFICES ASSUME pc'[v] = "ready"
                 PROVE  files'[change'[v].target] = change'[v].before \/ v \in blind'
    BY DEF CheckedOrBlind
  <1>3. CASE Rename(w)
    <2>1. pc[w] \in Holding /\ pc'[w] = "published"
      BY <1>1, <1>3 DEF Rename, Holding
    <2>2. v # w /\ pc[v] \in Holding
      BY <1>1, <1>2, <2>1 DEF Holding
    <2> QED
      BY <1>1, <2>1, <2>2 DEF LockExclusive
  <1>4. ASSUME ~Rename(w) PROVE UNCHANGED files
    BY <1>4 DEF StartPreview, StartApply, Capture, Advance, ShowPreview, Confirm, RefuseBuild,
                Lock, RefuseLocked, Recheck, Stage, FinalCheck, Verify, RefuseConcurrent,
                Close, IOFailure, Crash
  <1>5. CASE ~Rename(w) /\ v # w
    BY <1>1, <1>2, <1>4, <1>5 DEF CheckedOrBlind
  <1>6. CASE ~Rename(w) /\ v = w
    <2>1. FinalCheck(w)
      BY <1>1, <1>2, <1>6
         DEF StartPreview, StartApply, Capture, Advance, ShowPreview, Confirm, RefuseBuild,
             Lock, RefuseLocked, Recheck, Stage, Rename, Verify, RefuseConcurrent,
             Close, IOFailure, Crash
    <2> QED
      BY <1>6, <2>1 DEF FinalCheck
  <1> QED
    BY <1>3, <1>5, <1>6

\* An update changes one file; whoever had checked it last is blind to that.
LEMMA ArrivalsAreSeen ==
  ASSUME OutsideInv, NEW p \in Outside, Arrive(p)
  PROVE  OutsideInv'
  <1>1. /\ DOMAIN files' = File
        /\ \A x \in File : x # Target(p) => files'[x] = files[x]
    BY DEF Arrive, Execute, OutsideInv
  <1>2. UNCHANGED <<lockFile, pc, job, shown, change>>
        /\ blind' = blind \cup {w \in Writer : pc[w] = "ready" /\ change[w].target = Target(p)}
    BY DEF Arrive
  <1>3. ASSUME NEW w \in Writer PROVE Wellformed(w)' /\ CheckedOrBlind(w)'
    <2>1. Wellformed(w) /\ CheckedOrBlind(w)
      BY DEF OutsideInv
    <2>2. Wellformed(w)'
      BY <1>2, <2>1 DEF Wellformed
    <2>3. CheckedOrBlind(w)'
      BY <1>1, <1>2, <2>1 DEF Wellformed, CheckedOrBlind
    <2> QED
      BY <2>2, <2>3
  <1>4. LockExclusive'
    BY <1>2 DEF OutsideInv, LockExclusive
  <1> QED
    BY <1>1, <1>2, <1>3, <1>4 DEF OutsideInv

\* Whatever arrives without the lock, and whichever process dies, a writer that
\* is ready replaces the bytes it checked or is known to have been overtaken.
LEMMA OutsideInvariance == OutsideSpec => []OutsideInv
  <1>1. OutsideInit => OutsideInv
    <2> SUFFICES ASSUME OutsideInit PROVE OutsideInv
      OBVIOUS
    <2>1. DOMAIN files = File
      BY DEF OutsideInit, Init, InitialFiles
    <2> QED
      BY <2>1 DEF OutsideInit, Init, OutsideInv, LockExclusive, Wellformed, CheckedOrBlind,
                  Holding, PC
  <1>2. OutsideInv /\ [OutsideNext]_ovars => OutsideInv'
    <2> SUFFICES ASSUME OutsideInv, [OutsideNext]_ovars PROVE OutsideInv'
      OBVIOUS
    <2>1. CASE UNCHANGED ovars
      BY <2>1 DEF ovars, vars, OutsideInv, LockExclusive, Wellformed, CheckedOrBlind
    <2>2. CASE WriterStep
      <3>1. PICK w \in Writer :
               StartPreview(w) \/ StartApply(w) \/ Advance(w) \/ IOFailure(w) \/ Crash(w)
        BY <2>2 DEF WriterStep, Next
      <3>2. blind' = {v \in blind : pc'[v] = "ready"}
        BY <2>2 DEF WriterStep
      <3>3. \A v \in Writer : CheckedOrBlind(v)'
        BY <3>1, <3>2, ReadyStaysChecked
      <3>4. ASSUME NEW v \in Writer PROVE Wellformed(v)'
        <4>1. CASE v = w
          BY <3>1, <4>1, StillWellformed
        <4>2. CASE v # w
          <5>1. /\ pc'[v] = pc[v] /\ job'[v] = job[v]
                /\ shown'[v] = shown[v] /\ change'[v] = change[v]
            BY <3>1, <4>2, StepOfOneWriter
          <5>2. Wellformed(v)
            BY DEF OutsideInv
          <5> QED
            BY <5>1, <5>2 DEF Wellformed
        <4> QED
          BY <4>1, <4>2
      <3>5. LockExclusive'
        BY <3>1, LockStillExcludes
      <3>6. /\ DOMAIN files' = File /\ pc' \in [Writer -> PC]
            /\ DOMAIN job' = Writer /\ DOMAIN shown' = Writer /\ DOMAIN change' = Writer
        BY <3>1, StepOfOneWriter
      <3> QED
        BY <3>3, <3>4, <3>5, <3>6 DEF OutsideInv
    <2>3. CASE \E p \in Outside : Arrive(p)
      BY <2>3, ArrivalsAreSeen
    <2> QED
      BY <2>1, <2>2, <2>3 DEF OutsideNext
  <1> QED
    BY <1>1, <1>2, PTL DEF OutsideSpec

\* The writers exclude one another under outside updates too.
THEOREM OutsideMutualExclusion == OutsideSpec => []LockExclusive
  BY OutsideInvariance, PTL DEF OutsideInv

\* A document replaced behind a writer's back is overwritten only if it was
\* replaced after the writer's last check of it.
THEOREM OvertakenOnlyAfterTheLastCheck == OutsideSpec => OutsideNotOverwritten
  <1>1. OutsideInv /\ [OutsideNext]_ovars =>
          [\A w \in Writer : Publishes(w) =>
              files[change[w].target] = change[w].before \/ w \in blind]_ovars
    BY DEF OutsideInv, CheckedOrBlind, Publishes
  <1> QED
    BY <1>1, OutsideInvariance, PTL DEF OutsideSpec, OutsideNotOverwritten


-----------------------------------------------------------------------------
(* Finite sets in an order, and what is left of a sequence.                  *)

Ran(s) == {s[i] : i \in 1..Len(s)}

\* A finite set can be put in order: each of its members is in the sequence.
LEMMA Ordered ==
  ASSUME NEW S, IsFiniteSet(S)
  PROVE  InOrder(S) \in Seq(S) /\ Ran(InOrder(S)) = S
  <1> DEFINE n == Cardinality(S)
  <1>1. n \in Nat /\ ExistsBijection(1..n, S)
    BY FS_CardinalityType
  <1>2. PICK f \in Bijection(1..n, S) : TRUE
    BY <1>1 DEF ExistsBijection
  <1>3. f \in [1..n -> S] /\ \A x \in S : \E i \in DOMAIN f : f[i] = x
    BY <1>2 DEF Bijection, Surjection, Injection
  <1>4. \E s \in [1..n -> S] : \A x \in S : \E i \in DOMAIN s : s[i] = x
    BY <1>3
  <1>5. InOrder(S) \in [1..n -> S] /\ \A x \in S : \E i \in DOMAIN InOrder(S) : InOrder(S)[i] = x
    BY <1>4 DEF InOrder
  <1>6. InOrder(S) \in Seq(S) /\ Len(InOrder(S)) = n
    BY <1>1, <1>5
  <1> QED
    BY <1>5, <1>6 DEF Ran

LEMMA RanOfRest ==
  ASSUME NEW S, NEW t \in Seq(S), t # <<>>
  PROVE  /\ Head(t) \in S /\ Tail(t) \in Seq(S)
         /\ Ran(t) = {Head(t)} \cup Ran(Tail(t))
  <1>1. Len(t) \in Nat \ {0} /\ Head(t) = t[1] /\ Head(t) \in S /\ Tail(t) \in Seq(S)
    OBVIOUS
  <1>2. Len(Tail(t)) = Len(t) - 1 /\ \A i \in 1..(Len(t) - 1) : Tail(t)[i] = t[i + 1]
    BY <1>1
  <1>3. Ran(t) \subseteq {Head(t)} \cup Ran(Tail(t))
    <2> SUFFICES ASSUME NEW i \in 1..Len(t), i # 1 PROVE t[i] \in Ran(Tail(t))
      BY <1>1 DEF Ran
    <2>1. i - 1 \in 1..Len(Tail(t)) /\ Tail(t)[i - 1] = t[i]
      BY <1>1, <1>2
    <2> QED
      BY <2>1 DEF Ran
  <1>4. Ran(Tail(t)) \subseteq Ran(t)
    <2> SUFFICES ASSUME NEW i \in 1..Len(Tail(t)) PROVE Tail(t)[i] \in Ran(t)
      BY DEF Ran
    <2>1. i + 1 \in 1..Len(t) /\ Tail(t)[i] = t[i + 1]
      BY <1>1, <1>2
    <2> QED
      BY <2>1 DEF Ran
  <1>5. Head(t) \in Ran(t)
    BY <1>1 DEF Ran
  <1> QED
    BY <1>1, <1>3, <1>4, <1>5

LEMMA RanOfBoth ==
  ASSUME NEW S, NEW s \in Seq(S), NEW t \in Seq(S)
  PROVE  s \o t \in Seq(S) /\ Ran(s \o t) = Ran(s) \cup Ran(t)
  <1>1. /\ s \o t \in Seq(S) /\ Len(s \o t) = Len(s) + Len(t)
        /\ \A i \in 1..Len(s) : (s \o t)[i] = s[i]
        /\ \A i \in 1..Len(t) : (s \o t)[Len(s) + i] = t[i]
    OBVIOUS
  <1>2. Ran(s \o t) \subseteq Ran(s) \cup Ran(t)
    <2> SUFFICES ASSUME NEW i \in 1..Len(s \o t) PROVE (s \o t)[i] \in Ran(s) \cup Ran(t)
      BY DEF Ran
    <2>1. CASE i \in 1..Len(s)
      BY <1>1, <2>1 DEF Ran
    <2>2. CASE i \notin 1..Len(s)
      <3>1. i - Len(s) \in 1..Len(t) /\ (s \o t)[i] = t[i - Len(s)]
        BY <1>1, <2>2
      <3> QED
        BY <3>1 DEF Ran
    <2> QED
      BY <2>1, <2>2
  <1>3. Ran(s) \subseteq Ran(s \o t)
    <2> SUFFICES ASSUME NEW i \in 1..Len(s) PROVE s[i] \in Ran(s \o t)
      BY DEF Ran
    <2>1. i \in 1..Len(s \o t) /\ (s \o t)[i] = s[i]
      BY <1>1
    <2> QED
      BY <2>1 DEF Ran
  <1>4. Ran(t) \subseteq Ran(s \o t)
    <2> SUFFICES ASSUME NEW i \in 1..Len(t) PROVE t[i] \in Ran(s \o t)
      BY DEF Ran
    <2>1. Len(s) + i \in 1..Len(s \o t) /\ (s \o t)[Len(s) + i] = t[i]
      BY <1>1
    <2> QED
      BY <2>1 DEF Ran
  <1> QED
    BY <1>1, <1>2, <1>3, <1>4

LEMMA RanOfEmpty == Ran(<<>>) = {}
  BY DEF Ran

-----------------------------------------------------------------------------
(* The documents keep their types, whoever changes them.                     *)

LEMMA TamperTyped ==
  ASSUME TypedFiles(files), NEW c \in Outsiders, Tamper(c)
  PROVE  TypedFiles(files')
  <1>1. c \in Typed
    BY InspectionAssumption
  <1>2. files' = [files EXCEPT ![c.file] = c.doc] /\ DOMAIN files = File
    BY DEF Tamper, TypedFiles
  <1>3. c.file \in SnapshotFiles
    BY <1>1 DEF Typed, SnapshotFiles
  <1>4. DOMAIN files' = File
    BY <1>2
  <1>5. \A x \in File : files'[x] = IF x = c.file THEN c.doc ELSE files[x]
    BY <1>2
  <1>6. TypedSnapshot(Snapshot(files))
    BY DEF TypedFiles
  <1>7. \A w \in WorkId : files'[WorkFile(w)] \in Work \cup {NULL}
    <2> SUFFICES ASSUME NEW w \in WorkId PROVE files'[WorkFile(w)] \in Work \cup {NULL}
      OBVIOUS
    <2>1. WorkFile(w) \in WorkFiles /\ WorkFile(w) \in SnapshotFiles /\ WorkFile(w) \in File
      BY DEF WorkFiles, SnapshotFiles, File
    <2>2. files[WorkFile(w)] \in Work \cup {NULL}
      BY <1>6, <2>1 DEF TypedSnapshot, Snapshot
    <2>3. c.file = WorkFile(w) => c.doc \in Work \cup {NULL}
      BY <1>1, <2>1, Distinct DEF Typed, KnowledgeFiles
    <2> QED
      BY <1>5, <2>1, <2>2, <2>3
  <1>8. \A k \in KnowledgeId : files'[KnowledgeFile(k)] \in Knowledge \cup {NULL}
    <2> SUFFICES ASSUME NEW k \in KnowledgeId PROVE files'[KnowledgeFile(k)] \in Knowledge \cup {NULL}
      OBVIOUS
    <2>1. /\ KnowledgeFile(k) \in KnowledgeFiles /\ KnowledgeFile(k) \in SnapshotFiles
          /\ KnowledgeFile(k) \in File
      BY DEF KnowledgeFiles, SnapshotFiles, File
    <2>2. files[KnowledgeFile(k)] \in Knowledge \cup {NULL}
      BY <1>6, <2>1 DEF TypedSnapshot, Snapshot
    <2>3. c.file = KnowledgeFile(k) => c.doc \in Knowledge \cup {NULL}
      BY <1>1, <2>1, Distinct DEF Typed, WorkFiles
    <2> QED
      BY <1>5, <2>1, <2>2, <2>3
  <1>9. JournalFile \in SnapshotFiles /\ LocalFile \in SnapshotFiles /\ JournalFile \in File /\ LocalFile \in File
    BY DEF SnapshotFiles, File
  <1>10. files'[JournalFile] \in Seq(Checkpoint)
    <2>1. files[JournalFile] \in Seq(Checkpoint)
      BY <1>6, <1>9 DEF TypedSnapshot, Snapshot
    <2>2. c.file = JournalFile => c.doc \in Seq(Checkpoint)
      BY <1>1, Distinct DEF Typed, WorkFiles, KnowledgeFiles
    <2> QED
      BY <1>5, <1>9, <2>1, <2>2
  <1>11. files'[LocalFile] \in LocalState \cup {NULL}
    <2>1. files[LocalFile] \in LocalState \cup {NULL}
      BY <1>6, <1>9 DEF TypedSnapshot, Snapshot
    <2>2. c.file = LocalFile => c.doc \in LocalState \cup {NULL}
      BY <1>1, Distinct DEF Typed, WorkFiles, KnowledgeFiles
    <2> QED
      BY <1>5, <1>9, <2>1, <2>2
  <1>12. TypedSnapshot(Snapshot(files'))
    BY <1>7, <1>8, <1>9, <1>10, <1>11
       DEF TypedSnapshot, Snapshot, SnapshotFiles, WorkFiles, KnowledgeFiles
  <1>13. \A n \in NoteId : files'[InboxFile(n)] \in {n, NULL}
    <2> SUFFICES ASSUME NEW n \in NoteId PROVE files'[InboxFile(n)] \in {n, NULL}
      OBVIOUS
    <2>1. InboxFile(n) \in File /\ InboxFile(n) \notin SnapshotFiles
      BY Distinct DEF File, InboxFiles, SnapshotFiles, WorkFiles, KnowledgeFiles
    <2>2. files[InboxFile(n)] \in {n, NULL}
      BY DEF TypedFiles
    <2> QED
      BY <1>3, <1>5, <2>1, <2>2
  <1> QED
    BY <1>4, <1>12, <1>13 DEF TypedFiles

\* What a writer publishes is one of its operations.
LEMMA OperationIsChange == \A p \in Operations : Change(p)
  BY InspectionAssumption DEF Change

LEMMA UpdateTyped ==
  ASSUME TypedFiles(files), Update
  PROVE  TypedFiles(files')
  <1>1. ASSUME NEW p \in Operations, Publish(p) PROVE TypedFiles(files')
    BY <1>1, OperationIsChange, ExecuteTyped DEF Publish
  <1>2. ASSUME NEW c \in Outsiders, Tamper(c) PROVE TypedFiles(files')
    BY <1>2, TamperTyped
  <1>3. ASSUME NEW p \in Path, ArtifactChange(p) PROVE TypedFiles(files')
    BY <1>3 DEF ArtifactChange
  <1> QED
    BY <1>1, <1>2, <1>3 DEF Update

-----------------------------------------------------------------------------
(* Turning the pages.                                                        *)

WalkTyped ==
    /\ walk = [at |-> walk.at, before |-> walk.before, entries |-> walk.entries,
               first |-> walk.first]
    /\ walk.at \in {"idle", "walking", "over", "refused"}
    /\ walk.before \in Nat
    /\ walk.first \in Seq(Checkpoint)

\* The pages shown are the newest entries of the journal of the first page, and
\* the journal still begins with it.
WalkInv ==
    ~tampered =>
        /\ walk.at # "refused"
        /\ walk.at = "walking" =>
              /\ walk.before \in 1..Len(walk.first)
              /\ Len(walk.first) <= Len(Journal(files))
              /\ \A i \in 1..Len(walk.first) : Journal(files)[i] = walk.first[i]
              /\ walk.entries = NewestFirst(walk.first, walk.before, Len(walk.first))
        /\ walk.at = "over" => walk.entries = NewestFirst(walk.first, 0, Len(walk.first))

\* A sequence that is two others end to end.
LEMMA Joined ==
  ASSUME NEW S, NEW a \in Seq(S), NEW b \in Seq(S), NEW c \in Seq(S),
         Len(c) = Len(a) + Len(b),
         \A i \in 1..Len(a) : c[i] = a[i],
         \A i \in 1..Len(b) : c[Len(a) + i] = b[i]
  PROVE  a \o b = c
  <1>1. /\ a \o b \in Seq(S) /\ Len(a \o b) = Len(a) + Len(b)
        /\ \A i \in 1..Len(a) : (a \o b)[i] = a[i]
        /\ \A i \in 1..Len(b) : (a \o b)[Len(a) + i] = b[i]
    OBVIOUS
  <1>2. \A i \in 1..Len(c) : (a \o b)[i] = c[i]
    <2> SUFFICES ASSUME NEW i \in 1..Len(c) PROVE (a \o b)[i] = c[i]
      OBVIOUS
    <2>1. CASE i \in 1..Len(a)
      BY <1>1, <2>1
    <2>2. CASE i \notin 1..Len(a)
      <3>1. i - Len(a) \in 1..Len(b) /\ Len(a) + (i - Len(a)) = i
        BY <2>2
      <3> QED
        BY <1>1, <3>1
    <2> QED
      BY <2>1, <2>2
  <1> QED
    BY <1>1, <1>2

\* Two runs of entries, one after the other.
LEMMA NewestFirstJoin ==
  ASSUME NEW S, NEW j \in Seq(S), NEW k, NEW high \in 0..Len(j),
         NEW mid \in 0..high, NEW low \in 0..mid,
         \A i \in 1..mid : k[i] = j[i]
  PROVE  NewestFirst(j, mid, high) \o NewestFirst(k, low, mid) = NewestFirst(j, low, high)
  <1> DEFINE a == NewestFirst(j, mid, high)
             b == NewestFirst(k, low, mid)
             c == NewestFirst(j, low, high)
  <1>0. /\ high \in Nat /\ mid \in Nat /\ low \in Nat /\ mid <= high /\ low <= mid
        /\ high - mid \in Nat /\ mid - low \in Nat /\ high - low \in Nat
    OBVIOUS
  <1>1. b = NewestFirst(j, low, mid)
    <2>1. \A i \in 1..(mid - low) : k[mid + 1 - i] = j[mid + 1 - i]
      OBVIOUS
    <2> QED
      BY <2>1 DEF NewestFirst
  <1>2. a = [i \in 1..(high - mid) |-> j[high + 1 - i]] /\ a \in Seq(S) /\ Len(a) = high - mid
    <2>1. \A i \in 1..(high - mid) : j[high + 1 - i] \in S
      OBVIOUS
    <2>2. a = [i \in 1..(high - mid) |-> j[high + 1 - i]] /\ high - mid \in Nat
      BY DEF NewestFirst
    <2> QED
      BY <2>1, <2>2
  <1>3. b = [i \in 1..(mid - low) |-> j[mid + 1 - i]] /\ b \in Seq(S) /\ Len(b) = mid - low
    <2>1. \A i \in 1..(mid - low) : j[mid + 1 - i] \in S
      OBVIOUS
    <2>2. b = [i \in 1..(mid - low) |-> j[mid + 1 - i]] /\ mid - low \in Nat
      BY <1>1 DEF NewestFirst
    <2> QED
      BY <2>1, <2>2
  <1>4. c = [i \in 1..(high - low) |-> j[high + 1 - i]] /\ c \in Seq(S) /\ Len(c) = high - low
    <2>1. \A i \in 1..(high - low) : j[high + 1 - i] \in S
      OBVIOUS
    <2>2. c = [i \in 1..(high - low) |-> j[high + 1 - i]] /\ high - low \in Nat
      BY DEF NewestFirst
    <2> QED
      BY <2>1, <2>2
  <1> HIDE DEF a, b, c
  <1>5. a \in Seq(S) /\ Len(a) = high - mid /\ b \in Seq(S) /\ Len(b) = mid - low
    BY <1>2, <1>3
  <1>6. c \in Seq(S) /\ Len(c) = Len(a) + Len(b)
    BY <1>0, <1>4, <1>5
  <1>7. \A i \in 1..Len(a) : c[i] = a[i]
    BY <1>0, <1>2, <1>4
  <1>8. \A i \in 1..Len(b) : c[Len(a) + i] = b[i]
    <2> SUFFICES ASSUME NEW i \in 1..(mid - low) PROVE c[high - mid + i] = b[i]
      BY <1>5
    <2>1. high - mid + i \in 1..(high - low) /\ high + 1 - (high - mid + i) = mid + 1 - i
      BY <1>0
    <2> QED
      BY <1>3, <1>4, <2>1
  <1>9. a \o b = c
    BY <1>5, <1>6, <1>7, <1>8, Joined
  <1> QED
    BY <1>9 DEF a, b, c

LEMMA NewestFirstIsSeq ==
  ASSUME NEW S, NEW j \in Seq(S), NEW high \in 0..Len(j), NEW low \in 0..high
  PROVE  NewestFirst(j, low, high) \in Seq(S)
  <1>1. high - low \in Nat /\ \A i \in 1..(high - low) : j[high + 1 - i] \in S
    OBVIOUS
  <1> QED
    BY <1>1 DEF NewestFirst

\* A page shows the entries down to some index, from which the next page goes on.
LEMMA APage ==
  ASSUME TypedFiles(files), NEW before \in 0..Len(Journal(files))
  PROVE  \E low \in 0..before :
            /\ Turned(before).entries = NewestFirst(Journal(files), low, before)
            /\ \/ Turned(before).next = NULL /\ low = 0
               \/ Turned(before).next = low /\ low # NULL /\ low > 0
  <1> DEFINE low == IF before < PageLimit THEN 0 ELSE before - PageLimit
  <1>1. PageLimit \in Nat \ {0} /\ NULL \notin Nat
    BY InspectionAssumption
  <1>2. Len(Journal(files)) \in Nat /\ before \in Nat
    BY JournalTyped
  <1>3. low \in 0..before
    BY <1>1, <1>2
  <1>4. Journal(Snapshot(files)) = Journal(files)
    BY DEF Journal, Snapshot, SnapshotFiles
  <1>5. Turned(before) =
           [entries |-> NewestFirst(Journal(files), low, before),
            next |-> IF before - low = PageLimit /\ low > 0 THEN low ELSE NULL]
    BY <1>4 DEF Turned, HistoryPage
  <1>6. \/ Turned(before).next = NULL /\ low = 0
        \/ Turned(before).next = low /\ low # NULL /\ low > 0
    <2>1. Turned(before).next = IF before - low = PageLimit /\ low > 0 THEN low ELSE NULL
      BY <1>5
    <2>2. CASE before < PageLimit
      BY <1>1, <1>2, <2>1, <2>2
    <2>3. CASE ~(before < PageLimit)
      <3>1. before - low = PageLimit /\ low \in Nat
        BY <1>1, <1>2, <2>3
      <3> HIDE DEF low
      <3> QED
        BY <1>1, <2>1, <3>1
    <2> QED
      BY <2>2, <2>3
  <1>7. Turned(before).entries = NewestFirst(Journal(files), low, before)
    BY <1>5
  <1> QED
    BY <1>3, <1>6, <1>7

LEMMA PageTurned ==
  ASSUME TypedFiles(files), NEW first \in Seq(Checkpoint), NEW entries,
         NEW before \in 0..Len(first), Len(first) <= Len(Journal(files)),
         \A i \in 1..Len(first) : Journal(files)[i] = first[i],
         entries = NewestFirst(first, before, Len(first)),
         walk' = Advanced(first, entries, Turned(before)),
         UNCHANGED files
  PROVE  WalkTyped' /\ WalkInv'
  <1>1. Len(Journal(files)) \in Nat /\ Len(first) \in Nat /\ before \in 0..Len(Journal(files))
    BY JournalTyped
  <1>2. PICK low \in 0..before :
            /\ Turned(before).entries = NewestFirst(Journal(files), low, before)
            /\ \/ Turned(before).next = NULL /\ low = 0
               \/ Turned(before).next = low /\ low # NULL /\ low > 0
    BY <1>1, APage
  <1>3. entries \o Turned(before).entries = NewestFirst(first, low, Len(first))
    <2>1. Len(first) \in 0..Len(first) /\ before \in 0..Len(first) /\ low \in 0..before
      BY <1>1
    <2>2. \A i \in 1..before : Journal(files)[i] = first[i]
      BY <1>1
    <2>3. NewestFirst(first, before, Len(first)) \o NewestFirst(Journal(files), low, before)
             = NewestFirst(first, low, Len(first))
      BY <2>1, <2>2, NewestFirstJoin
    <2> QED
      BY <1>2, <2>3
  <1>4. Journal(files)' = Journal(files)
    BY DEF Journal
  <1>5. CASE Turned(before).next = NULL /\ low = 0
    <2>1. /\ walk' = [at |-> "over", before |-> 0,
                      entries |-> entries \o Turned(before).entries, first |-> first]
      BY <1>5 DEF Advanced
    <2> QED
      BY <1>3, <1>5, <2>1 DEF WalkTyped, WalkInv
  <1>6. CASE Turned(before).next = low /\ low # NULL /\ low > 0
    <2>1. /\ walk' = [at |-> "walking", before |-> low,
                      entries |-> entries \o Turned(before).entries, first |-> first]
      BY <1>6 DEF Advanced
    <2>2. low \in 1..Len(first)
      BY <1>1, <1>6
    <2> QED
      BY <1>1, <1>3, <1>4, <2>1, <2>2 DEF WalkTyped, WalkInv
  <1> QED
    BY <1>2, <1>5, <1>6

\* An operation leaves the journal what it was, or longer.
LEMMA PublishExtends ==
  ASSUME TypedFiles(files), NEW p \in Operations, Publish(p)
  PROVE  /\ Len(Journal(files)) <= Len(Journal(files'))
         /\ \A i \in 1..Len(Journal(files)) : Journal(files')[i] = Journal(files)[i]
  <1>1. Journal(files) \in Seq(Checkpoint)
    BY JournalTyped
  <1>2. \/ Journal(files') = Journal(files)
        \/ Journal(files') = Append(Journal(files), Entry(p.entry, Journal(files)))
    BY OperationIsChange, ExecuteJournal DEF Publish
  <1> QED
    BY <1>1, <1>2

WalkOk == TypedFiles(files) /\ WalkTyped /\ WalkInv

LEMMA WalkInit == InspectionInit => WalkOk
  <1> SUFFICES ASSUME InspectionInit PROVE WalkOk
    OBVIOUS
  <1>1. TypedFiles(files)
    BY InspectionAssumption DEF InspectionInit
  <1>2. walk = [at |-> "idle", before |-> 0, entries |-> <<>>, first |-> <<>>]
    BY DEF InspectionInit, AtRest
  <1>3. <<>> \in Seq(Checkpoint)
    OBVIOUS
  <1> QED
    BY <1>1, <1>2, <1>3 DEF WalkOk, WalkTyped, WalkInv

LEMMA WalkNext == WalkOk /\ [InspectionNext]_inspectionVars => WalkOk'
  <1> SUFFICES ASSUME WalkOk, [InspectionNext]_inspectionVars PROVE WalkOk'
    OBVIOUS
  <1>1. CASE UNCHANGED <<files, walk, tampered>>
    BY <1>1 DEF WalkOk, WalkTyped, WalkInv, Journal
  <1>2. CASE WalkStep
    <2>1. UNCHANGED <<files, tampered>> /\ TypedFiles(files)'
      BY <1>2 DEF WalkStep, WalkOk
    <2>2. CASE FirstPage
      <3>1. Journal(files) \in Seq(Checkpoint)
        BY JournalTyped DEF WalkOk
      <3>2. NewestFirst(Journal(files), Len(Journal(files)), Len(Journal(files))) = <<>>
        <4>1. Len(Journal(files)) - Len(Journal(files)) = 0
          BY <3>1
        <4> QED
          BY <4>1 DEF NewestFirst
      <3>3. Len(Journal(files)) \in 0..Len(Journal(files))
        BY <3>1
      <3> QED
        BY <2>1, <2>2, <3>1, <3>2, <3>3, PageTurned DEF FirstPage, WalkOk
    <2>3. CASE NextPage /\ ~tampered
      <3>1. /\ walk.before \in 1..Len(walk.first) /\ walk.first \in Seq(Checkpoint)
            /\ Len(walk.first) <= Len(Journal(files))
            /\ \A i \in 1..Len(walk.first) : Journal(files)[i] = walk.first[i]
            /\ walk.entries = NewestFirst(walk.first, walk.before, Len(walk.first))
        BY <2>3 DEF NextPage, WalkOk, WalkInv, WalkTyped
      <3>2. Len(Journal(files)) \in Nat
        BY JournalTyped DEF WalkOk
      <3>3. walk.before \in 0..Len(walk.first) /\ ~(walk.before > Len(Journal(files)))
        BY <3>1, <3>2
      <3>4. walk' = Advanced(walk.first, walk.entries, Turned(walk.before))
        BY <2>3, <3>3 DEF NextPage
      <3> QED
        BY <2>1, <3>1, <3>3, <3>4, PageTurned DEF WalkOk
    <2>4. CASE NextPage /\ tampered
      <3>1. WalkInv'
        BY <2>1, <2>4 DEF WalkInv
      <3>2. CASE walk' = [walk EXCEPT !.at = "refused"]
        <4>1. walk' = [at |-> "refused", before |-> walk.before, entries |-> walk.entries,
                       first |-> walk.first]
          BY <3>2 DEF WalkOk, WalkTyped
        <4> QED
          BY <2>1, <3>1, <4>1 DEF WalkOk, WalkTyped
      <3>3. CASE /\ ~(walk.before > Len(Journal(files)))
                 /\ walk' = Advanced(walk.first, walk.entries, Turned(walk.before))
        <4>1. Len(Journal(files)) \in Nat /\ walk.before \in Nat /\ walk.first \in Seq(Checkpoint)
          BY JournalTyped DEF WalkOk, WalkTyped
        <4>2. walk.before \in 0..Len(Journal(files))
          BY <3>3, <4>1
        <4>3. Turned(walk.before).next = NULL \/ Turned(walk.before).next \in Nat
          BY <4>1, <4>2, APage DEF WalkOk
        <4>4. WalkTyped'
          BY <3>3, <4>1, <4>3 DEF Advanced, WalkTyped
        <4> QED
          BY <2>1, <3>1, <4>4 DEF WalkOk
      <3> QED
        BY <2>4, <3>2, <3>3 DEF NextPage
    <2> QED
      BY <1>2, <2>2, <2>3, <2>4 DEF WalkStep
  <1>3. CASE Update
    <2>1. TypedFiles(files)' /\ UNCHANGED walk /\ WalkTyped'
      BY <1>3, UpdateTyped DEF WalkOk, Update, Updated, WalkTyped
    <2>2. ASSUME NEW p \in Operations, Publish(p) PROVE WalkOk'
      <3>1. UNCHANGED tampered
        BY <2>2 DEF Publish
      <3>2. /\ Len(Journal(files)) <= Len(Journal(files'))
            /\ \A i \in 1..Len(Journal(files)) : Journal(files')[i] = Journal(files)[i]
        BY <2>2, PublishExtends DEF WalkOk
      <3>3. Len(Journal(files)) \in Nat /\ Len(Journal(files')) \in Nat
        BY <2>1, JournalTyped DEF WalkOk
      <3>4. ASSUME ~tampered, walk.at = "walking"
            PROVE  /\ walk.before \in 1..Len(walk.first)
                   /\ Len(walk.first) <= Len(Journal(files'))
                   /\ \A i \in 1..Len(walk.first) : Journal(files')[i] = walk.first[i]
                   /\ walk.entries = NewestFirst(walk.first, walk.before, Len(walk.first))
        <4>1. /\ walk.before \in 1..Len(walk.first) /\ Len(walk.first) <= Len(Journal(files))
              /\ \A i \in 1..Len(walk.first) : Journal(files)[i] = walk.first[i]
              /\ walk.entries = NewestFirst(walk.first, walk.before, Len(walk.first))
          BY <3>4 DEF WalkOk, WalkInv
        <4>2. Len(walk.first) \in Nat
          BY DEF WalkOk, WalkTyped
        <4> QED
          BY <3>2, <3>3, <4>1, <4>2
      <3> QED
        BY <2>1, <3>1, <3>4 DEF WalkOk, WalkInv
    <2>3. ASSUME NEW c \in Outsiders, Tamper(c) PROVE WalkOk'
      BY <2>1, <2>3 DEF Tamper, WalkOk, WalkInv
    <2>4. ASSUME NEW p \in Path, ArtifactChange(p) PROVE WalkOk'
      BY <1>1, <2>1, <2>4 DEF ArtifactChange
    <2> QED
      BY <1>3, <2>2, <2>3, <2>4 DEF Update
  <1>4. CASE ReaderStep
    BY <1>1, <1>4 DEF ReaderStep
  <1>5. CASE UNCHANGED inspectionVars
    BY <1>1, <1>5 DEF inspectionVars
  <1> QED
    BY <1>2, <1>3, <1>4, <1>5 DEF InspectionNext

\* Whoever turns the pages of the history by the cursors it is given, while the
\* journal grows, is shown every entry of the journal of the first page, once,
\* newest first (buildProjectHistory).
THEOREM HistoryIsShownEntire == InspectionSpec => []WalkSeesEach
  <1>1. WalkOk => WalkSeesEach
    BY DEF WalkOk, WalkInv, WalkSeesEach
  <1> QED
    BY <1>1, WalkInit, WalkNext, PTL DEF InspectionSpec

-----------------------------------------------------------------------------
(* What there is to read: the documents with the identities of their files,  *)
(* and the names in the directories.                                         *)

Parts == SnapshotFiles \cup Directories
FilesOf(d) ==
    IF d = RootDirectory THEN {LocalFile}
    ELSE IF d = WorkDirectory THEN WorkFiles ELSE KnowledgeFiles

LEMMA DirectoriesApart ==
  /\ Directories \cap SnapshotFiles = {}
  /\ RootDirectory # WorkDirectory /\ RootDirectory # KnowledgeDirectory
  /\ WorkDirectory # KnowledgeDirectory
  /\ WorkFiles \cap KnowledgeFiles = {}
  /\ LocalFile \notin WorkFiles \cup KnowledgeFiles /\ JournalFile \notin WorkFiles \cup KnowledgeFiles
  /\ LocalFile # JournalFile
  /\ \A f \in SnapshotFiles :
        f \in WorkFiles \/ f \in KnowledgeFiles \/ f = LocalFile \/ f = JournalFile
  <1>1. \A w : /\ WorkFile(w) \notin Directories
               /\ KnowledgeFile(w) \notin Directories
    BY DEF WorkFile, KnowledgeFile, Directories, RootDirectory, WorkDirectory, KnowledgeDirectory
  <1>2. LocalFile \notin Directories /\ JournalFile \notin Directories
    BY DEF LocalFile, JournalFile, Directories, RootDirectory, WorkDirectory, KnowledgeDirectory
  <1>3. /\ RootDirectory # WorkDirectory /\ RootDirectory # KnowledgeDirectory
        /\ WorkDirectory # KnowledgeDirectory
    BY DEF RootDirectory, WorkDirectory, KnowledgeDirectory
  <1> QED
    BY <1>1, <1>2, <1>3, Distinct DEF SnapshotFiles, WorkFiles, KnowledgeFiles

LEMMA Reads ==
  /\ \A x \in Parts : Versions[x] = Read(x)
  /\ DOMAIN Versions = Parts
  /\ \A d \in Directories : Read(d) = {f \in FilesOf(d) : files[f] # NULL}
  /\ \A f \in SnapshotFiles : Read(f) = <<files[f], inode[f]>> /\ Read(f)[1] = files[f]
  <1>1. DOMAIN Versions = Parts /\ \A x \in Parts : Versions[x] = Read(x)
    BY DEF Versions, Parts
  <1>2. \A d \in Directories : Read(d) = {f \in FilesOf(d) : files[f] # NULL}
    BY DirectoriesApart DEF Directories, Read, Names, FilesOf
  <1>3. \A f \in SnapshotFiles : Read(f) = <<files[f], inode[f]>>
    BY DirectoriesApart DEF Directories, Read
  <1> QED
    BY <1>1, <1>2, <1>3

\* A moment of a reading: the names a directory has are those of its files.
IsVersion(m) ==
    /\ DOMAIN m = Parts
    /\ \A d \in Directories : m[d] = {f \in FilesOf(d) : m[f][1] # NULL}
    /\ TypedSnapshot(Documents(m))

LEMMA FilesOfParts == \A d \in Directories : FilesOf(d) \subseteq SnapshotFiles
  BY DEF FilesOf, SnapshotFiles

LEMMA VersionsAre ==
  ASSUME TypedFiles(files)
  PROVE  IsVersion(Versions) /\ Documents(Versions) = Snapshot(files)
  <1>1. \A f \in SnapshotFiles : Versions[f][1] = files[f]
    BY Reads DEF Parts
  <1>2. Documents(Versions) = Snapshot(files)
    BY <1>1 DEF Documents, Snapshot
  <1>3. \A d \in Directories : Versions[d] = {f \in FilesOf(d) : Versions[f][1] # NULL}
    <2> SUFFICES ASSUME NEW d \in Directories
                 PROVE  Versions[d] = {f \in FilesOf(d) : Versions[f][1] # NULL}
      OBVIOUS
    <2>1. Versions[d] = {f \in FilesOf(d) : files[f] # NULL}
      BY Reads DEF Parts
    <2> QED
      BY <1>1, <2>1, FilesOfParts
  <1> QED
    BY <1>2, <1>3, Reads DEF IsVersion, TypedFiles

LEMMA VersionsFit == TypedFiles(files) => IsVersion(Versions)
  BY VersionsAre

-----------------------------------------------------------------------------
(* The phases of a reading.                                                  *)

Phases == Reading \cup Observing

IsReader(r) ==
    r = [at |-> r.at, round |-> r.round, todo |-> r.todo, got |-> r.got,
         snapshot |-> r.snapshot, limits |-> r.limits, seen |-> r.seen,
         spent |-> r.spent, stopped |-> r.stopped]
ReaderTyped == IsReader(reader)

TypedArtifacts(a) ==
    /\ DOMAIN a = Path
    /\ \A p \in Path :
          /\ a[p] = Artifact(a[p].content, a[p].inode)
          /\ a[p].content = Missing => a[p] = None

\* The history holds what there is to read now, and nothing else than what a
\* workspace may hold.
PhaseInv ==
    /\ reader.at \in Phases => Current(reader.at) \in moments
    /\ reader.at \in Reading => \A m \in moments : IsVersion(m)
    /\ reader.at \in Observing => \A m \in moments : TypedArtifacts(m)

NothingSeen == reader.at \in Reading => reader.seen = <<>>

Base ==
    /\ TypedFiles(files) /\ ReaderTyped /\ TypedArtifacts(artifacts)
    /\ PhaseInv /\ NothingSeen

\* A part that differs from one of its earlier versions does not become it
\* again.
LEMMA NoReturn ==
  ASSUME Updated, ~returned', NEW m \in moments, NEW x \in DOMAIN Current(reader.at),
         Current(reader.at)[x] # m[x]
  PROVE  Current(reader.at)'[x] # m[x]
  BY DEF Updated, ComesBack

LEMMA NowIsCurrent ==
  ASSUME NEW at
  PROVE  /\ at \in Phases => Now(at) = {Current(at)}
         /\ at \notin Phases => Now(at) = {}
         /\ at \in Reading => Current(at) = Versions
         /\ at \in Observing => Current(at) = artifacts
  BY DEF Phases, Now, Current, Reading, Observing

LEMMA NewMoments ==
  ASSUME Updated, reader.at \in Phases
  PROVE  moments' = moments \cup {Current(reader.at)'}
  BY DEF Updated, Now, Phases

LEMMA RewriteTyped ==
  ASSUME TypedArtifacts(artifacts), NEW p \in Path, NEW d \in Digest, Rewrite(p, d)
  PROVE  TypedArtifacts(artifacts')
  <1>1. PICK i : artifacts' = [q \in Path |->
                    IF q = p \/ artifacts[q].inode = i THEN Artifact(d, i) ELSE artifacts[q]]
    BY DEF Rewrite
  <1>2. d # Missing
    BY OutcomeAssumption
  <1> QED
    BY <1>1, <1>2 DEF TypedArtifacts, Artifact

LEMMA ArtifactsStay ==
  ASSUME TypedArtifacts(artifacts), Update
  PROVE  TypedArtifacts(artifacts')
  <1>1. ASSUME NEW p \in Path, ArtifactChange(p) PROVE TypedArtifacts(artifacts')
    <2>1. ASSUME NEW d \in Digest, Rewrite(p, d) PROVE TypedArtifacts(artifacts')
      BY <2>1, RewriteTyped
    <2>2. CASE Delete(p)
      BY <2>2 DEF Delete, TypedArtifacts, None, Artifact
    <2>3. ASSUME NEW q \in Path, Move(p, q) PROVE TypedArtifacts(artifacts')
      BY <2>3 DEF Move, TypedArtifacts, None, Artifact
    <2> QED
      BY <1>1, <2>1, <2>2, <2>3 DEF ArtifactChange
  <1>2. ASSUME NEW p \in Operations, Publish(p) PROVE TypedArtifacts(artifacts')
    BY <1>2 DEF Publish
  <1>3. ASSUME NEW c \in Outsiders, Tamper(c) PROVE TypedArtifacts(artifacts')
    BY <1>3 DEF Tamper
  <1> QED
    BY <1>1, <1>2, <1>3 DEF Update

LEMMA UpdateBase == ASSUME Base, Update PROVE Base'
  <1>1. Updated /\ UNCHANGED reader
    BY DEF Update, Updated
  <1>2. TypedFiles(files)' /\ ReaderTyped' /\ TypedArtifacts(artifacts)'
    BY <1>1, UpdateTyped, ArtifactsStay DEF Base, ReaderTyped
  <1>3. PhaseInv'
    <2>1. CASE reader.at \notin Phases
      BY <1>1, <2>1 DEF PhaseInv, Phases
    <2>2. CASE reader.at \in Phases
      <3>1. moments' = moments \cup {Current(reader.at)'}
        BY <1>1, <2>2, NewMoments
      <3>2. Current(reader.at)' \in moments'
        BY <3>1
      <3>3. CASE reader.at \in Reading
        <4>1. Current(reader.at)' = Versions'
          BY <1>1, <3>3 DEF Current, Reading, Observing
        <4>2. IsVersion(Versions')
          <5>1. (TypedFiles(files) => IsVersion(Versions))'
            BY VersionsFit, PTL
          <5> QED
            BY <1>2, <5>1
        <4>3. reader.at \notin Observing
          BY <3>3 DEF Reading, Observing
        <4> QED
          BY <1>1, <3>1, <3>2, <3>3, <4>1, <4>2, <4>3 DEF Base, PhaseInv
      <3>4. CASE reader.at \in Observing
        <4>1. Current(reader.at)' = artifacts'
          BY <1>1, <3>4 DEF Current
        <4>2. reader.at \notin Reading
          BY <3>4 DEF Reading, Observing
        <4> QED
          BY <1>1, <1>2, <3>1, <3>2, <3>4, <4>1, <4>2 DEF Base, PhaseInv
      <3> QED
        BY <2>2, <3>3, <3>4 DEF Phases
    <2> QED
      BY <2>1, <2>2
  <1>4. NothingSeen'
    BY <1>1 DEF Base, NothingSeen
  <1> QED
    BY <1>2, <1>3, <1>4 DEF Base

-----------------------------------------------------------------------------
(* The two passes over the documents: g is what has been captured, t what is *)
(* left to capture, or to capture again.                                     *)

\* local.json, if it was not captured, was not listed, or the names have
\* changed since.
LocalSettled(g) ==
    \/ LocalFile \in DOMAIN g
    \/ g[RootDirectory] = {}
    \/ Versions[RootDirectory] # g[RootDirectory]

\* What was captured was there at one moment or another; all that must be
\* captured is, or is left to do.
CaptureInv(g, t) ==
    /\ t \in Seq(Parts)
    /\ DOMAIN g \subseteq Parts
    /\ \A x \in DOMAIN g : \E m \in moments : m[x] = g[x]
    /\ \A x \in DOMAIN g \cap SnapshotFiles : g[x][1] # NULL
    /\ Directories \cup {JournalFile} \subseteq DOMAIN g \cup Ran(t)
    /\ \A d \in DOMAIN g \cap {WorkDirectory, KnowledgeDirectory} : g[d] \subseteq DOMAIN g \cup Ran(t)
    /\ t = FirstPass \/ (RootDirectory \in DOMAIN g /\ RootDirectory \notin Ran(t))
    /\ LocalFile \in Ran(t) \/ returned \/ LocalSettled(g)

\* The moment the second pass began, P: what it has found as it was captured
\* was so at P, and what was not so at P will be found changed.
Pivot(P, g, t) ==
    /\ \A x \in DOMAIN g :
          /\ P[x] = g[x] \/ Versions[x] # g[x]
          /\ P[x] = g[x] \/ x \in Ran(t)
    /\ LocalFile \in DOMAIN g \/ g[RootDirectory] = {} \/ P[RootDirectory] # g[RootDirectory]

SecondPassInv(g, t) ==
    /\ CaptureInv(g, <<>>)
    /\ t \in Seq(Parts) /\ t # <<>>
    /\ returned \/ \E P \in moments : Pivot(P, g, t)

ReadingInv ==
    /\ reader.at = "reading" => reader.todo # <<>> /\ CaptureInv(reader.got, reader.todo)
    /\ reader.at = "rereading" => SecondPassInv(reader.got, reader.todo)

\* What others do meanwhile.
LEMMA CapturedDiffers ==
  ASSUME Base, reader.at \in Reading, Update, ~returned', NEW x \in Parts, NEW v,
         \E m \in moments : m[x] = v, Versions[x] # v
  PROVE  Versions'[x] # v
  <1>1. Updated /\ UNCHANGED reader
    BY DEF Update, Updated
  <1>2. Current(reader.at) = Versions /\ Current(reader.at)' = Versions'
    BY <1>1 DEF Current, Reading, Observing
  <1>3. x \in DOMAIN Current(reader.at)
    BY <1>2, Reads
  <1>4. PICK m \in moments : m[x] = v
    OBVIOUS
  <1>5. Current(reader.at)[x] # m[x]
    BY <1>2, <1>4
  <1>6. Current(reader.at)'[x] # m[x]
    BY <1>1, <1>3, <1>5, NoReturn
  <1> QED
    BY <1>2, <1>4, <1>6

LEMMA CaptureStays ==
  ASSUME Base, reader.at \in Reading, Update, NEW CONSTANT g, NEW CONSTANT t, CaptureInv(g, t)
  PROVE  CaptureInv(g, t)'
  <1>1. moments \subseteq moments' /\ (returned => returned')
    BY DEF Update, Updated
  <1>2. \A x \in DOMAIN g : \E m \in moments' : m[x] = g[x]
    BY <1>1 DEF CaptureInv
  <1>3. (LocalFile \in Ran(t) \/ returned \/ LocalSettled(g))'
    <2>1. CASE LocalFile \in Ran(t) \/ returned'
      BY <2>1
    <2>2. CASE ~returned' /\ LocalFile \notin Ran(t)
      <3>1. t # FirstPass
        <4>1. LocalFile \in Ran(FirstPass)
          <5>1. FirstPass[3] = LocalFile /\ 3 \in 1..Len(FirstPass)
            BY DEF FirstPass
          <5> QED
            BY <5>1 DEF Ran
        <4> QED
          BY <2>2, <4>1
      <3>2. RootDirectory \in DOMAIN g /\ RootDirectory \in Parts /\ LocalSettled(g)
        BY <1>1, <2>2, <3>1 DEF CaptureInv, Parts, Directories
      <3>3. Versions[RootDirectory] # g[RootDirectory] =>
               Versions'[RootDirectory] # g[RootDirectory]
        BY <2>2, <3>2, CapturedDiffers DEF CaptureInv
      <3> QED
        BY <3>2, <3>3 DEF LocalSettled
    <2> QED
      BY <2>1, <2>2
  <1> QED
    BY <1>2, <1>3 DEF CaptureInv

LEMMA SecondPassStays ==
  ASSUME Base, reader.at \in Reading, Update, NEW CONSTANT g, NEW CONSTANT t, SecondPassInv(g, t)
  PROVE  SecondPassInv(g, t)'
  <1>1. CaptureInv(g, <<>>)'
    BY CaptureStays DEF SecondPassInv
  <1>2. moments \subseteq moments' /\ (returned => returned')
    BY DEF Update, Updated
  <1>3. CASE ~returned'
    <2>1. PICK P \in moments : Pivot(P, g, t)
      BY <1>2, <1>3 DEF SecondPassInv
    <2>2. ASSUME NEW x \in DOMAIN g, P[x] # g[x] PROVE Versions'[x] # g[x]
      <3>1. Versions[x] # g[x]
        BY <2>1, <2>2 DEF Pivot
      <3>2. x \in Parts /\ \E m \in moments : m[x] = g[x]
        BY DEF SecondPassInv, CaptureInv
      <3> QED
        BY <1>3, <3>1, <3>2, CapturedDiffers
    <2>3. Pivot(P, g, t)'
      BY <2>1, <2>2 DEF Pivot
    <2>4. P \in moments'
      BY <1>2
    <2> QED
      BY <1>1, <2>3, <2>4 DEF SecondPassInv
  <1> QED
    BY <1>1, <1>3 DEF SecondPassInv

LEMMA UpdateReading == ASSUME Base, ReadingInv, Update PROVE ReadingInv'
  <1>1. UNCHANGED reader
    BY DEF Update, Updated
  <1>2. PICK g, t : g = reader.got /\ t = reader.todo
    OBVIOUS
  <1>3. CASE reader.at = "reading"
    <2>1. CaptureInv(g, t)'
      BY <1>2, <1>3, CaptureStays DEF ReadingInv, Reading
    <2> QED
      BY <1>1, <1>2, <1>3, <2>1 DEF ReadingInv, CaptureInv, LocalSettled
  <1>4. CASE reader.at = "rereading"
    <2>1. SecondPassInv(g, t)'
      BY <1>2, <1>4, SecondPassStays DEF ReadingInv, Reading
    <2> QED
      BY <1>1, <1>2, <1>4, <2>1 DEF ReadingInv, SecondPassInv, CaptureInv, LocalSettled, Pivot
  <1> QED
    BY <1>1, <1>3, <1>4 DEF ReadingInv

-----------------------------------------------------------------------------
(* The reader's own steps.                                                   *)

Quiet == UNCHANGED <<files, inode, artifacts>>

LEMMA QuietSame == ASSUME Quiet PROVE Versions' = Versions /\ \A at : Current(at)' = Current(at)
  BY DEF Quiet, Versions, Read, Names, Current

\* A phase begins.
LEMMA Entered ==
  ASSUME TypedFiles(files), TypedArtifacts(artifacts), Quiet,
         NEW r, IsReader(r), NEW at, Enter(r, at), at \in Reading => r.seen = <<>>
  PROVE  /\ Base'
         /\ reader' = [r EXCEPT !.at = at] /\ reader'.at = at
         /\ reader'.todo = r.todo /\ reader'.got = r.got /\ reader'.seen = r.seen
         /\ moments' = Now(at) /\ returned' = FALSE
  <1>1. /\ reader' = [at |-> at, round |-> r.round, todo |-> r.todo, got |-> r.got,
                      snapshot |-> r.snapshot, limits |-> r.limits, seen |-> r.seen,
                      spent |-> r.spent, stopped |-> r.stopped]
        /\ reader' = [r EXCEPT !.at = at]
    BY DEF Enter, IsReader
  <1>2. moments' = Now(at) /\ returned' = FALSE
    BY DEF Enter
  <1>3. ReaderTyped' /\ reader'.at = at
    BY <1>1 DEF ReaderTyped, IsReader
  <1>4. TypedFiles(files)' /\ TypedArtifacts(artifacts)'
    BY DEF Quiet
  <1>5. Current(reader.at)' = Current(at)
    BY <1>3, QuietSame DEF Quiet, Current, Versions, Read, Names
  <1>6. PhaseInv'
    <2>1. CASE at \in Reading
      BY <1>2, <1>3, <1>5, <2>1, NowIsCurrent, VersionsAre DEF PhaseInv, Reading, Observing, Phases
    <2>2. CASE at \in Observing
      BY <1>2, <1>3, <1>5, <2>2, NowIsCurrent DEF PhaseInv, Reading, Observing, Phases
    <2> QED
      BY <1>3, <2>1, <2>2 DEF PhaseInv, Phases
  <1>7. NothingSeen'
    BY <1>1 DEF NothingSeen
  <1> QED
    BY <1>1, <1>2, <1>3, <1>4, <1>6, <1>7 DEF Base

\* A phase goes on.
LEMMA Stayed ==
  ASSUME Base, Quiet, NEW r, IsReader(r), reader' = r, UNCHANGED history,
         \/ r.at = reader.at /\ r.at \notin Reading
         \/ r.at \in Reading /\ reader.at \in Reading /\ r.seen = reader.seen
         \/ r.at \in Observing /\ reader.at \in Observing
  PROVE  Base' /\ moments' = moments /\ returned' = returned
  <1>1. moments' = moments /\ returned' = returned
    BY DEF history
  <1>2. TypedFiles(files)' /\ TypedArtifacts(artifacts)' /\ ReaderTyped'
    BY DEF Quiet, Base, ReaderTyped
  <1>3. Current(reader.at)' = Current(reader.at)
    BY QuietSame DEF Quiet, Current, Versions, Read, Names, Reading, Observing
  <1>4. PhaseInv'
    BY <1>1, <1>3 DEF Base, PhaseInv, Phases, Reading, Observing
  <1>5. NothingSeen'
    BY DEF Base, NothingSeen, Reading, Observing
  <1> QED
    BY <1>1, <1>2, <1>4, <1>5 DEF Base

LEMMA IdleIsReader == IsReader(Idle)
  BY DEF Idle, IsReader

LEMMA FirstPassIs ==
  /\ FirstPass \in Seq(Parts) /\ FirstPass # <<>>
  /\ Ran(FirstPass) = {RootDirectory, JournalFile, LocalFile, WorkDirectory, KnowledgeDirectory}
  <1>1. \A i \in 1..5 : FirstPass[i] \in Parts
    BY DEF FirstPass, Parts, SnapshotFiles, Directories
  <1>2. /\ FirstPass[1] = RootDirectory /\ FirstPass[2] = JournalFile /\ FirstPass[3] = LocalFile
        /\ FirstPass[4] = WorkDirectory /\ FirstPass[5] = KnowledgeDirectory
        /\ Len(FirstPass) = 5 /\ FirstPass # <<>>
    BY DEF FirstPass
  <1>3. FirstPass \in Seq(Parts)
    BY <1>1 DEF FirstPass
  <1> QED
    BY <1>2, <1>3 DEF Ran

LEMMA AfterRoot ==
  /\ Head(FirstPass) = RootDirectory
  /\ Ran(Tail(FirstPass)) = {JournalFile, LocalFile, WorkDirectory, KnowledgeDirectory}
  <1>1. Tail(FirstPass) = <<JournalFile, LocalFile, WorkDirectory, KnowledgeDirectory>>
    BY DEF FirstPass
  <1>2. \A a, b, c, d : Ran(<<a, b, c, d>>) = {a, b, c, d}
    <2> SUFFICES ASSUME NEW a, NEW b, NEW c, NEW d PROVE Ran(<<a, b, c, d>>) = {a, b, c, d}
      OBVIOUS
    <2>1. /\ Len(<<a, b, c, d>>) = 4 /\ <<a, b, c, d>>[1] = a /\ <<a, b, c, d>>[2] = b
          /\ <<a, b, c, d>>[3] = c /\ <<a, b, c, d>>[4] = d
      OBVIOUS
    <2>2. 1..4 = {1, 2, 3, 4}
      OBVIOUS
    <2> QED
      BY <2>1, <2>2 DEF Ran
  <1>3. Head(FirstPass) = RootDirectory
    BY DEF FirstPass
  <1>4. Ran(Tail(FirstPass)) = Ran(<<JournalFile, LocalFile, WorkDirectory, KnowledgeDirectory>>)
    BY <1>1, Zenon
  <1>5. Ran(<<JournalFile, LocalFile, WorkDirectory, KnowledgeDirectory>>) =
           {JournalFile, LocalFile, WorkDirectory, KnowledgeDirectory}
    BY <1>2, Zenon
  <1> QED
    BY <1>3, <1>4, <1>5, Zenon

\* One more captured: what it obliges the reader to capture is added to what
\* was left.
LEMMA OneMore ==
  ASSUME TypedFiles(files), Versions \in moments,
         NEW g, NEW t, CaptureInv(g, t), t # <<>>, NEW x, x = Head(t), NEW u, u = Tail(t),
         NEW s, s \in Seq(SnapshotFiles),
         x \in SnapshotFiles => files[x] # NULL,
         x \in {WorkDirectory, KnowledgeDirectory} => Read(x) \subseteq Ran(s)
  PROVE  CaptureInv(WithCapture(g, x), s \o u)
  <1> DEFINE h == WithCapture(g, x)
             r == s \o u
  <1>0. s \in Seq(Parts)
    BY DEF Parts
  <1>1. t \in Seq(Parts) /\ x \in Parts /\ u \in Seq(Parts) /\ Ran(t) = {x} \cup Ran(u)
    BY RanOfRest DEF CaptureInv
  <1>2. r \in Seq(Parts) /\ Ran(r) = Ran(s) \cup Ran(u)
    BY <1>0, <1>1, RanOfBoth
  <1>3. /\ DOMAIN h = DOMAIN g \cup {x} /\ h[x] = Versions[x] /\ h[x] = Read(x)
        /\ \A y \in DOMAIN g : y # x => h[y] = g[y]
    <2>1. Versions[x] = Read(x)
      BY <1>1, Reads
    <2>2. h = [y \in DOMAIN g \cup {x} |-> IF y = x THEN Read(x) ELSE g[y]]
      BY DEF WithCapture
    <2> HIDE DEF h
    <2> QED
      BY <2>1, <2>2
  <1> HIDE DEF h, r
  <1>4. DOMAIN h \subseteq Parts
    BY <1>1, <1>3 DEF CaptureInv
  <1>5. \A y \in DOMAIN h : \E m \in moments : m[y] = h[y]
    BY <1>3 DEF CaptureInv
  <1>6. \A y \in DOMAIN h \cap SnapshotFiles : h[y][1] # NULL
    <2>1. x \in SnapshotFiles => h[x][1] # NULL
      BY <1>3, Reads
    <2> QED
      BY <1>3, <2>1 DEF CaptureInv
  <1>7. Directories \cup {JournalFile} \subseteq DOMAIN h \cup Ran(r)
    BY <1>1, <1>2, <1>3 DEF CaptureInv
  <1>8. \A d \in DOMAIN h \cap {WorkDirectory, KnowledgeDirectory} : h[d] \subseteq DOMAIN h \cup Ran(r)
    <2> SUFFICES ASSUME NEW d \in DOMAIN h \cap {WorkDirectory, KnowledgeDirectory}
                 PROVE  h[d] \subseteq DOMAIN h \cup Ran(r)
      OBVIOUS
    <2>1. CASE d = x
      BY <1>2, <1>3, <2>1
    <2>2. CASE d # x
      <3>1. d \in DOMAIN g /\ h[d] = g[d] /\ g[d] \subseteq DOMAIN g \cup Ran(t)
        BY <1>3, <2>2 DEF CaptureInv
      <3> QED
        BY <1>1, <1>2, <1>3, <3>1
    <2> QED
      BY <2>1, <2>2
  <1>9. RootDirectory \in DOMAIN h /\ RootDirectory \notin Ran(r)
    <2>1. RootDirectory \notin Ran(s)
      BY DirectoriesApart DEF Ran, Directories
    <2>2. CASE t = FirstPass
      <3>1. x = RootDirectory /\ Ran(u) = {JournalFile, LocalFile, WorkDirectory, KnowledgeDirectory}
        BY <2>2, AfterRoot
      <3>3. RootDirectory \notin {JournalFile, LocalFile, WorkDirectory, KnowledgeDirectory}
        BY DirectoriesApart DEF Directories, SnapshotFiles
      <3> QED
        BY <1>2, <1>3, <2>1, <3>1, <3>3
    <2>3. CASE RootDirectory \in DOMAIN g /\ RootDirectory \notin Ran(t)
      BY <1>1, <1>2, <1>3, <2>1, <2>3
    <2> QED
      BY <2>2, <2>3 DEF CaptureInv
  <1>10. LocalFile \in Ran(r) \/ returned \/ LocalSettled(h)
    <2>1. CASE x = LocalFile
      BY <1>3, <2>1 DEF LocalSettled
    <2>2. CASE x # LocalFile /\ LocalFile \in Ran(t)
      BY <1>1, <1>2, <2>2
    <2>3. CASE LocalFile \notin Ran(t)
      <3>1. returned \/ LocalSettled(g)
        BY <2>3 DEF CaptureInv
      <3>2. RootDirectory \in DOMAIN g /\ x # RootDirectory
        <4>1. FirstPass[3] = LocalFile /\ 3 \in 1..Len(FirstPass)
          BY DEF FirstPass
        <4>2. t # FirstPass
          BY <2>3, <4>1 DEF Ran
        <4> QED
          BY <1>1, <4>2 DEF CaptureInv
      <3> QED
        BY <1>3, <3>1, <3>2 DEF LocalSettled
    <2> QED
      BY <2>1, <2>2, <2>3
  <1> QED
    BY <1>2, <1>4, <1>5, <1>6, <1>7, <1>8, <1>9, <1>10 DEF CaptureInv, h, r

\* local.json may be listed and gone.
LEMMA NoLocalFile ==
  ASSUME TypedFiles(files), \A m \in moments : IsVersion(m),
         NEW g, NEW t, CaptureInv(g, t), t # <<>>, Head(t) = LocalFile, NEW u, u = Tail(t),
         files[LocalFile] = NULL
  PROVE  CaptureInv(g, u)
  <1>1. u \in Seq(Parts) /\ Ran(t) = {LocalFile} \cup Ran(u)
    BY RanOfRest DEF CaptureInv
  <1>2. LocalFile \notin Directories \cup {JournalFile} /\ LocalFile # RootDirectory
    BY DirectoriesApart DEF SnapshotFiles, Directories
  <1>3. t # FirstPass
    BY <1>2, AfterRoot
  <1>4. \A d \in DOMAIN g \cap {WorkDirectory, KnowledgeDirectory} : g[d] \subseteq DOMAIN g \cup Ran(u)
    <2> SUFFICES ASSUME NEW d \in DOMAIN g \cap {WorkDirectory, KnowledgeDirectory}
                 PROVE  g[d] \subseteq DOMAIN g \cup Ran(u)
      OBVIOUS
    <2>1. PICK m \in moments : m[d] = g[d]
      BY DEF CaptureInv
    <2>2. d \in Directories /\ m[d] \subseteq FilesOf(d)
      BY DEF IsVersion, Directories
    <2>3. LocalFile \notin FilesOf(d)
      BY DirectoriesApart DEF FilesOf
    <2>4. g[d] \subseteq DOMAIN g \cup Ran(t)
      BY DEF CaptureInv
    <2> QED
      BY <1>1, <2>1, <2>2, <2>3, <2>4
  <1>5. LocalSettled(g)
    <2>1. Versions[RootDirectory] = {}
      BY Reads DEF Directories, FilesOf, Parts
    <2> QED
      BY <2>1 DEF LocalSettled
  <1> QED
    BY <1>1, <1>2, <1>3, <1>4, <1>5 DEF CaptureInv

LEMMA PartsFinite == IsFiniteSet(Parts)
  <1>1. IsFiniteSet(WorkFiles)
    <2>1. DEFINE s == [w \in WorkId |-> WorkFile(w)]
    <2>2. s \in Surjection(WorkId, WorkFiles)
      BY DEF Surjection, WorkFiles
    <2> QED
      BY <2>2, FS_Surjection, InspectionAssumption
  <1>2. IsFiniteSet(KnowledgeFiles)
    <2>1. DEFINE s == [k \in KnowledgeId |-> KnowledgeFile(k)]
    <2>2. s \in Surjection(KnowledgeId, KnowledgeFiles)
      BY DEF Surjection, KnowledgeFiles
    <2> QED
      BY <2>2, FS_Surjection, InspectionAssumption
  <1>3. IsFiniteSet({JournalFile, LocalFile}) /\ IsFiniteSet(Directories)
    <2>1. IsFiniteSet({JournalFile} \cup {LocalFile})
      BY FS_Singleton, FS_Union
    <2>2. IsFiniteSet({RootDirectory} \cup {WorkDirectory})
      BY FS_Singleton, FS_Union
    <2>3. IsFiniteSet(({RootDirectory} \cup {WorkDirectory}) \cup {KnowledgeDirectory})
      BY <2>2, FS_Singleton, FS_Union
    <2>4. /\ {JournalFile} \cup {LocalFile} = {JournalFile, LocalFile}
          /\ ({RootDirectory} \cup {WorkDirectory}) \cup {KnowledgeDirectory} = Directories
      BY DEF Directories
    <2> QED
      BY <2>1, <2>3, <2>4
  <1>4. IsFiniteSet(WorkFiles \cup KnowledgeFiles)
    BY <1>1, <1>2, FS_Union
  <1>5. IsFiniteSet(SnapshotFiles)
    BY <1>3, <1>4, FS_Union DEF SnapshotFiles
  <1> QED
    BY <1>3, <1>5, FS_Union DEF Parts

\* The second pass covers everything that was captured.
LEMMA SecondPassBegins ==
  ASSUME Versions \in moments, NEW g, CaptureInv(g, <<>>), NEW t, t = SecondPass(g)
  PROVE  SecondPassInv(g, t)
  <1>1. PICK a : a = InOrder(DOMAIN g \ Directories)
    OBVIOUS
  <1>2. PICK b : b = <<RootDirectory, WorkDirectory, KnowledgeDirectory>>
    OBVIOUS
  <1>3. a \in Seq(Parts) /\ Ran(a) = DOMAIN g \ Directories
    <2>1. DOMAIN g \ Directories \in SUBSET Parts
      BY DEF CaptureInv
    <2>2. IsFiniteSet(DOMAIN g \ Directories)
      BY <2>1, PartsFinite, FS_Subset
    <2>3. InOrder(DOMAIN g \ Directories) \in Seq(DOMAIN g \ Directories)
      BY <2>2, Ordered
    <2>4. Ran(InOrder(DOMAIN g \ Directories)) = DOMAIN g \ Directories
      BY <2>2, Ordered
    <2>5. a \in Seq(Parts)
      BY <1>1, <2>1, <2>3
    <2> QED
      BY <1>1, <2>4, <2>5
  <1>4. b \in Seq(Parts) /\ Ran(b) = Directories /\ b # <<>>
    <2>1. \A x, y, z : Ran(<<x, y, z>>) = {x, y, z}
      <3> SUFFICES ASSUME NEW x, NEW y, NEW z PROVE Ran(<<x, y, z>>) = {x, y, z}
        OBVIOUS
      <3>1. /\ Len(<<x, y, z>>) = 3 /\ <<x, y, z>>[1] = x /\ <<x, y, z>>[2] = y
            /\ <<x, y, z>>[3] = z
        OBVIOUS
      <3>2. 1..3 = {1, 2, 3}
        OBVIOUS
      <3> QED
        BY <3>1, <3>2 DEF Ran
    <2>2. Ran(b) = Directories
      BY <1>2, <2>1, Zenon DEF Directories
    <2> QED
      BY <1>2, <2>2 DEF Parts, Directories
  <1>5. t \in Seq(Parts) /\ Ran(t) = Ran(a) \cup Ran(b)
    <2>1. a \o b \in Seq(Parts) /\ Ran(a \o b) = Ran(a) \cup Ran(b)
      BY <1>3, <1>4, RanOfBoth
    <2>2. t = a \o b
      BY <1>1, <1>2 DEF SecondPass
    <2> QED
      BY <2>1, <2>2
  <1>6. t # <<>>
    BY <1>4, <1>5, RanOfEmpty DEF Directories
  <1>7. DOMAIN g \subseteq Ran(t)
    BY <1>3, <1>4, <1>5
  <1>8. returned \/ Pivot(Versions, g, t)
    BY <1>7, RanOfEmpty DEF Pivot, CaptureInv, LocalSettled
  <1> QED
    BY <1>5, <1>6, <1>8 DEF SecondPassInv

LEMMA FailStep ==
  ASSUME Base, Quiet, NEW v, v \notin Phases, Enter(Idle, v)
  PROVE  Base' /\ ReadingInv' /\ reader'.at \notin Observing
  <1>1. Base' /\ reader'.at = v
    BY Entered, IdleIsReader DEF Base, Phases
  <1> QED
    BY <1>1 DEF ReadingInv, Phases, Reading

LEMMA BeginStep ==
  ASSUME Base, Quiet, NEW r, IsReader(r), DOMAIN r.got = {}, r.todo = FirstPass,
         r.seen = <<>>,
         Enter(r, "reading")
  PROVE  Base' /\ ReadingInv' /\ reader'.at \notin Observing
  <1>1. /\ Base' /\ reader'.at = "reading" /\ reader'.todo = FirstPass /\ reader'.got = r.got
    BY Entered DEF Base
  <1>2. PICK g : g = r.got
    OBVIOUS
  <1>3. DOMAIN g = {}
    BY <1>2
  <1>4. CaptureInv(g, FirstPass)'
    BY <1>3, FirstPassIs DEF CaptureInv, Directories
  <1> QED
    BY <1>1, <1>2, <1>4, FirstPassIs DEF ReadingInv, CaptureInv, LocalSettled, Observing

LEMMA CompleteStep ==
  ASSUME Base, Quiet, reader.at = "reading", NEW CONSTANT g, NEW CONSTANT t,
         CaptureInv(g, t), Complete(g, t)
  PROVE  Base' /\ ReadingInv' /\ reader'.at \notin Observing
  <1>1. ReaderTyped /\ Versions \in moments
    BY NowIsCurrent DEF Base, PhaseInv, Reading, Phases
  <1>2. CASE t # <<>>
    <2>1. PICK r : r = [reader EXCEPT !.got = g, !.todo = t]
      OBVIOUS
    <2>2. IsReader(r) /\ r.at = reader.at /\ r.got = g /\ r.todo = t /\ r.seen = reader.seen
      BY <1>1, <2>1 DEF ReaderTyped, IsReader
    <2>3. reader' = r /\ UNCHANGED history
      BY <1>2, <2>1 DEF Complete, Stay
    <2>4. Base' /\ moments' = moments /\ returned' = returned
      BY <2>2, <2>3, Stayed DEF Reading
    <2>5. CaptureInv(g, t)'
      BY <2>4, QuietSame DEF CaptureInv, LocalSettled
    <2> QED
      BY <1>2, <2>2, <2>3, <2>4, <2>5 DEF ReadingInv, CaptureInv, LocalSettled, Observing
  <1>3. CASE t = <<>> /\ SnapshotAccepts(Assembled(g))
    <2>1. PICK u : u = SecondPass(g)
      OBVIOUS
    <2>2. PICK r : r = [reader EXCEPT !.at = "rereading", !.got = g, !.todo = u]
      OBVIOUS
    <2>3. IsReader(r) /\ r.at = "rereading" /\ r.got = g /\ r.todo = u /\ r.seen = reader.seen
      BY <1>1, <2>2 DEF ReaderTyped, IsReader
    <2>4. reader' = r /\ UNCHANGED history
      BY <1>3, <2>1, <2>2 DEF Complete
    <2>5. Base' /\ moments' = moments /\ returned' = returned
      BY <2>3, <2>4, Stayed DEF Reading
    <2>6. SecondPassInv(g, u)
      BY <1>1, <1>3, <2>1, SecondPassBegins
    <2>7. SecondPassInv(g, u)'
      BY <2>5, <2>6, QuietSame DEF SecondPassInv, Pivot, CaptureInv, LocalSettled
    <2> QED
      BY <2>3, <2>4, <2>5, <2>7
         DEF ReadingInv, SecondPassInv, Pivot, CaptureInv, LocalSettled, Observing
  <1>4. CASE t = <<>> /\ ~SnapshotAccepts(Assembled(g))
    <2>1. Enter(Idle, IF reader.round = 2 THEN "raced" ELSE "invalid")
      BY <1>4 DEF Complete, Fail
    <2> QED
      BY <2>1, FailStep DEF Phases, Reading, Observing
  <1> QED
    BY <1>2, <1>3, <1>4

LEMMA CaptureStep ==
  ASSUME Base, ReadingInv, Quiet, CaptureNext
  PROVE  Base' /\ ReadingInv' /\ reader'.at \notin Observing
  <1>1. PICK g, t, x, u : g = reader.got /\ t = reader.todo /\ x = Head(t) /\ u = Tail(t)
    OBVIOUS
  <1>2. /\ reader.at = "reading" /\ TypedFiles(files)
        /\ t # <<>> /\ CaptureInv(g, t) /\ t \in Seq(Parts)
        /\ Versions \in moments /\ \A m \in moments : IsVersion(m)
    BY <1>1, NowIsCurrent
       DEF CaptureNext, ReadingInv, CaptureInv, Base, PhaseInv, Reading, Phases
  <1>3. x \in Parts /\ u \in Seq(Parts)
    BY <1>1, <1>2, RanOfRest
  <1>4. \A v \in {"invalid", "duplicate"} : Fail(v) => Base' /\ ReadingInv' /\ reader'.at \notin Observing
    <2> SUFFICES ASSUME NEW v \in {"invalid", "duplicate"}, Fail(v) PROVE Base' /\ ReadingInv' /\ reader'.at \notin Observing
      OBVIOUS
    <2>1. PICK w : w = IF reader.round = 2 THEN "raced" ELSE v
      OBVIOUS
    <2>2. w \notin Phases /\ Enter(Idle, w)
      BY <2>1 DEF Fail, Phases, Reading, Observing
    <2> QED
      BY <2>2, FailStep
  <1>5. PICK h : h = WithCapture(g, x)
    OBVIOUS
  <1>6. ASSUME x \in SnapshotFiles => files[x] # NULL, x \notin {WorkDirectory, KnowledgeDirectory},
               Complete(h, u)
        PROVE  Base' /\ ReadingInv' /\ reader'.at \notin Observing
    <2>1. <<>> \in Seq(SnapshotFiles) /\ <<>> \o u = u
      BY <1>3
    <2>2. CaptureInv(WithCapture(g, x), <<>> \o u)
      BY <1>1, <1>2, <1>6, <2>1, OneMore
    <2>3. CaptureInv(h, u)
      BY <1>5, <2>1, <2>2
    <2> QED
      BY <1>2, <1>6, <2>3, CompleteStep
  <1>7. CASE x = RootDirectory
    <2>1. Complete(h, u)
      BY <1>1, <1>5, <1>7 DEF CaptureNext
    <2> QED
      BY <1>6, <1>7, <2>1, DirectoriesApart DEF Directories
  <1>8. CASE x \in {WorkDirectory, KnowledgeDirectory}
    <2>1. PICK s : s = InOrder(Read(x))
      OBVIOUS
    <2>2. Fail("invalid") \/ Complete(h, s \o u)
      BY <1>1, <1>5, <1>8, <2>1, DirectoriesApart DEF CaptureNext, Directories
    <2>3. s \in Seq(SnapshotFiles) /\ Read(x) \subseteq Ran(s)
      <3>1. Read(x) \in SUBSET SnapshotFiles
        BY <1>8, Reads, FilesOfParts DEF Directories
      <3>2. IsFiniteSet(Read(x))
        <4>1. Read(x) \in SUBSET Parts
          BY <3>1 DEF Parts
        <4> QED
          BY <4>1, PartsFinite, FS_Subset
      <3>3. InOrder(Read(x)) \in Seq(Read(x)) /\ Ran(InOrder(Read(x))) = Read(x)
        BY <3>2, Ordered
      <3> QED
        BY <2>1, <3>1, <3>3
    <2>4. CASE Complete(h, s \o u)
      <3>1. CaptureInv(WithCapture(g, x), s \o u)
        BY <1>1, <1>2, <1>8, <2>3, OneMore, DirectoriesApart DEF Directories
      <3>2. PICK r : r = s \o u
        OBVIOUS
      <3>3. CaptureInv(h, r) /\ Complete(h, r)
        BY <1>5, <2>4, <3>1, <3>2
      <3> QED
        BY <1>2, <3>3, CompleteStep
    <2> QED
      BY <1>4, <2>2, <2>4
  <1>9. CASE x \notin Directories
    <2>1. x \in SnapshotFiles
      BY <1>3, <1>9 DEF Parts
    <2>2. CASE files[x] = NULL /\ x = LocalFile
      <3>1. Complete(g, u)
        BY <1>1, <1>9, <2>2 DEF CaptureNext, Directories
      <3>2. CaptureInv(g, u)
        BY <1>1, <1>2, <2>2, NoLocalFile
      <3> QED
        BY <1>2, <3>1, <3>2, CompleteStep
    <2>3. CASE files[x] # NULL \/ x # LocalFile
      <3>1. \/ Fail("invalid") \/ Fail("duplicate")
            \/ files[x] # NULL /\ Complete(h, u)
        BY <1>1, <1>5, <1>9, <2>3 DEF CaptureNext, Directories
      <3> QED
        BY <1>4, <1>6, <1>9, <3>1 DEF Directories
    <2> QED
      BY <2>2, <2>3
  <1> QED
    BY <1>7, <1>8, <1>9 DEF Directories

\* What the last comparison concludes.
LEMMA LastComparison ==
  ASSUME Base, ReadingInv, reader.at = "rereading",
         Read(Head(reader.todo)) = reader.got[Head(reader.todo)],
         Tail(reader.todo) = <<>>, ~returned
  PROVE  \E m \in moments : Assembled(reader.got) = Documents(m)
  <1>1. PICK g, t, x : g = reader.got /\ t = reader.todo /\ x = Head(t)
    OBVIOUS
  <1>2. SecondPassInv(g, t) /\ t \in Seq(Parts) /\ t # <<>> /\ CaptureInv(g, <<>>)
    BY <1>1 DEF ReadingInv, SecondPassInv
  <1>3. x \in Parts /\ Ran(t) = {x}
    <2>1. x \in Parts /\ Ran(t) = {x} \cup Ran(Tail(t)) /\ Tail(t) = <<>>
      BY <1>1, <1>2, RanOfRest
    <2>2. Ran(Tail(t)) = {}
      BY <2>1, RanOfEmpty, Zenon
    <2> QED
      BY <2>1, <2>2
  <1>4. Versions[x] = g[x]
    BY <1>1, <1>3, Reads
  <1>5. PICK P \in moments : Pivot(P, g, t)
    BY <1>2 DEF SecondPassInv
  <1>6. \A y \in DOMAIN g : P[y] = g[y]
    BY <1>3, <1>4, <1>5 DEF Pivot
  <1>7. IsVersion(P)
    BY DEF Base, PhaseInv, Reading
  <1>8. Directories \cup {JournalFile} \subseteq DOMAIN g
    BY <1>2, RanOfEmpty DEF CaptureInv
  <1>9. \A f \in SnapshotFiles : Assembled(g)[f] = P[f][1]
    <2> SUFFICES ASSUME NEW f \in SnapshotFiles PROVE Assembled(g)[f] = P[f][1]
      OBVIOUS
    <2>1. CASE f \in DOMAIN g
      BY <1>6, <2>1 DEF Assembled
    <2>2. CASE f \notin DOMAIN g
      <3>1. Assembled(g)[f] = NULL
        BY <2>2 DEF Assembled
      <3>2. ASSUME NEW d \in {WorkDirectory, KnowledgeDirectory}, f \in FilesOf(d)
            PROVE  P[f][1] = NULL
        <4>1. d \in DOMAIN g /\ d \in Directories
          BY <1>8 DEF Directories
        <4>2. g[d] \subseteq DOMAIN g
          BY <1>2, <4>1, RanOfEmpty DEF CaptureInv
        <4>3. P[d] = {y \in FilesOf(d) : P[y][1] # NULL} /\ P[d] = g[d]
          BY <1>6, <1>7, <4>1 DEF IsVersion
        <4> QED
          BY <2>2, <3>2, <4>2, <4>3
      <3>3. CASE f = LocalFile
        <4>1. P[RootDirectory] = g[RootDirectory]
          BY <1>6, <1>8 DEF Directories
        <4>2. g[RootDirectory] = {}
          BY <1>5, <2>2, <3>3, <4>1 DEF Pivot
        <4>3. P[RootDirectory] = {y \in {LocalFile} : P[y][1] # NULL}
          BY <1>7 DEF IsVersion, Directories, FilesOf
        <4> QED
          BY <3>1, <3>3, <4>1, <4>2, <4>3
      <3>4. FilesOf(WorkDirectory) = WorkFiles /\ FilesOf(KnowledgeDirectory) = KnowledgeFiles
        BY DirectoriesApart DEF FilesOf
      <3>5. f \in FilesOf(WorkDirectory) \/ f \in FilesOf(KnowledgeDirectory) \/ f = LocalFile
        BY <1>8, <2>2, <3>4, DirectoriesApart
      <3> QED
        BY <3>1, <3>2, <3>3, <3>5
    <2> QED
      BY <2>1, <2>2
  <1>10. Assembled(g) = Documents(P)
    BY <1>9 DEF Assembled, Documents
  <1> QED
    BY <1>1, <1>10

LEMMA RecaptureStep ==
  ASSUME Base, ReadingInv, Quiet, Recapture
  PROVE  Base' /\ ReadingInv'
  <1>1. PICK g, t, x, u : g = reader.got /\ t = reader.todo /\ x = Head(t) /\ u = Tail(t)
    OBVIOUS
  <1>2. reader.at = "rereading" /\ SecondPassInv(g, t) /\ t \in Seq(Parts) /\ t # <<>>
    BY <1>1 DEF Recapture, ReadingInv, SecondPassInv
  <1>3. x \in Parts /\ u \in Seq(Parts) /\ Ran(t) = {x} \cup Ran(u)
    BY <1>1, <1>2, RanOfRest
  <1>4. CASE Fail("raced") \/ Enter(Idle, "done")
    <2>1. Enter(Idle, "raced") \/ Enter(Idle, "done")
      BY <1>4 DEF Fail
    <2> QED
      BY <2>1, FailStep DEF Phases, Reading, Observing
  <1>5. CASE Read(x) = g[x] /\ u # <<>> /\ Stay([reader EXCEPT !.todo = Tail(@)])
    <2>1. PICK r : r = [reader EXCEPT !.todo = u]
      OBVIOUS
    <2>2. IsReader(r) /\ r.at = "rereading" /\ r.got = g /\ r.todo = u /\ r.seen = reader.seen
      BY <1>1, <1>2, <2>1 DEF Base, ReaderTyped, IsReader
    <2>3. reader' = r /\ UNCHANGED history
      BY <1>1, <1>5, <2>1 DEF Stay
    <2>4. Base' /\ moments' = moments /\ returned' = returned
      BY <1>2, <2>2, <2>3, Stayed DEF Reading
    <2>5. SecondPassInv(g, u)
      <3>1. ASSUME NEW P \in moments, Pivot(P, g, t) PROVE Pivot(P, g, u)
        <4>1. Versions[x] = g[x]
          BY <1>3, <1>5, Reads
        <4> QED
          BY <1>3, <3>1, <4>1 DEF Pivot
      <3> QED
        BY <1>2, <1>3, <1>5, <3>1 DEF SecondPassInv
    <2>6. SecondPassInv(g, u)'
      BY <2>4, <2>5, QuietSame DEF SecondPassInv, Pivot, CaptureInv, LocalSettled
    <2>7. reader'.at = "rereading" /\ reader'.got = g /\ reader'.todo = u
      BY <2>2, <2>3
    <2>8. SecondPassInv(reader.got, reader.todo)'
      BY <2>6, <2>7 DEF SecondPassInv, Pivot, CaptureInv, LocalSettled
    <2> QED
      BY <2>4, <2>7, <2>8 DEF ReadingInv
  <1>6. ASSUME NEW l \in Limits,
               Enter([reader EXCEPT !.snapshot = Assembled(reader.got), !.got = <<>>,
                      !.limits = l, !.todo = Admitted(Assembled(reader.got), l.paths)],
                     "observing")
        PROVE  Base' /\ ReadingInv'
    <2>1. PICK r : r = [reader EXCEPT !.snapshot = Assembled(reader.got), !.got = <<>>,
                      !.limits = l, !.todo = Admitted(Assembled(reader.got), l.paths)]
      OBVIOUS
    <2>2. IsReader(r)
      BY <2>1 DEF Base, ReaderTyped, IsReader
    <2>3. Base' /\ reader'.at = "observing"
      BY <1>6, <2>1, <2>2, Entered DEF Base, Reading
    <2> QED
      BY <2>3 DEF ReadingInv
  <1> QED
    BY <1>1, <1>4, <1>5, <1>6 DEF Recapture

-----------------------------------------------------------------------------
(* The two passes over the artifacts: v is what has been seen, t what is     *)
(* left to see, or to see again.                                             *)

SeenAs(o) == IF o.outcome = Missing THEN None ELSE Artifact(o.outcome, o.inode)

\* What an artifact was seen to be, it was at one moment or another.
SeenInv(v, t) ==
    /\ t \in Seq(Path)
    /\ DOMAIN v \subseteq Path
    /\ \A p \in DOMAIN v : v[p].outcome # Unknown => \E m \in moments : m[p] = SeenAs(v[p])

\* The moment the second pass began, P, as for the documents.
SeenPivot(P, v, t) ==
    \A p \in DOMAIN v : v[p].outcome # Unknown =>
        /\ P[p] = SeenAs(v[p]) \/ artifacts[p] # SeenAs(v[p])
        /\ P[p] = SeenAs(v[p]) \/ p \in Ran(t)

SeenAgainInv(v, t) ==
    /\ SeenInv(v, t)
    /\ returned \/ \E P \in moments : SeenPivot(P, v, t)

ObservingInv ==
    /\ reader.at = "observing" => SeenInv(reader.seen, reader.todo)
    /\ reader.at = "reobserving" => SeenAgainInv(reader.seen, reader.todo)

LEMMA SeenDiffers ==
  ASSUME Base, reader.at \in Observing, Update, ~returned', NEW p \in Path, NEW o,
         \E m \in moments : m[p] = o, artifacts[p] # o
  PROVE  artifacts'[p] # o
  <1>1. Updated /\ UNCHANGED reader
    BY DEF Update, Updated
  <1>2. Current(reader.at) = artifacts /\ Current(reader.at)' = artifacts'
    BY <1>1 DEF Current
  <1>3. p \in DOMAIN Current(reader.at)
    BY <1>2 DEF Base, TypedArtifacts
  <1>4. PICK m \in moments : m[p] = o
    OBVIOUS
  <1>5. Current(reader.at)[p] # m[p]
    BY <1>2, <1>4
  <1>6. Current(reader.at)'[p] # m[p]
    BY <1>1, <1>3, <1>5, NoReturn
  <1> QED
    BY <1>2, <1>4, <1>6

LEMMA SeenStays ==
  ASSUME Base, reader.at \in Observing, Update, NEW CONSTANT v, NEW CONSTANT t, SeenInv(v, t)
  PROVE  SeenInv(v, t)' /\ (SeenAgainInv(v, t) => SeenAgainInv(v, t)')
  <1>1. moments \subseteq moments' /\ (returned => returned')
    BY DEF Update, Updated
  <1>2. SeenInv(v, t)'
    BY <1>1 DEF SeenInv
  <1>3. CASE SeenAgainInv(v, t) /\ ~returned'
    <2>1. PICK P \in moments : SeenPivot(P, v, t)
      BY <1>1, <1>3 DEF SeenAgainInv
    <2>2. ASSUME NEW p \in DOMAIN v, v[p].outcome # Unknown, P[p] # SeenAs(v[p])
          PROVE  artifacts'[p] # SeenAs(v[p])
      <3>1. artifacts[p] # SeenAs(v[p])
        BY <2>1, <2>2 DEF SeenPivot
      <3>2. p \in Path /\ \E m \in moments : m[p] = SeenAs(v[p])
        BY <2>2 DEF SeenInv
      <3> QED
        BY <1>3, <3>1, <3>2, SeenDiffers
    <2>3. SeenPivot(P, v, t)' /\ P \in moments'
      BY <1>1, <2>1, <2>2 DEF SeenPivot
    <2> QED
      BY <1>2, <2>3 DEF SeenAgainInv
  <1> QED
    BY <1>2, <1>3 DEF SeenAgainInv

LEMMA UpdateObserving == ASSUME Base, ObservingInv, Update PROVE ObservingInv'
  <1>1. UNCHANGED reader
    BY DEF Update, Updated
  <1>2. PICK v, t : v = reader.seen /\ t = reader.todo
    OBVIOUS
  <1>3. CASE reader.at = "observing"
    <2>1. SeenInv(v, t)'
      BY <1>2, <1>3, SeenStays DEF ObservingInv, Observing
    <2> QED
      BY <1>1, <1>2, <1>3, <2>1 DEF ObservingInv, SeenInv
  <1>4. CASE reader.at = "reobserving"
    <2>1. SeenAgainInv(v, t)'
      BY <1>2, <1>4, SeenStays DEF ObservingInv, Observing, SeenAgainInv
    <2> QED
      BY <1>1, <1>2, <1>4, <2>1 DEF ObservingInv, SeenAgainInv, SeenInv, SeenPivot
  <1> QED
    BY <1>1, <1>3, <1>4 DEF ObservingInv

\* What a snapshot of typed documents cites are paths.
LEMMA AdmittedPaths ==
  ASSUME NEW s, Journal(s) \in Seq(Checkpoint), NEW l \in Limits
  PROVE  Admitted(s, l.paths) \in Seq(Path)
  <1>1. CitedPaths(s) \in SUBSET Path
    <2> SUFFICES ASSUME NEW i \in 1..Len(Journal(s))
                 PROVE  DOMAIN Recorded(Journal(s)[i]).references \subseteq Path
      BY DEF CitedPaths
    <2>1. Journal(s)[i] \in Checkpoint
      OBVIOUS
    <2>2. Journal(s)[i].checkpoint_id \in CheckpointId
      BY <2>1 DEF Checkpoint
    <2> QED
      BY <2>2, ContentAssumption DEF Recorded
  <1>2. IsFiniteSet(CitedPaths(s))
    BY <1>1, FS_Subset, InspectionAssumption
  <1>3. PICK q : q = InOrder(CitedPaths(s))
    OBVIOUS
  <1>4. q \in Seq(Path)
    <2>1. InOrder(CitedPaths(s)) \in Seq(CitedPaths(s))
      BY <1>2, Ordered
    <2> QED
      BY <1>1, <1>3, <2>1
  <1>5. PICK n : n = IF l.paths < Len(q) THEN l.paths ELSE Len(q)
    OBVIOUS
  <1>6. n \in 0..Len(q)
    BY <1>4, <1>5, InspectionAssumption
  <1>7. SubSeq(q, 1, n) \in Seq(Path)
    <2>1. /\ SubSeq(q, 1, n) = [i \in 1..n |-> q[i]] /\ n \in Nat
          /\ \A i \in 1..n : q[i] \in Path
      BY <1>4, <1>6
    <2> QED
      BY <2>1
  <1> QED
    BY <1>3, <1>5, <1>7 DEF Admitted

LEMMA CapturedJournal ==
  ASSUME Base, reader.at \in Reading, NEW g, CaptureInv(g, <<>>)
  PROVE  Journal(Assembled(g)) \in Seq(Checkpoint)
  <1>1. JournalFile \in DOMAIN g /\ JournalFile \in SnapshotFiles
    BY RanOfEmpty DEF CaptureInv, SnapshotFiles
  <1>2. PICK m \in moments : m[JournalFile] = g[JournalFile]
    BY <1>1 DEF CaptureInv
  <1>3. Documents(m)[JournalFile] \in Seq(Checkpoint)
    BY DEF Base, PhaseInv, IsVersion, TypedSnapshot
  <1>4. Documents(m)[JournalFile] = g[JournalFile][1]
    BY <1>1, <1>2 DEF Documents
  <1>5. Assembled(g)[JournalFile] = g[JournalFile][1]
    BY <1>1 DEF Assembled
  <1> QED
    BY <1>3, <1>4, <1>5 DEF Journal

LEMMA RecaptureObserves ==
  ASSUME Base, ReadingInv, Quiet, Recapture
  PROVE  ObservingInv'
  <1>1. reader.at = "rereading" /\ reader.at \in Reading /\ CaptureInv(reader.got, <<>>)
    BY DEF Recapture, ReadingInv, SecondPassInv, Reading
  <1>2. reader.seen = <<>> /\ IsReader(reader)
    BY <1>1 DEF Base, NothingSeen, ReaderTyped
  <1>3. CASE Enter(Idle, "raced") \/ Enter(Idle, "done")
    <2>1. reader'.at = "raced" \/ reader'.at = "done"
      BY <1>3 DEF Enter, Idle
    <2> QED
      BY <2>1 DEF ObservingInv
  <1>4. CASE Stay([reader EXCEPT !.todo = Tail(@)])
    <2>1. reader'.at = "rereading"
      BY <1>1, <1>2, <1>4 DEF Stay, IsReader
    <2> QED
      BY <2>1 DEF ObservingInv
  <1>5. ASSUME NEW l \in Limits,
               Enter([reader EXCEPT !.snapshot = Assembled(reader.got), !.got = <<>>,
                      !.limits = l, !.todo = Admitted(Assembled(reader.got), l.paths)],
                     "observing")
        PROVE  ObservingInv'
    <2>1. PICK q : q = Admitted(Assembled(reader.got), l.paths)
      OBVIOUS
    <2>2. q \in Seq(Path)
      <3>1. Journal(Assembled(reader.got)) \in Seq(Checkpoint)
        BY <1>1, CapturedJournal
      <3> QED
        BY <2>1, <3>1, AdmittedPaths
    <2>3. reader'.at = "observing" /\ reader'.todo = q /\ reader'.seen = <<>>
      BY <1>2, <1>5, <2>1 DEF Enter, IsReader
    <2> QED
      BY <2>2, <2>3 DEF ObservingInv, SeenInv
  <1> QED
    BY <1>3, <1>4, <1>5 DEF Recapture, Fail

\* One artifact is seen: as it is, or its content is not known.
LEMMA ObserveShape ==
  ASSUME Base, ObservingInv, Observe
  PROVE  /\ reader.todo \in Seq(Path) /\ reader.todo # <<>>
         /\ reader'.at = "observing" /\ IsReader(reader') /\ UNCHANGED history
         /\ reader'.todo = Tail(reader.todo)
         /\ \E S \in SUBSET Path : \E o, i :
               /\ reader'.seen = Saw(S, o, i)
               /\ \/ o = Unknown
                  \/ S = {Head(reader.todo)} /\
                     artifacts[Head(reader.todo)] = SeenAs([outcome |-> o, inode |-> i])
  <1>1. /\ reader.at = "observing" /\ reader.todo # <<>> /\ IsReader(reader)
        /\ SeenInv(reader.seen, reader.todo) /\ reader.todo \in Seq(Path)
    BY DEF Observe, ObservingInv, Base, ReaderTyped, SeenInv
  <1>2. PICK p, a, u : p = Head(reader.todo) /\ a = artifacts[p] /\ u = Tail(reader.todo)
    OBVIOUS
  <1>3. p \in Path /\ a = Artifact(a.content, a.inode) /\ (a.content = Missing => a = None)
    BY <1>1, <1>2 DEF Base, TypedArtifacts
  <1>4. ASSUME NEW S \in SUBSET Path, NEW o, NEW i, reader'.seen = Saw(S, o, i),
               o = Unknown \/ (S = {p} /\ a = SeenAs([outcome |-> o, inode |-> i]))
        PROVE  \E T \in SUBSET Path : \E x, y :
                  /\ reader'.seen = Saw(T, x, y)
                  /\ x = Unknown \/ (T = {p} /\ a = SeenAs([outcome |-> x, inode |-> y]))
    BY <1>4
  <1>5. /\ Aliases(p) \in SUBSET Path
        /\ {p} \in SUBSET Path /\ {p} \cup Aliases(p) \in SUBSET Path
    BY <1>1, <1>3 DEF Aliases, SeenInv
  <1>6. \/ \E b : Stay([[reader EXCEPT !.todo = Tail(@)] EXCEPT
                           !.seen = Saw({p}, Unknown, 0), !.stopped = b])
        \/ /\ a.content = Missing
           /\ Stay([[reader EXCEPT !.todo = Tail(@)] EXCEPT !.seen = Saw({p}, Missing, 0)])
        \/ Stay([[reader EXCEPT !.todo = Tail(@)] EXCEPT
                    !.seen = Saw({p} \cup Aliases(p), Unknown, a.inode),
                    !.spent = @ + Size[a.content]])
        \/ /\ a.content # Missing
           /\ Stay([[reader EXCEPT !.todo = Tail(@)] EXCEPT
                    !.seen = Saw({p}, a.content, a.inode),
                    !.spent = @ + Size[a.content]])
    BY <1>2 DEF Observe
  <1>7. a.content = Missing => a = SeenAs([outcome |-> Missing, inode |-> 0])
    BY <1>3 DEF SeenAs
  <1>8. a.content # Missing => a = SeenAs([outcome |-> a.content, inode |-> a.inode])
    BY <1>3 DEF SeenAs
  <1> DEFINE Moved == /\ reader'.at = "observing" /\ IsReader(reader') /\ UNCHANGED history
                      /\ reader'.todo = Tail(reader.todo)
             Seen == \E T \in SUBSET Path : \E x, y :
                        /\ reader'.seen = Saw(T, x, y)
                        /\ x = Unknown \/ (T = {p} /\ a = SeenAs([outcome |-> x, inode |-> y]))
  <1>9. ASSUME NEW b, Stay([[reader EXCEPT !.todo = Tail(@)] EXCEPT
                           !.seen = Saw({p}, Unknown, 0), !.stopped = b])
        PROVE  Moved /\ Seen
    <2>1. Moved /\ reader'.seen = Saw({p}, Unknown, 0)
      BY <1>1, <1>9 DEF Stay, IsReader
    <2>2. Seen
      BY <1>4, <1>5, <2>1
    <2> QED
      BY <2>1, <2>2
  <1>10. ASSUME a.content = Missing,
                Stay([[reader EXCEPT !.todo = Tail(@)] EXCEPT !.seen = Saw({p}, Missing, 0)])
         PROVE  Moved /\ Seen
    <2>1. Moved /\ reader'.seen = Saw({p}, Missing, 0)
      BY <1>1, <1>10 DEF Stay, IsReader
    <2>2. Seen
      BY <1>4, <1>5, <1>7, <1>10, <2>1
    <2> QED
      BY <2>1, <2>2
  <1>11. ASSUME Stay([[reader EXCEPT !.todo = Tail(@)] EXCEPT
                    !.seen = Saw({p} \cup Aliases(p), Unknown, a.inode),
                    !.spent = @ + Size[a.content]])
         PROVE  Moved /\ Seen
    <2>1. Moved /\ reader'.seen = Saw({p} \cup Aliases(p), Unknown, a.inode)
      BY <1>1, <1>11 DEF Stay, IsReader
    <2>2. Seen
      BY <1>4, <1>5, <2>1
    <2> QED
      BY <2>1, <2>2
  <1>12. ASSUME a.content # Missing,
                Stay([[reader EXCEPT !.todo = Tail(@)] EXCEPT
                    !.seen = Saw({p}, a.content, a.inode),
                    !.spent = @ + Size[a.content]])
         PROVE  Moved /\ Seen
    <2>1. Moved /\ reader'.seen = Saw({p}, a.content, a.inode)
      BY <1>1, <1>12 DEF Stay, IsReader
    <2>2. Seen
      BY <1>4, <1>5, <1>8, <1>12, <2>1
    <2> QED
      BY <2>1, <2>2
  <1>13. Moved /\ Seen
    <2> HIDE DEF Moved, Seen
    <2> QED
      BY <1>6, <1>9, <1>10, <1>11, <1>12
  <1> QED
    BY <1>1, <1>2, <1>13

LEMMA ObserveStep ==
  ASSUME Base, ObservingInv, Quiet, Observe
  PROVE  Base' /\ ReadingInv' /\ ObservingInv'
  <1>1. /\ reader.at = "observing" /\ SeenInv(reader.seen, reader.todo)
        /\ artifacts \in moments
    BY NowIsCurrent DEF Observe, ObservingInv, Base, PhaseInv, Phases, Observing
  <1>2. PICK v, t, p, u : v = reader.seen /\ t = reader.todo /\ p = Head(t) /\ u = Tail(t)
    OBVIOUS
  <1>3. PICK S, o, i :
               /\ S \in SUBSET Path /\ reader'.seen = Saw(S, o, i)
               /\ \/ o = Unknown
                  \/ S = {p} /\ artifacts[p] = SeenAs([outcome |-> o, inode |-> i])
    BY <1>2, ObserveShape
  <1>4. /\ reader'.at = "observing" /\ IsReader(reader') /\ UNCHANGED history
        /\ reader'.todo = u /\ t \in Seq(Path) /\ t # <<>>
    BY <1>2, ObserveShape
  <1>5. PICK r : r = reader'
    OBVIOUS
  <1>6. Base' /\ moments' = moments /\ returned' = returned
    BY <1>1, <1>4, Stayed DEF Reading
  <1>7. u \in Seq(Path)
    BY <1>2, <1>4, RanOfRest
  <1>8. PICK w : w = Saw(S, o, i)
    OBVIOUS
  <1>9. w = [q \in DOMAIN v \cup S |-> IF q \in S THEN [outcome |-> o, inode |-> i] ELSE v[q]]
    BY <1>2, <1>8 DEF Saw
  <1>10. DOMAIN w \subseteq Path /\ SeenInv(v, t)
    BY <1>1, <1>2, <1>3, <1>9 DEF SeenInv
  <1>11. ASSUME NEW q \in DOMAIN w, w[q].outcome # Unknown
         PROVE  \E m \in moments : m[q] = SeenAs(w[q])
    <2>1. CASE q \in S
      BY <1>1, <1>3, <1>9, <1>11, <2>1
    <2>2. CASE q \notin S
      <3>1. q \in DOMAIN v /\ w[q] = v[q]
        BY <1>9, <2>2
      <3> QED
        BY <1>10, <1>11, <3>1 DEF SeenInv
    <2> QED
      BY <2>1, <2>2
  <1>12. SeenInv(w, u)'
    BY <1>6, <1>7, <1>10, <1>11 DEF SeenInv
  <1>13. reader'.seen = w /\ reader'.todo = u /\ reader'.at = "observing"
    BY <1>3, <1>4, <1>8
  <1>14. SeenInv(reader.seen, reader.todo)'
    BY <1>12, <1>13 DEF SeenInv
  <1> QED
    BY <1>6, <1>13, <1>14 DEF ReadingInv, ObservingInv

\* The second pass re-reads everything the first resolved.
LEMMA EndOfFirstPassStep ==
  ASSUME Base, ObservingInv, Quiet, EndOfFirstPass
  PROVE  Base' /\ ReadingInv' /\ ObservingInv'
  <1>1. PICK v : v = reader.seen
    OBVIOUS
  <1>2. PICK R, t : R = {p \in DOMAIN v : v[p].outcome # Unknown} /\ t = InOrder(R)
    OBVIOUS
  <1>3. /\ reader.at = "observing" /\ SeenInv(v, reader.todo)
        /\ artifacts \in moments /\ IsReader(reader)
    BY <1>1, NowIsCurrent
       DEF EndOfFirstPass, ObservingInv, Base, PhaseInv, Phases, Observing, ReaderTyped
  <1>4. PICK r : r = [reader EXCEPT !.at = "reobserving", !.spent = 0, !.stopped = FALSE, !.todo = t]
    OBVIOUS
  <1>5. IsReader(r) /\ r.at = "reobserving" /\ r.seen = v /\ r.todo = t
    BY <1>1, <1>3, <1>4 DEF IsReader
  <1>6. reader' = r /\ UNCHANGED history
    BY <1>1, <1>2, <1>4 DEF EndOfFirstPass
  <1>7. Base' /\ moments' = moments /\ returned' = returned
    BY <1>3, <1>5, <1>6, Stayed DEF Observing
  <1>8. t \in Seq(Path) /\ Ran(t) = R
    <2>1. R \in SUBSET Path
      BY <1>2, <1>3 DEF SeenInv
    <2>2. IsFiniteSet(R)
      BY <2>1, FS_Subset, InspectionAssumption
    <2>3. InOrder(R) \in Seq(R) /\ Ran(InOrder(R)) = R
      BY <2>2, Ordered
    <2> QED
      BY <1>2, <2>1, <2>3
  <1>9. SeenPivot(artifacts, v, t)
    BY <1>2, <1>8 DEF SeenPivot
  <1>10. PICK P : P = artifacts
    OBVIOUS
  <1>11. P \in moments' /\ SeenPivot(P, v, t)'
    BY <1>3, <1>7, <1>9, <1>10 DEF SeenPivot, Quiet
  <1>12. SeenInv(v, t)'
    BY <1>3, <1>7, <1>8 DEF SeenInv
  <1>13. SeenAgainInv(v, t)'
    BY <1>11, <1>12 DEF SeenAgainInv
  <1>14. reader'.at = "reobserving" /\ reader'.seen = v /\ reader'.todo = t
    BY <1>5, <1>6
  <1>15. SeenAgainInv(reader.seen, reader.todo)'
    BY <1>13, <1>14 DEF SeenAgainInv, SeenInv, SeenPivot
  <1> QED
    BY <1>7, <1>14, <1>15 DEF ReadingInv, ObservingInv

LEMMA ReobserveStep ==
  ASSUME Base, ObservingInv, Quiet, Reobserve
  PROVE  Base' /\ ReadingInv' /\ ObservingInv'
  <1>1. reader.at = "reobserving" /\ SeenAgainInv(reader.seen, reader.todo) /\ IsReader(reader)
    BY DEF Reobserve, ObservingInv, Base, ReaderTyped
  <1>2. CASE Enter(Idle, "raced")
    <2>1. Base' /\ ReadingInv' /\ reader'.at = "raced"
      BY <1>2, FailStep, Entered, IdleIsReader DEF Base, Phases, Reading, Observing
    <2> QED
      BY <2>1 DEF ObservingInv
  <1>3. CASE SecondSnapshot
    <2>1. PICK r : r = [Idle EXCEPT !.round = 2, !.todo = FirstPass, !.snapshot = reader.snapshot]
      OBVIOUS
    <2>2. /\ IsReader(r) /\ r.todo = FirstPass /\ r.seen = <<>> /\ r.got = <<>>
          /\ Enter(r, "reading")
      BY <1>3, <2>1 DEF SecondSnapshot, Idle, IsReader
    <2>3. DOMAIN r.got = {}
      BY <2>2
    <2>4. Base' /\ ReadingInv' /\ reader'.at = "reading"
      BY <2>2, <2>3, BeginStep, Entered DEF Base
    <2> QED
      BY <2>4 DEF ObservingInv
  <1>4. CASE /\ reader.todo # <<>> /\ Unchanged(Head(reader.todo))
             /\ Stay([reader EXCEPT !.todo = Tail(@)])
    <2>1. PICK v, t, p, u : v = reader.seen /\ t = reader.todo /\ p = Head(t) /\ u = Tail(t)
      OBVIOUS
    <2>2. SeenAgainInv(v, t) /\ t \in Seq(Path) /\ t # <<>>
      BY <1>1, <1>4, <2>1 DEF SeenAgainInv, SeenInv
    <2>3. p \in Path /\ u \in Seq(Path) /\ Ran(t) = {p} \cup Ran(u)
      BY <2>1, <2>2, RanOfRest
    <2>4. PICK r : r = [reader EXCEPT !.todo = u]
      OBVIOUS
    <2>5. IsReader(r) /\ r.at = "reobserving" /\ r.seen = v /\ r.todo = u
      BY <1>1, <2>1, <2>4 DEF IsReader
    <2>6. reader' = r /\ UNCHANGED history
      BY <1>4, <2>1, <2>4 DEF Stay
    <2>7. Base' /\ moments' = moments /\ returned' = returned
      BY <1>1, <2>5, <2>6, Stayed DEF Reading
    <2>8. artifacts[p] = SeenAs(v[p])
      BY <1>4, <2>1, <2>3 DEF Unchanged, SeenAs, Base, TypedArtifacts
    <2>9. ASSUME NEW P \in moments, SeenPivot(P, v, t) PROVE SeenPivot(P, v, u)
      BY <2>3, <2>8, <2>9 DEF SeenPivot
    <2>10. SeenAgainInv(v, u)
      BY <2>2, <2>3, <2>9 DEF SeenAgainInv, SeenInv
    <2>11. SeenAgainInv(v, u)'
      BY <2>7, <2>10 DEF SeenAgainInv, SeenInv, SeenPivot, Quiet
    <2>12. reader'.at = "reobserving" /\ reader'.seen = v /\ reader'.todo = u
      BY <2>5, <2>6
    <2>13. SeenAgainInv(reader.seen, reader.todo)'
      BY <2>11, <2>12 DEF SeenAgainInv, SeenInv, SeenPivot
    <2> QED
      BY <2>7, <2>12, <2>13 DEF ReadingInv, ObservingInv
  <1> QED
    BY <1>2, <1>3, <1>4 DEF Reobserve

\* What the second pass concludes.
LEMMA EndOfObservation ==
  ASSUME ObservingInv, reader.at = "reobserving", reader.todo = <<>>, ~returned,
         \A m \in moments : TypedArtifacts(m)
  PROVE  \E m \in moments : \A p \in DOMAIN Observation :
            Observation[p] # Unknown => m[p].content = Observation[p]
  <1>1. PICK v : v = reader.seen
    OBVIOUS
  <1>2. PICK P \in moments : SeenPivot(P, v, <<>>) /\ DOMAIN v \subseteq Path
    BY <1>1 DEF ObservingInv, SeenAgainInv, SeenInv
  <1>3. ASSUME NEW p \in DOMAIN v, v[p].outcome # Unknown PROVE P[p].content = v[p].outcome
    <2>1. P[p] = SeenAs(v[p])
      BY <1>2, <1>3, RanOfEmpty DEF SeenPivot
    <2> QED
      BY <2>1 DEF SeenAs, None, Artifact
  <1> QED
    BY <1>1, <1>3 DEF Observation

-----------------------------------------------------------------------------
(* Every step.                                                               *)

Inspected == Base /\ ReadingInv /\ ObservingInv

LEMMA InspectionStarts == InspectionInit => Inspected
  <1> SUFFICES ASSUME InspectionInit PROVE Inspected
    OBVIOUS
  <1>1. TypedFiles(files) /\ TypedArtifacts(artifacts) /\ reader = Idle
    <2>1. TypedArtifacts(artifacts)
      <3>1. /\ DOMAIN artifacts = Path
            /\ \A p \in Path :
                  /\ artifacts[p] = Artifact(artifacts[p].content, artifacts[p].inode)
                  /\ artifacts[p] = None \/ artifacts[p].content \in Digest
        BY InspectionAssumption DEF InspectionInit
      <3> QED
        BY <3>1, OutcomeAssumption DEF TypedArtifacts
    <2> QED
      BY <2>1, InspectionAssumption DEF InspectionInit
  <1>2. reader.at = "idle"
    BY <1>1 DEF Idle
  <1> QED
    BY <1>1, <1>2, IdleIsReader
       DEF Inspected, Base, ReaderTyped, PhaseInv, NothingSeen, ReadingInv, ObservingInv,
           Phases, Reading, Observing

LEMMA InspectionKeeps == Inspected /\ [InspectionNext]_inspectionVars => Inspected'
  <1> SUFFICES ASSUME Inspected, [InspectionNext]_inspectionVars PROVE Inspected'
    OBVIOUS
  <1> USE DEF Inspected
  <1>1. CASE ReaderStep
    <2>1. Quiet
      BY <1>1 DEF ReaderStep, Quiet
    <2>2. CASE Start
      <3>1. PICK r : r = [Idle EXCEPT !.todo = FirstPass]
        OBVIOUS
      <3>2. /\ IsReader(r) /\ r.todo = FirstPass /\ r.seen = <<>> /\ r.got = <<>>
            /\ Enter(r, "reading")
        BY <2>2, <3>1 DEF Start, Idle, IsReader
      <3>3. DOMAIN r.got = {}
        BY <3>2
      <3>4. Base' /\ ReadingInv' /\ reader'.at = "reading"
        BY <2>1, <3>2, <3>3, BeginStep, Entered DEF Base
      <3> QED
        BY <3>4 DEF ObservingInv
    <2>3. CASE CaptureNext
      <3>1. Base' /\ ReadingInv' /\ reader'.at \notin Observing
        BY <2>1, <2>3, CaptureStep
      <3> QED
        BY <3>1 DEF ObservingInv, Observing
    <2>4. CASE Recapture
      BY <2>1, <2>4, RecaptureStep, RecaptureObserves
    <2>5. CASE Observe
      BY <2>1, <2>5, ObserveStep
    <2>6. CASE EndOfFirstPass
      BY <2>1, <2>6, EndOfFirstPassStep
    <2>7. CASE Reobserve
      BY <2>1, <2>7, ReobserveStep
    <2> QED
      BY <1>1, <2>2, <2>3, <2>4, <2>5, <2>6, <2>7 DEF ReaderStep
  <1>2. CASE Update
    BY <1>2, UpdateBase, UpdateReading, UpdateObserving
  <1>3. CASE UNCHANGED <<files, inode, artifacts, reader, history>>
    <2>1. moments' = moments /\ returned' = returned /\ reader' = reader /\ Quiet
      BY <1>3 DEF history, Quiet
    <2>2. Versions' = Versions /\ artifacts' = artifacts /\ files' = files
      BY <2>1, QuietSame DEF Quiet
    <2>3. Base'
      BY <2>1, <2>2 DEF Base, ReaderTyped, PhaseInv, NothingSeen, Current
    <2>4. ReadingInv'
      BY <2>1, <2>2 DEF ReadingInv, SecondPassInv, CaptureInv, LocalSettled, Pivot
    <2>5. ObservingInv'
      BY <2>1, <2>2 DEF ObservingInv, SeenAgainInv, SeenInv, SeenPivot
    <2> QED
      BY <2>3, <2>4, <2>5
  <1>4. CASE WalkStep
    BY <1>3, <1>4 DEF WalkStep
  <1>5. CASE UNCHANGED inspectionVars
    BY <1>3, <1>5 DEF inspectionVars, history
  <1> QED
    BY <1>1, <1>2, <1>4, <1>5 DEF InspectionNext

LEMMA SnapshotStep ==
  ASSUME Inspected, InspectionNext, reader.at = "rereading", reader'.at \in {"observing", "done"},
         ~returned
  PROVE  \E m \in moments : Assembled(reader.got) = Documents(m)
  <1>1. Recapture
    BY DEF InspectionNext, ReaderStep, WalkStep, Update, Updated, Start, CaptureNext, Observe,
           EndOfFirstPass, Reobserve
  <1>2. IsReader(reader)
    BY DEF Inspected, Base, ReaderTyped
  <1>3. ~Fail("raced")
    BY DEF Fail, Enter, Idle
  <1>4. ~Stay([reader EXCEPT !.todo = Tail(@)])
    BY <1>2 DEF Stay, IsReader
  <1>5. Read(Head(reader.todo)) = reader.got[Head(reader.todo)] /\ Tail(reader.todo) = <<>>
    BY <1>1, <1>3, <1>4 DEF Recapture
  <1> QED
    BY <1>5, LastComparison DEF Inspected

LEMMA ObservationStep ==
  ASSUME Inspected, InspectionNext, reader.at = "reobserving", reader'.at = "reading", ~returned
  PROVE  \E m \in moments : \A p \in DOMAIN Observation :
            Observation[p] # Unknown => m[p].content = Observation[p]
  <1>1. Reobserve
    BY DEF InspectionNext, ReaderStep, WalkStep, Update, Updated, Start, CaptureNext, Observe,
           EndOfFirstPass, Recapture
  <1>2. IsReader(reader) /\ reader.at \in Observing
    BY DEF Inspected, Base, ReaderTyped, Observing
  <1>3. ~Enter(Idle, "raced")
    BY DEF Enter, Idle
  <1>4. ~Stay([reader EXCEPT !.todo = Tail(@)])
    BY <1>2 DEF Stay, IsReader
  <1>5. reader.todo = <<>>
    BY <1>1, <1>3, <1>4 DEF Reobserve
  <1>6. \A m \in moments : TypedArtifacts(m)
    BY <1>2 DEF Inspected, Base, PhaseInv
  <1> QED
    BY <1>5, <1>6, EndOfObservation DEF Inspected

\* The invariant of an inspection: what was captured was there, and the moment
\* the second pass began is the one it will report.
THEOREM InspectionInvariant == InspectionSpec => []Inspected
  BY InspectionStarts, InspectionKeeps, PTL DEF InspectionSpec

\* The documents of a snapshot were all in the workspace at one moment of the
\* two passes of snapshotMemoryWorkspace, unless one of them came back to what
\* it had been.
THEOREM SnapshotsAreOfOneMoment == InspectionSpec => SnapshotOfOneMoment
  <1>1. Inspected /\ [InspectionNext]_inspectionVars =>
           [reader.at = "rereading" /\ reader'.at \in {"observing", "done"} /\ ~returned =>
               \E m \in moments : Assembled(reader.got) = Documents(m)]_inspectionVars
    BY SnapshotStep
  <1> QED
    BY <1>1, InspectionInvariant, PTL DEF InspectionSpec, SnapshotOfOneMoment

\* The artifacts an observation has resolved were all what it says at one
\* moment of the two passes of observeMemoryReferences, unless one of them came
\* back to what it had been.
THEOREM ObservationsAreOfOneMoment == InspectionSpec => ObservedAtOneMoment
  <1>1. Inspected /\ [InspectionNext]_inspectionVars =>
           [reader.at = "reobserving" /\ reader'.at = "reading" /\ ~returned =>
               \E m \in moments : \A p \in DOMAIN Observation :
                  Observation[p] # Unknown => m[p].content = Observation[p]]_inspectionVars
    BY ObservationStep
  <1> QED
    BY <1>1, InspectionInvariant, PTL DEF InspectionSpec, ObservedAtOneMoment

-----------------------------------------------------------------------------
(* No false alarm.  The first pass reads what cites before it lists what may *)
(* be cited, and the writers remove nothing.                                 *)

Rank(x) ==
    IF x = RootDirectory THEN 0
    ELSE IF x = JournalFile THEN 1
    ELSE IF x = LocalFile THEN 2
    ELSE IF x = WorkDirectory THEN 3
    ELSE IF x \in WorkFiles THEN 4
    ELSE IF x = KnowledgeDirectory THEN 5
    ELSE 6

Precedes(x, y) ==
    Rank(x) < Rank(y) \/ (Rank(x) = Rank(y) /\ x \in WorkFiles \cup KnowledgeFiles)

Ascending(t) == \A i, j \in 1..Len(t) : i < j => Precedes(t[i], t[j])

\* What the document d of the file x cites, and where that would be listed.
Cites(x, d) ==
    IF x = JournalFile THEN {WorkFile(d[i].work_id) : i \in 1..Len(d)}
    ELSE IF x = LocalFile
    THEN IF d.selected_work_id = NULL THEN {} ELSE {WorkFile(d.selected_work_id)}
    ELSE IF x \in WorkFiles THEN {KnowledgeFile(k) : k \in d.knowledge_ids}
    ELSE {}
ListOf(y) == IF y \in WorkFiles THEN WorkDirectory ELSE KnowledgeDirectory

Items == WorkFiles \cup KnowledgeFiles

\* The Work and the Knowledge listed or captured still exist.
Present(g, t) == \A x \in Items : x \in DOMAIN g \cup Ran(t) => files[x] # NULL

\* What a captured document cites exists, and is listed once its directory is.
CitedListed(g) ==
    \A x \in DOMAIN g \cap SnapshotFiles : \A y \in Cites(x, g[x][1]) :
        files[y] # NULL /\ (ListOf(y) \in DOMAIN g => y \in g[ListOf(y)])

AlwaysValid == \A m \in moments : SnapshotAccepts(Documents(m))

AlarmInv(g, t) ==
    /\ Ascending(t)
    /\ \A x \in DOMAIN g, y \in Ran(t) : Precedes(x, y)
    /\ ~tampered => Present(g, t)
    /\ ~tampered /\ AlwaysValid => CitedListed(g)

Calm == reader.at = "reading" => AlarmInv(reader.got, reader.todo)

LEMMA Ranks ==
  /\ \A x : Rank(x) \in 0..6
  /\ Rank(RootDirectory) = 0 /\ Rank(JournalFile) = 1 /\ Rank(LocalFile) = 2
  /\ Rank(WorkDirectory) = 3 /\ (\A x \in WorkFiles : Rank(x) = 4)
  /\ Rank(KnowledgeDirectory) = 5 /\ (\A x \in KnowledgeFiles : Rank(x) = 6)
  <1>1. /\ RootDirectory \notin SnapshotFiles /\ WorkDirectory \notin SnapshotFiles
        /\ KnowledgeDirectory \notin SnapshotFiles
    BY DirectoriesApart DEF Directories
  <1>2. /\ RootDirectory \notin WorkFiles /\ WorkDirectory \notin WorkFiles
        /\ KnowledgeDirectory \notin WorkFiles /\ KnowledgeDirectory \notin KnowledgeFiles
        /\ RootDirectory \notin KnowledgeFiles /\ WorkDirectory \notin KnowledgeFiles
        /\ JournalFile \in SnapshotFiles /\ LocalFile \in SnapshotFiles
    BY <1>1 DEF SnapshotFiles
  <1>3. /\ RootDirectory # JournalFile /\ RootDirectory # LocalFile
        /\ WorkDirectory # JournalFile /\ WorkDirectory # LocalFile
        /\ KnowledgeDirectory # JournalFile /\ KnowledgeDirectory # LocalFile
    BY <1>1, <1>2
  <1> QED
    BY <1>2, <1>3, DirectoriesApart DEF Rank

LEMMA AscendingRest ==
  ASSUME NEW S, NEW t \in Seq(S), t # <<>>, Ascending(t), NEW x, x = Head(t), NEW u, u = Tail(t)
  PROVE  Ascending(u) /\ \A y \in Ran(u) : Precedes(x, y)
  <1>1. /\ Len(t) \in Nat \ {0} /\ x = t[1] /\ Len(u) = Len(t) - 1
        /\ \A i \in 1..Len(u) : u[i] = t[i + 1] /\ i + 1 \in 1..Len(t)
    OBVIOUS
  <1>2. Ascending(u)
    <2> SUFFICES ASSUME NEW i \in 1..Len(u), NEW j \in 1..Len(u), i < j
                 PROVE  Precedes(u[i], u[j])
      BY DEF Ascending
    <2>1. i + 1 \in 1..Len(t) /\ j + 1 \in 1..Len(t) /\ i + 1 < j + 1
      BY <1>1
    <2>2. Precedes(t[i + 1], t[j + 1])
      BY <2>1 DEF Ascending
    <2> QED
      BY <1>1, <2>2
  <1>3. \A y \in Ran(u) : Precedes(x, y)
    <2> SUFFICES ASSUME NEW i \in 1..Len(u) PROVE Precedes(x, u[i])
      BY DEF Ran
    <2>1. 1 \in 1..Len(t) /\ i + 1 \in 1..Len(t) /\ 1 < i + 1
      BY <1>1
    <2>2. Precedes(t[1], t[i + 1])
      BY <2>1 DEF Ascending
    <2> QED
      BY <1>1, <2>2
  <1> QED
    BY <1>2, <1>3

LEMMA AscendingBoth ==
  ASSUME NEW S, NEW s \in Seq(S), NEW u \in Seq(S), Ascending(s), Ascending(u),
         \A x \in Ran(s), y \in Ran(u) : Precedes(x, y),
         NEW r, r = s \o u
  PROVE  Ascending(r)
  <1>1. /\ Len(r) = Len(s) + Len(u) /\ Len(s) \in Nat /\ Len(u) \in Nat
        /\ \A i \in 1..Len(s) : r[i] = s[i]
        /\ \A i \in 1..Len(u) : r[Len(s) + i] = u[i]
    OBVIOUS
  <1> SUFFICES ASSUME NEW i \in 1..Len(r), NEW j \in 1..Len(r), i < j
               PROVE  Precedes(r[i], r[j])
    BY DEF Ascending
  <1>2. CASE j <= Len(s)
    <2>1. i \in 1..Len(s) /\ j \in 1..Len(s)
      BY <1>1, <1>2
    <2>2. Precedes(s[i], s[j])
      BY <2>1 DEF Ascending
    <2> QED
      BY <1>1, <2>1, <2>2
  <1>3. CASE i > Len(s)
    <2>1. PICK a, b : a = i - Len(s) /\ b = j - Len(s)
      OBVIOUS
    <2>2. a \in 1..Len(u) /\ b \in 1..Len(u) /\ a < b /\ Len(s) + a = i /\ Len(s) + b = j
      BY <1>1, <1>3, <2>1
    <2>3. Precedes(u[a], u[b])
      BY <2>2 DEF Ascending
    <2> QED
      BY <1>1, <2>2, <2>3
  <1>4. CASE i <= Len(s) /\ j > Len(s)
    <2>1. PICK b : b = j - Len(s)
      OBVIOUS
    <2>2. i \in 1..Len(s) /\ b \in 1..Len(u) /\ Len(s) + b = j
      BY <1>1, <1>4, <2>1
    <2>3. s[i] \in Ran(s) /\ u[b] \in Ran(u)
      BY <2>2 DEF Ran
    <2> QED
      BY <1>1, <2>2, <2>3
  <1> QED
    BY <1>1, <1>2, <1>3, <1>4

LEMMA FirstPassAscends == Ascending(FirstPass)
  <1>1. /\ FirstPass[1] = RootDirectory /\ FirstPass[2] = JournalFile /\ FirstPass[3] = LocalFile
        /\ FirstPass[4] = WorkDirectory /\ FirstPass[5] = KnowledgeDirectory
        /\ Len(FirstPass) = 5
    BY DEF FirstPass
  <1> SUFFICES ASSUME NEW i \in 1..5, NEW j \in 1..5, i < j
               PROVE  Precedes(FirstPass[i], FirstPass[j])
    BY <1>1 DEF Ascending
  <1>2. \A k \in 1..5 : Rank(FirstPass[k]) =
           IF k = 1 THEN 0 ELSE IF k = 2 THEN 1 ELSE IF k = 3 THEN 2 ELSE IF k = 4 THEN 3 ELSE 5
    BY <1>1, Ranks
  <1>3. Rank(FirstPass[i]) < Rank(FirstPass[j])
    BY <1>2
  <1> QED
    BY <1>3 DEF Precedes

\* What a document of its type cites is an item, which is listed later.
LEMMA CitesItems ==
  ASSUME NEW d, TypedSnapshot(d), NEW x \in SnapshotFiles, d[x] # NULL, NEW y \in Cites(x, d[x])
  PROVE  /\ y \in Items /\ ListOf(y) \in {WorkDirectory, KnowledgeDirectory}
         /\ y \in FilesOf(ListOf(y)) /\ Rank(x) < Rank(ListOf(y))
  <1>1. \A w \in WorkId : WorkFile(w) \in WorkFiles /\ WorkFile(w) \in Items
    BY DEF WorkFiles, Items
  <1>2. \A k \in KnowledgeId : KnowledgeFile(k) \in KnowledgeFiles /\ KnowledgeFile(k) \in Items
    BY DEF KnowledgeFiles, Items
  <1>3. ASSUME y \in WorkFiles, Rank(x) < 3
        PROVE  /\ y \in Items /\ ListOf(y) \in {WorkDirectory, KnowledgeDirectory}
               /\ y \in FilesOf(ListOf(y)) /\ Rank(x) < Rank(ListOf(y))
    BY <1>3, Ranks, DirectoriesApart DEF Items, ListOf, FilesOf
  <1>4. ASSUME y \in KnowledgeFiles, Rank(x) < 5
        PROVE  /\ y \in Items /\ ListOf(y) \in {WorkDirectory, KnowledgeDirectory}
               /\ y \in FilesOf(ListOf(y)) /\ Rank(x) < Rank(ListOf(y))
    BY <1>4, Ranks, DirectoriesApart DEF Items, ListOf, FilesOf
  <1>5. CASE x = JournalFile
    <2>1. d[x] \in Seq(Checkpoint)
      BY <1>5 DEF TypedSnapshot
    <2>2. PICK i \in 1..Len(d[x]) : y = WorkFile(d[x][i].work_id)
      BY <1>5 DEF Cites
    <2>3. d[x][i] \in Checkpoint
      BY <2>1
    <2>4. d[x][i].work_id \in WorkId
      BY <2>3 DEF Checkpoint
    <2>5. y \in WorkFiles
      BY <1>1, <2>2, <2>4
    <2> QED
      BY <1>3, <1>5, <2>5, Ranks
  <1>6. CASE x = LocalFile
    <2>1. d[x] \in LocalState
      BY <1>6 DEF TypedSnapshot
    <2>2. d[x].selected_work_id # NULL /\ y = WorkFile(d[x].selected_work_id)
      BY <1>6, DirectoriesApart DEF Cites
    <2>3. y \in WorkFiles
      BY <1>1, <2>1, <2>2 DEF LocalState
    <2> QED
      BY <1>3, <1>6, <2>3, Ranks
  <1>7. CASE x \in WorkFiles
    <2>1. PICK w \in WorkId : x = WorkFile(w)
      BY <1>7 DEF WorkFiles
    <2>2. d[x] \in Work
      BY <2>1 DEF TypedSnapshot
    <2>3. PICK k \in d[x].knowledge_ids : y = KnowledgeFile(k)
      BY <1>7, DirectoriesApart DEF Cites
    <2>4. k \in KnowledgeId
      BY <2>2 DEF Work
    <2> QED
      BY <1>2, <1>4, <1>7, <2>3, <2>4, Ranks
  <1> QED
    BY <1>5, <1>6, <1>7 DEF Cites

\* What a document of a valid workspace cites is there.
LEMMA CitesExist ==
  ASSUME TypedFiles(files), SnapshotAccepts(Snapshot(files)),
         NEW x \in SnapshotFiles, files[x] # NULL, NEW y \in Cites(x, files[x])
  PROVE  files[y] # NULL
  <1>1. TypedSnapshot(Snapshot(files)) /\ ReferencesResolve(Snapshot(files))
    BY DEF TypedFiles, SnapshotAccepts
  <1>2. PICK s : s = Snapshot(files)
    OBVIOUS
  <1>3. /\ TypedSnapshot(s) /\ ReferencesResolve(s)
        /\ \A f \in SnapshotFiles : s[f] = files[f]
    BY <1>1, <1>2 DEF Snapshot
  <1>4. \A w \in Works(s) : files[WorkFile(w)] # NULL /\ s[WorkFile(w)] = files[WorkFile(w)]
    BY <1>3 DEF Works, SnapshotFiles, WorkFiles
  <1>5. \A k \in KnownKnowledge(s) : files[KnowledgeFile(k)] # NULL
    BY <1>3 DEF KnownKnowledge, SnapshotFiles, KnowledgeFiles
  <1>6. CASE x = JournalFile
    <2>1. s[JournalFile] = files[x]
      BY <1>3, <1>6
    <2>2. PICK i \in 1..Len(files[x]) : y = WorkFile(files[x][i].work_id)
      BY <1>6 DEF Cites
    <2>3. files[x][i].work_id \in Works(s)
      BY <1>3, <2>1 DEF ReferencesResolve, Journal
    <2> QED
      BY <1>4, <2>2, <2>3
  <1>7. CASE x = LocalFile
    <2>1. s[LocalFile] = files[x]
      BY <1>3, <1>7
    <2>2. files[x].selected_work_id # NULL /\ y = WorkFile(files[x].selected_work_id)
      BY <1>7, DirectoriesApart DEF Cites
    <2>3. Selected(s) = files[x].selected_work_id
      BY <2>1 DEF Selected
    <2>4. files[x].selected_work_id \in Works(s)
      BY <1>3, <2>2, <2>3 DEF ReferencesResolve
    <2> QED
      BY <1>4, <2>2, <2>4
  <1>8. CASE x \in WorkFiles
    <2>1. PICK w \in WorkId : x = WorkFile(w)
      BY <1>8 DEF WorkFiles
    <2>2. w \in Works(s) /\ s[WorkFile(w)] = files[x]
      BY <1>3, <2>1 DEF Works
    <2>3. PICK k \in files[x].knowledge_ids : y = KnowledgeFile(k)
      BY <1>8, DirectoriesApart DEF Cites
    <2>4. k \in KnownKnowledge(s)
      BY <1>3, <2>2, <2>3 DEF ReferencesResolve
    <2> QED
      BY <1>5, <2>3, <2>4
  <1> QED
    BY <1>6, <1>7, <1>8 DEF Cites

\* The names of a directory, put before what was left, come in their place.
LEMMA Placed ==
  ASSUME NEW u \in Seq(Parts), Ascending(u), NEW x \in Parts, \A y \in Ran(u) : Precedes(x, y),
         NEW s \in Seq(SnapshotFiles),
         x \in {WorkDirectory, KnowledgeDirectory} => Ran(s) \subseteq FilesOf(x),
         x \notin {WorkDirectory, KnowledgeDirectory} => s = <<>>,
         NEW r, r = s \o u
  PROVE  /\ Ascending(r) /\ Ran(r) = Ran(s) \cup Ran(u)
         /\ \A y \in Ran(s) : Precedes(x, y)
  <1>1. \A y \in Parts : Rank(y) \in 0..6
    BY Ranks
  <1>2. s \in Seq(Parts) /\ \A y \in Ran(u) : y \in Parts
    BY DEF Parts, Ran
  <1>0. Ran(r) = Ran(s) \cup Ran(u)
    BY <1>2, RanOfBoth
  <1>3. CASE x = WorkDirectory
    <2>1. \A y \in Ran(s) : y \in WorkFiles /\ Rank(y) = 4 /\ Rank(x) = 3
      BY <1>3, Ranks DEF FilesOf, RootDirectory, WorkDirectory
    <2>2. \A y \in Ran(u) : Rank(y) >= 4
      <3>1. x \notin Items
        BY <1>3, DirectoriesApart DEF Items, SnapshotFiles, Directories
      <3>2. Rank(x) = 3
        BY <1>3, Ranks
      <3>3. ASSUME NEW y \in Ran(u) PROVE Rank(y) >= 4
        <4>1. Rank(y) \in 0..6 /\ Precedes(x, y)
          BY <1>1, <1>2
        <4> QED
          BY <3>1, <3>2, <4>1 DEF Precedes, Items
      <3> QED
        BY <3>3
    <2>3. \A i \in 1..Len(s) : s[i] \in Ran(s)
      BY DEF Ran
    <2>4. Ascending(s)
      BY <2>1, <2>3 DEF Ascending, Precedes
    <2>5. \A y \in Ran(s), z \in Ran(u) : Precedes(y, z)
      BY <1>1, <1>2, <2>1, <2>2 DEF Precedes
    <2>6. \A y \in Ran(s) : Precedes(x, y)
      BY <2>1 DEF Precedes
    <2> QED
      BY <1>0, <1>2, <2>4, <2>5, <2>6, AscendingBoth
  <1>4. CASE x = KnowledgeDirectory
    <2>1. \A y \in Ran(s) : y \in KnowledgeFiles /\ Rank(y) = 6 /\ Rank(x) = 5
      BY <1>4, Ranks DEF FilesOf, RootDirectory, WorkDirectory, KnowledgeDirectory
    <2>2. \A y \in Ran(u) : Rank(y) = 6
      <3>1. x \notin Items
        BY <1>4, DirectoriesApart DEF Items, SnapshotFiles, Directories
      <3>2. Rank(x) = 5
        BY <1>4, Ranks
      <3>3. ASSUME NEW y \in Ran(u) PROVE Rank(y) = 6
        <4>1. Rank(y) \in 0..6 /\ Precedes(x, y)
          BY <1>1, <1>2
        <4> QED
          BY <3>1, <3>2, <4>1 DEF Precedes, Items
      <3> QED
        BY <3>3
    <2>3. \A i \in 1..Len(s) : s[i] \in Ran(s)
      BY DEF Ran
    <2>4. Ascending(s)
      BY <2>1, <2>3 DEF Ascending, Precedes
    <2>5. \A y \in Ran(s), z \in Ran(u) : Precedes(y, z)
      BY <2>1, <2>2 DEF Precedes
    <2>6. \A y \in Ran(s) : Precedes(x, y)
      BY <2>1 DEF Precedes
    <2> QED
      BY <1>0, <1>2, <2>4, <2>5, <2>6, AscendingBoth
  <1>5. CASE x \notin {WorkDirectory, KnowledgeDirectory}
    <2>1. r = u /\ Ran(s) = {}
      BY <1>5, RanOfEmpty
    <2> QED
      BY <1>0, <2>1
  <1> QED
    BY <1>3, <1>4, <1>5

LEMMA OneMoreCalm ==
  ASSUME TypedFiles(files), Versions \in moments, \A m \in moments : IsVersion(m),
         NEW g, NEW t, CaptureInv(g, t), AlarmInv(g, t), t # <<>>,
         NEW x, x = Head(t), NEW u, u = Tail(t),
         NEW s, s \in Seq(SnapshotFiles), x \in SnapshotFiles => files[x] # NULL,
         x \in {WorkDirectory, KnowledgeDirectory} => Ran(s) = Read(x),
         x \notin {WorkDirectory, KnowledgeDirectory} => s = <<>>
  PROVE  AlarmInv(WithCapture(g, x), s \o u)
  <1>1. PICK h, r : h = WithCapture(g, x) /\ r = s \o u
    OBVIOUS
  <1>2. t \in Seq(Parts) /\ x \in Parts /\ u \in Seq(Parts) /\ Ran(t) = {x} \cup Ran(u)
    BY RanOfRest DEF CaptureInv
  <1>3. Ascending(u) /\ \A y \in Ran(u) : Precedes(x, y)
    BY <1>2, AscendingRest DEF AlarmInv
  <1>4. s \in Seq(Parts)
    BY DEF Parts
  <1>6. /\ x \in {WorkDirectory, KnowledgeDirectory} => Ran(s) \subseteq FilesOf(x)
        /\ \A y \in Ran(s) : files[y] # NULL
    <2>1. \A d \in Directories : Read(d) = {f \in FilesOf(d) : files[f] # NULL}
      BY Reads
    <2> QED
      BY <2>1, RanOfEmpty DEF Directories
  <1>7. Ascending(r) /\ Ran(r) = Ran(s) \cup Ran(u) /\ \A y \in Ran(s) : Precedes(x, y)
    BY <1>1, <1>2, <1>3, <1>6, Placed
  <1>8. /\ DOMAIN h = DOMAIN g \cup {x} /\ h[x] = Read(x)
        /\ \A y \in DOMAIN g : y # x => h[y] = g[y]
    <2>1. h = [y \in DOMAIN g \cup {x} |-> IF y = x THEN Read(x) ELSE g[y]]
      BY <1>1 DEF WithCapture
    <2> QED
      BY <2>1
  <1>9. ASSUME NEW y \in DOMAIN h, NEW z \in Ran(r) PROVE Precedes(y, z)
    <2>1. CASE y = x
      BY <1>3, <1>7, <2>1
    <2>2. CASE y # x /\ z \in Ran(u)
      BY <1>2, <1>8, <2>2 DEF AlarmInv
    <2>3. CASE y # x /\ z \in Ran(s)
      <3>1. Precedes(y, x) /\ Precedes(x, z)
        BY <1>2, <1>7, <1>8, <2>3 DEF AlarmInv
      <3>2. x \in {WorkDirectory, KnowledgeDirectory}
        BY <2>3, RanOfEmpty
      <3>3. x \notin Items
        BY <3>2, DirectoriesApart DEF Items, SnapshotFiles, Directories
      <3>4. Rank(x) < Rank(z) /\ Rank(y) <= Rank(x)
        BY <3>1, <3>3, Ranks DEF Precedes, Items
      <3> QED
        BY <3>4, Ranks DEF Precedes
    <2> QED
      BY <1>7, <2>1, <2>2, <2>3
  <1>10. ASSUME ~tampered PROVE Present(h, r)
    BY <1>2, <1>6, <1>7, <1>8, <1>10 DEF AlarmInv, Present
  <1>11. ASSUME ~tampered, AlwaysValid PROVE CitedListed(h)
    <2>1. SnapshotAccepts(Snapshot(files))
      BY <1>11, VersionsAre DEF AlwaysValid
    <2>2. CitedListed(g)
      BY <1>11 DEF AlarmInv
    <2> SUFFICES ASSUME NEW y \in DOMAIN h \cap SnapshotFiles, NEW z \in Cites(y, h[y][1])
                 PROVE  files[z] # NULL /\ (ListOf(z) \in DOMAIN h => z \in h[ListOf(z)])
      BY DEF CitedListed
    <2>3. CASE y = x
      <3>1. h[y][1] = files[y] /\ files[y] # NULL
        BY <1>8, <2>3, Reads
      <3>2. TypedSnapshot(Snapshot(files)) /\ Snapshot(files)[y] = files[y]
        BY DEF TypedFiles, Snapshot
      <3>3. files[z] # NULL
        BY <2>1, <3>1, CitesExist
      <3>4. Rank(y) < Rank(ListOf(z))
        BY <3>1, <3>2, CitesItems
      <3>5. ListOf(z) \notin DOMAIN h
        <4>1. ListOf(z) # x
          BY <2>3, <3>4, Ranks
        <4>2. ASSUME ListOf(z) \in DOMAIN g PROVE FALSE
          <5>1. Precedes(ListOf(z), x)
            BY <1>2, <4>2 DEF AlarmInv
          <5> QED
            BY <2>3, <3>4, <5>1, Ranks DEF Precedes
        <4> QED
          BY <1>8, <4>1, <4>2
      <3> QED
        BY <3>3, <3>5
    <2>4. CASE y # x
      <3>1. y \in DOMAIN g /\ h[y] = g[y]
        BY <1>8, <2>4
      <3>2. files[z] # NULL /\ (ListOf(z) \in DOMAIN g => z \in g[ListOf(z)])
        BY <2>2, <3>1 DEF CitedListed
      <3>3. PICK m \in moments : m[y] = g[y]
        BY <3>1 DEF CaptureInv
      <3>4. TypedSnapshot(Documents(m)) /\ Documents(m)[y] = g[y][1] /\ g[y][1] # NULL
        BY <3>1, <3>3 DEF IsVersion, Documents, CaptureInv
      <3>5. z \in FilesOf(ListOf(z)) /\ ListOf(z) \in Directories
        BY <3>1, <3>4, CitesItems DEF Directories
      <3>6. z \in Read(ListOf(z))
        BY <3>2, <3>5, Reads
      <3> QED
        BY <1>8, <3>2, <3>6
    <2> QED
      BY <2>3, <2>4
  <1> QED
    BY <1>1, <1>7, <1>9, <1>10, <1>11 DEF AlarmInv

LEMMA OneLessCalm ==
  ASSUME NEW g, NEW t \in Seq(Parts), AlarmInv(g, t), t # <<>>, NEW u, u = Tail(t)
  PROVE  AlarmInv(g, u)
  <1>1. Ran(u) \subseteq Ran(t)
    BY RanOfRest
  <1>2. Ascending(u)
    BY AscendingRest DEF AlarmInv
  <1> QED
    BY <1>1, <1>2 DEF AlarmInv, Present

LEMMA BeginCalm ==
  ASSUME NEW CONSTANT g, DOMAIN g = {}
  PROVE  AlarmInv(g, FirstPass)'
  <1>1. \A x \in Ran(FirstPass) : x \notin Items
    <2>1. Ran(FirstPass) \subseteq Directories \cup {JournalFile, LocalFile}
      BY FirstPassIs DEF Directories
    <2> QED
      BY <2>1, DirectoriesApart DEF Items, SnapshotFiles
  <1> QED
    BY <1>1, FirstPassAscends DEF AlarmInv, Present, CitedListed

\* What is left to say once everything is captured.
LEMMA CompleteIsValid ==
  ASSUME Base, reader.at \in Reading, NEW g, CaptureInv(g, <<>>), AlarmInv(g, <<>>),
         ~tampered, AlwaysValid
  PROVE  SnapshotAccepts(Assembled(g))
  <1>1. PICK a : a = Assembled(g)
    OBVIOUS
  <1>2. /\ \A f \in SnapshotFiles : a[f] = IF f \in DOMAIN g THEN g[f][1] ELSE NULL
        /\ \A f \in DOMAIN g \cap SnapshotFiles : g[f][1] # NULL
    BY <1>1 DEF Assembled, CaptureInv
  <1>3. /\ TypedFiles(files) /\ Versions \in moments /\ \A m \in moments : IsVersion(m)
        /\ Present(g, <<>>) /\ CitedListed(g)
    BY NowIsCurrent DEF Base, PhaseInv, Phases, AlarmInv
  <1>4. ASSUME NEW f \in SnapshotFiles, f \in DOMAIN g
        PROVE  \E m \in moments : /\ TypedSnapshot(Documents(m)) /\ SnapshotAccepts(Documents(m))
                                  /\ Documents(m)[f] = a[f]
    <2>1. PICK m \in moments : m[f] = g[f]
      BY <1>4 DEF CaptureInv
    <2>2. TypedSnapshot(Documents(m)) /\ SnapshotAccepts(Documents(m))
      BY <1>3 DEF IsVersion, AlwaysValid
    <2>3. Documents(m)[f] = a[f]
      BY <1>2, <1>4, <2>1 DEF Documents
    <2> QED
      BY <2>2, <2>3
  <1>5. /\ JournalFile \in DOMAIN g /\ WorkDirectory \in DOMAIN g /\ KnowledgeDirectory \in DOMAIN g
        /\ g[WorkDirectory] \subseteq DOMAIN g /\ g[KnowledgeDirectory] \subseteq DOMAIN g
        /\ JournalFile \in SnapshotFiles /\ LocalFile \in SnapshotFiles
    BY RanOfEmpty DEF CaptureInv, Directories, SnapshotFiles
  <1>6. ASSUME NEW f \in SnapshotFiles, a[f] # NULL, NEW y \in Cites(f, a[f])
        PROVE  y \in SnapshotFiles /\ a[y] # NULL
    <2>1. f \in DOMAIN g /\ a[f] = g[f][1]
      BY <1>2, <1>6
    <2>2. PICK m \in moments : TypedSnapshot(Documents(m)) /\ Documents(m)[f] = a[f]
      BY <1>4, <2>1
    <2>3. y \in Items /\ ListOf(y) \in {WorkDirectory, KnowledgeDirectory}
      BY <1>6, <2>2, CitesItems
    <2>4. y \in g[ListOf(y)]
      BY <1>3, <1>5, <1>6, <2>1, <2>3 DEF CitedListed
    <2>5. y \in DOMAIN g
      BY <1>5, <2>3, <2>4
    <2>6. y \in SnapshotFiles
      BY <2>3 DEF Items, SnapshotFiles
    <2> QED
      BY <1>2, <2>5, <2>6
  <1>7. ASSUME NEW w \in WorkId PROVE WorkFile(w) \in WorkFiles /\ WorkFile(w) \in SnapshotFiles
    BY DEF WorkFiles, SnapshotFiles
  <1>8. ASSUME NEW k \in KnowledgeId
        PROVE  KnowledgeFile(k) \in KnowledgeFiles /\ KnowledgeFile(k) \in SnapshotFiles
    BY DEF KnowledgeFiles, SnapshotFiles
  <1>9. WithinItemLimits(a)
    <2>1. WithinItemLimits(Snapshot(files))
      BY <1>3, VersionsAre DEF AlwaysValid, SnapshotAccepts
    <2>2. Works(a) \subseteq Works(Snapshot(files))
      <3> SUFFICES ASSUME NEW w \in WorkId, a[WorkFile(w)] # NULL
                   PROVE  files[WorkFile(w)] # NULL
        BY <1>7 DEF Works, Snapshot
      <3>1. WorkFile(w) \in DOMAIN g
        BY <1>2, <1>7
      <3> QED
        BY <1>3, <1>7, <3>1 DEF Present, Items
    <2>3. KnownKnowledge(a) \subseteq KnownKnowledge(Snapshot(files))
      <3> SUFFICES ASSUME NEW k \in KnowledgeId, a[KnowledgeFile(k)] # NULL
                   PROVE  files[KnowledgeFile(k)] # NULL
        BY <1>8 DEF KnownKnowledge, Snapshot
      <3>1. KnowledgeFile(k) \in DOMAIN g
        BY <1>2, <1>8
      <3> QED
        BY <1>3, <1>8, <3>1 DEF Present, Items
    <2>4. IsFiniteSet(Works(Snapshot(files))) /\ IsFiniteSet(KnownKnowledge(Snapshot(files)))
      <3>1. /\ Works(Snapshot(files)) \in SUBSET WorkId
            /\ KnownKnowledge(Snapshot(files)) \in SUBSET KnowledgeId
        BY DEF Works, KnownKnowledge
      <3> QED
        BY <3>1, FS_Subset, InspectionAssumption
    <2>5. Cardinality(Works(a)) <= Cardinality(Works(Snapshot(files)))
      BY <2>2, <2>4, FS_Subset
    <2>6. Cardinality(KnownKnowledge(a)) <= Cardinality(KnownKnowledge(Snapshot(files)))
      BY <2>3, <2>4, FS_Subset
    <2>7. /\ Cardinality(Works(a)) \in Nat /\ Cardinality(Works(Snapshot(files))) \in Nat
          /\ Cardinality(KnownKnowledge(a)) \in Nat
          /\ Cardinality(KnownKnowledge(Snapshot(files))) \in Nat
      BY <2>2, <2>3, <2>4, FS_Subset, FS_CardinalityType
    <2> QED
      BY <2>1, <2>5, <2>6, <2>7, LimitsAssumption DEF WithinItemLimits
  <1>10. ValidJournal(Journal(a))
    <2>1. PICK m \in moments : SnapshotAccepts(Documents(m)) /\ Documents(m)[JournalFile] = a[JournalFile]
      BY <1>4, <1>5
    <2> QED
      BY <2>1 DEF SnapshotAccepts, Journal
  <1>11. ReferencesResolve(a)
    <2>1. ASSUME Selected(a) # NULL PROVE Selected(a) \in Works(a)
      <3>1. a[LocalFile] # NULL /\ Selected(a) = a[LocalFile].selected_work_id
        BY <2>1 DEF Selected
      <3>2. WorkFile(Selected(a)) \in Cites(LocalFile, a[LocalFile])
        BY <2>1, <3>1, DirectoriesApart DEF Cites
      <3>3. a[WorkFile(Selected(a))] # NULL
        BY <1>5, <1>6, <3>1, <3>2
      <3>4. Selected(a) \in WorkId
        <4>1. LocalFile \in DOMAIN g
          BY <1>2, <1>5, <3>1
        <4>2. PICK m \in moments : TypedSnapshot(Documents(m)) /\ Documents(m)[LocalFile] = a[LocalFile]
          BY <1>4, <1>5, <4>1
        <4>3. a[LocalFile] \in LocalState
          BY <3>1, <4>2 DEF TypedSnapshot
        <4> QED
          BY <2>1, <3>1, <4>3 DEF LocalState
      <3> QED
        BY <3>3, <3>4 DEF Works
    <2>2. ASSUME NEW w \in Works(a) PROVE a[WorkFile(w)].knowledge_ids \subseteq KnownKnowledge(a)
      <3>1. w \in WorkId /\ a[WorkFile(w)] # NULL
        BY DEF Works
      <3>2. WorkFile(w) \in WorkFiles /\ WorkFile(w) \in SnapshotFiles
        BY <1>7, <3>1
      <3>3. WorkFile(w) \in DOMAIN g
        BY <1>2, <3>1, <3>2
      <3>4. PICK m \in moments :
               TypedSnapshot(Documents(m)) /\ Documents(m)[WorkFile(w)] = a[WorkFile(w)]
        BY <1>4, <3>2, <3>3
      <3>5. a[WorkFile(w)] \in Work
        BY <3>1, <3>4 DEF TypedSnapshot
      <3>6. ASSUME NEW k \in a[WorkFile(w)].knowledge_ids PROVE k \in KnownKnowledge(a)
        <4>1. k \in KnowledgeId
          BY <3>5 DEF Work
        <4>2. KnowledgeFile(k) \in Cites(WorkFile(w), a[WorkFile(w)])
          BY <3>2, DirectoriesApart DEF Cites
        <4> QED
          BY <1>6, <3>1, <3>2, <4>1, <4>2 DEF KnownKnowledge
      <3> QED
        BY <3>6
    <2>3. ASSUME NEW i \in 1..Len(Journal(a)) PROVE Journal(a)[i].work_id \in Works(a)
      <3>1. PICK m \in moments :
               TypedSnapshot(Documents(m)) /\ Documents(m)[JournalFile] = a[JournalFile]
        BY <1>4, <1>5
      <3>2. Journal(a) = a[JournalFile] /\ a[JournalFile] \in Seq(Checkpoint)
        BY <3>1 DEF Journal, TypedSnapshot
      <3>3. a[JournalFile][i] \in Checkpoint
        BY <3>2
      <3>4. a[JournalFile][i].work_id \in WorkId
        BY <3>3 DEF Checkpoint
      <3>5. WorkFile(a[JournalFile][i].work_id) \in Cites(JournalFile, a[JournalFile])
        BY <3>2 DEF Cites
      <3>6. a[JournalFile] # NULL
        BY <1>2, <1>5
      <3> QED
        BY <1>5, <1>6, <3>2, <3>4, <3>5, <3>6 DEF Works
    <2> QED
      BY <2>1, <2>2, <2>3 DEF ReferencesResolve
  <1> QED
    BY <1>1, <1>9, <1>10, <1>11 DEF SnapshotAccepts

\* A valid workspace has no directory with too many names.
LEMMA NamesWithinLimits ==
  ASSUME TypedFiles(files), SnapshotAccepts(Snapshot(files))
  PROVE  /\ ~(Cardinality(Read(WorkDirectory)) > MaxWork)
         /\ ~(Cardinality(Read(KnowledgeDirectory)) > MaxKnowledge)
  <1>1. PICK W, K : W = Works(Snapshot(files)) /\ K = KnownKnowledge(Snapshot(files))
    OBVIOUS
  <1>2. W \in SUBSET WorkId /\ K \in SUBSET KnowledgeId
    BY <1>1 DEF Works, KnownKnowledge
  <1>3. IsFiniteSet(W) /\ IsFiniteSet(K)
    BY <1>2, FS_Subset, InspectionAssumption
  <1>4. Cardinality(W) <= MaxWork /\ Cardinality(K) <= MaxKnowledge
    BY <1>1 DEF SnapshotAccepts, WithinItemLimits
  <1>5. /\ \A w \in WorkId : Snapshot(files)[WorkFile(w)] = files[WorkFile(w)]
        /\ \A k \in KnowledgeId : Snapshot(files)[KnowledgeFile(k)] = files[KnowledgeFile(k)]
    BY DEF Snapshot, SnapshotFiles, WorkFiles, KnowledgeFiles
  <1>6. /\ Read(WorkDirectory) = {f \in WorkFiles : files[f] # NULL}
        /\ Read(KnowledgeDirectory) = {f \in KnowledgeFiles : files[f] # NULL}
    BY Reads, DirectoriesApart DEF Directories, FilesOf
  <1>7. IsFiniteSet(Read(WorkDirectory)) /\ Cardinality(Read(WorkDirectory)) <= Cardinality(W)
    <2> DEFINE s == [w \in W |-> WorkFile(w)]
    <2>1. s \in Surjection(W, Read(WorkDirectory))
      BY <1>1, <1>5, <1>6 DEF Surjection, WorkFiles, Works
    <2> QED
      BY <1>3, <2>1, FS_Surjection
  <1>8. IsFiniteSet(Read(KnowledgeDirectory)) /\ Cardinality(Read(KnowledgeDirectory)) <= Cardinality(K)
    <2> DEFINE s == [k \in K |-> KnowledgeFile(k)]
    <2>1. s \in Surjection(K, Read(KnowledgeDirectory))
      BY <1>1, <1>5, <1>6 DEF Surjection, KnowledgeFiles, KnownKnowledge
    <2> QED
      BY <1>3, <2>1, FS_Surjection
  <1>9. /\ Cardinality(W) \in Nat /\ Cardinality(K) \in Nat
        /\ Cardinality(Read(WorkDirectory)) \in Nat /\ Cardinality(Read(KnowledgeDirectory)) \in Nat
    BY <1>3, <1>7, <1>8, FS_CardinalityType
  <1> QED
    BY <1>4, <1>7, <1>8, <1>9, LimitsAssumption

LEMMA UpdateCalm == ASSUME Base, ReadingInv, Calm, Update PROVE Calm'
  <1>1. UNCHANGED reader /\ moments \subseteq moments'
    BY DEF Update, Updated
  <1> SUFFICES ASSUME reader.at = "reading" PROVE Calm'
    BY <1>1 DEF Calm
  <1>2. PICK g, t : g = reader.got /\ t = reader.todo
    OBVIOUS
  <1>3. AlarmInv(g, t) /\ CaptureInv(g, t) /\ TypedFiles(files) /\ \A m \in moments : IsVersion(m)
    BY <1>2 DEF Calm, ReadingInv, Base, PhaseInv, Reading
  <1>4. ASSUME ~tampered'
        PROVE  ~tampered /\ \A y \in Items : files[y] # NULL => files'[y] # NULL
    <2>1. ASSUME NEW p \in Operations, Publish(p)
          PROVE  ~tampered /\ \A y \in Items : files[y] # NULL => files'[y] # NULL
      BY <1>3, <1>4, <2>1, OperationIsChange, StatusOnly DEF Publish, Items
    <2>2. ASSUME NEW c \in Outsiders, Tamper(c) PROVE FALSE
      BY <1>4, <2>2 DEF Tamper
    <2>3. ASSUME NEW p \in Path, ArtifactChange(p)
          PROVE  ~tampered /\ \A y \in Items : files[y] # NULL => files'[y] # NULL
      BY <1>4, <2>3 DEF ArtifactChange
    <2> QED
      BY <2>1, <2>2, <2>3 DEF Update
  <1>5. ASSUME ~tampered' PROVE Present(g, t)'
    BY <1>3, <1>4, <1>5 DEF AlarmInv, Present
  <1>6. ASSUME ~tampered', AlwaysValid' PROVE CitedListed(g)'
    <2>1. AlwaysValid
      BY <1>1, <1>6 DEF AlwaysValid
    <2>2. CitedListed(g)
      BY <1>3, <1>4, <1>6, <2>1 DEF AlarmInv
    <2>3. ASSUME NEW x \in DOMAIN g \cap SnapshotFiles, NEW y \in Cites(x, g[x][1])
          PROVE  y \in Items
      <3>1. PICK m \in moments : m[x] = g[x]
        BY <1>3 DEF CaptureInv
      <3>2. TypedSnapshot(Documents(m)) /\ Documents(m)[x] = g[x][1] /\ g[x][1] # NULL
        BY <1>3, <3>1 DEF IsVersion, Documents, CaptureInv
      <3> QED
        BY <3>2, CitesItems
    <2> QED
      BY <1>4, <1>6, <2>2, <2>3 DEF CitedListed
  <1>7. AlarmInv(g, t)'
    BY <1>3, <1>5, <1>6 DEF AlarmInv
  <1> QED
    BY <1>1, <1>2, <1>7 DEF Calm, AlarmInv, Present, CitedListed

\* No reading, no obligation.
LEMMA ElsewhereCalm == ASSUME NEW v, v # "reading", Enter(Idle, v) PROVE Calm' /\ reader'.at = v
  BY DEF Enter, Idle, Calm

LEMMA CompleteCalm ==
  ASSUME Base, Quiet, UNCHANGED tampered, reader.at = "reading", NEW CONSTANT g, NEW CONSTANT t,
         CaptureInv(g, t), AlarmInv(g, t), Complete(g, t)
  PROVE  Calm' /\ (reader'.at = "invalid" /\ ~tampered => ~AlwaysValid)
  <1>1. IsReader(reader)
    BY DEF Base, ReaderTyped
  <1>2. CASE t # <<>>
    <2>1. reader' = [reader EXCEPT !.got = g, !.todo = t] /\ UNCHANGED history
      BY <1>2 DEF Complete, Stay
    <2>2. reader'.at = "reading" /\ reader'.got = g /\ reader'.todo = t
      BY <1>1, <2>1 DEF IsReader
    <2>3. AlarmInv(g, t)'
      BY <2>1 DEF AlarmInv, Present, CitedListed, AlwaysValid, Quiet, history
    <2> QED
      BY <2>2, <2>3 DEF Calm, AlarmInv, Present, CitedListed
  <1>3. CASE t = <<>> /\ SnapshotAccepts(Assembled(g))
    <2>1. reader'.at = "rereading"
      BY <1>1, <1>3 DEF Complete, IsReader
    <2> QED
      BY <2>1 DEF Calm
  <1>4. CASE t = <<>> /\ ~SnapshotAccepts(Assembled(g))
    <2>1. Enter(Idle, IF reader.round = 2 THEN "raced" ELSE "invalid")
      BY <1>4 DEF Complete, Fail
    <2>2. Calm'
      BY <2>1, ElsewhereCalm
    <2>3. ~tampered => ~AlwaysValid
      BY <1>4, CompleteIsValid DEF Reading
    <2> QED
      BY <2>2, <2>3
  <1> QED
    BY <1>2, <1>3, <1>4

LEMMA CaptureCalm ==
  ASSUME Base, ReadingInv, Calm, Quiet, UNCHANGED tampered, CaptureNext
  PROVE  Calm' /\ (reader'.at = "invalid" /\ ~tampered => ~AlwaysValid)
  <1> DEFINE Goal == Calm' /\ (reader'.at = "invalid" /\ ~tampered => ~AlwaysValid)
  <1>1. PICK g, t, x, u : g = reader.got /\ t = reader.todo /\ x = Head(t) /\ u = Tail(t)
    OBVIOUS
  <1>2. /\ reader.at = "reading" /\ TypedFiles(files)
        /\ t # <<>> /\ CaptureInv(g, t) /\ t \in Seq(Parts) /\ AlarmInv(g, t)
        /\ Versions \in moments /\ \A m \in moments : IsVersion(m)
    BY <1>1, NowIsCurrent
       DEF CaptureNext, ReadingInv, CaptureInv, Base, PhaseInv, Reading, Phases, Calm
  <1>3. x \in Parts /\ u \in Seq(Parts) /\ Ran(t) = {x} \cup Ran(u)
    BY <1>1, <1>2, RanOfRest
  <1>4. AlwaysValid => SnapshotAccepts(Snapshot(files))
    BY <1>2, VersionsAre DEF AlwaysValid
  <1>5. ASSUME Fail("invalid"), ~tampered => ~AlwaysValid PROVE Goal
    BY <1>5, ElsewhereCalm DEF Fail
  <1>6. ASSUME Fail("duplicate") PROVE Goal
    BY <1>6, ElsewhereCalm DEF Fail
  <1>7. PICK h : h = WithCapture(g, x)
    OBVIOUS
  <1>8. ASSUME x \in SnapshotFiles => files[x] # NULL, x \notin {WorkDirectory, KnowledgeDirectory},
               Complete(h, u)
        PROVE  Goal
    <2>1. <<>> \in Seq(SnapshotFiles) /\ <<>> \o u = u
      BY <1>3
    <2>2. CaptureInv(WithCapture(g, x), <<>> \o u)
      BY <1>1, <1>2, <1>8, <2>1, OneMore
    <2>3. AlarmInv(WithCapture(g, x), <<>> \o u)
      BY <1>1, <1>2, <1>8, <2>1, OneMoreCalm
    <2>4. CaptureInv(h, u) /\ AlarmInv(h, u)
      BY <1>7, <2>1, <2>2, <2>3
    <2> QED
      BY <1>2, <1>8, <2>4, CompleteCalm
  <1>9. CASE x = RootDirectory
    <2>1. Complete(h, u)
      BY <1>1, <1>7, <1>9 DEF CaptureNext
    <2> QED
      BY <1>8, <1>9, <2>1, DirectoriesApart DEF Directories
  <1>10. CASE x \in {WorkDirectory, KnowledgeDirectory}
    <2>1. PICK s : s = InOrder(Read(x))
      OBVIOUS
    <2>2. \/ /\ Cardinality(Read(x)) > (IF x = WorkDirectory THEN MaxWork ELSE MaxKnowledge)
             /\ Fail("invalid")
          \/ Complete(h, s \o u)
      BY <1>1, <1>7, <1>10, <2>1, DirectoriesApart DEF CaptureNext, Directories
    <2>3. s \in Seq(SnapshotFiles) /\ Ran(s) = Read(x)
      <3>1. Read(x) \in SUBSET SnapshotFiles
        BY <1>10, Reads, FilesOfParts DEF Directories
      <3>2. IsFiniteSet(Read(x))
        <4>1. Read(x) \in SUBSET Parts
          BY <3>1 DEF Parts
        <4> QED
          BY <4>1, PartsFinite, FS_Subset
      <3>3. InOrder(Read(x)) \in Seq(Read(x)) /\ Ran(InOrder(Read(x))) = Read(x)
        BY <3>2, Ordered
      <3> QED
        BY <2>1, <3>1, <3>3
    <2>4. CASE Complete(h, s \o u)
      <3>1. CaptureInv(WithCapture(g, x), s \o u)
        BY <1>1, <1>2, <1>10, <2>3, OneMore, DirectoriesApart DEF Directories
      <3>2. AlarmInv(WithCapture(g, x), s \o u)
        BY <1>1, <1>2, <1>10, <2>3, OneMoreCalm, DirectoriesApart DEF Directories
      <3>3. PICK r : r = s \o u
        OBVIOUS
      <3>4. CaptureInv(h, r) /\ AlarmInv(h, r) /\ Complete(h, r)
        BY <1>7, <2>4, <3>1, <3>2, <3>3
      <3> QED
        BY <1>2, <3>4, CompleteCalm
    <2>5. CASE /\ Cardinality(Read(x)) > (IF x = WorkDirectory THEN MaxWork ELSE MaxKnowledge)
               /\ Fail("invalid")
      <3>1. ~AlwaysValid
        BY <1>2, <1>4, <1>10, <2>5, NamesWithinLimits, DirectoriesApart
      <3> QED
        BY <1>5, <2>5, <3>1
    <2> QED
      BY <2>2, <2>4, <2>5
  <1>11. CASE x \notin Directories
    <2>1. x \in SnapshotFiles
      BY <1>3, <1>11 DEF Parts
    <2>2. CASE files[x] = NULL /\ x = LocalFile
      <3>1. Complete(g, u)
        BY <1>1, <1>11, <2>2 DEF CaptureNext, Directories
      <3>2. CaptureInv(g, u)
        BY <1>1, <1>2, <2>2, NoLocalFile
      <3>3. AlarmInv(g, u)
        BY <1>1, <1>2, OneLessCalm
      <3> QED
        BY <1>2, <3>1, <3>2, <3>3, CompleteCalm
    <2>3. CASE files[x] = NULL /\ x # LocalFile
      <3>1. Fail("invalid")
        BY <1>1, <1>11, <2>3 DEF CaptureNext, Directories
      <3>2. x # JournalFile
        BY <1>2, <2>3, JournalTyped, InspectionAssumption DEF Journal
      <3>3. x \in Items
        BY <2>1, <2>3, <3>2, DirectoriesApart DEF Items
      <3>4. tampered
        BY <1>2, <1>3, <2>3, <3>3 DEF AlarmInv, Present
      <3> QED
        BY <1>5, <3>1, <3>4
    <2>4. CASE files[x] # NULL
      <3>1. Fail("duplicate") \/ Complete(h, u)
        BY <1>1, <1>7, <1>11, <2>4 DEF CaptureNext, Directories
      <3> QED
        BY <1>6, <1>8, <1>11, <2>4, <3>1 DEF Directories
    <2> QED
      BY <2>2, <2>3, <2>4
  <1> QED
    BY <1>9, <1>10, <1>11 DEF Directories

LEMMA StaysCalm == Inspected /\ Calm /\ [InspectionNext]_inspectionVars => Calm'
  <1> SUFFICES ASSUME Inspected, Calm, [InspectionNext]_inspectionVars PROVE Calm'
    OBVIOUS
  <1>0. Base /\ ReadingInv /\ IsReader(reader)
    BY DEF Inspected, Base, ReaderTyped
  <1>1. CASE ReaderStep
    <2>1. Quiet /\ UNCHANGED tampered
      BY <1>1 DEF ReaderStep, Quiet
    <2>2. ASSUME NEW r, IsReader(r), r.got = <<>>, r.todo = FirstPass, Enter(r, "reading")
          PROVE  Calm'
      <3>1. PICK g : g = r.got
        OBVIOUS
      <3>2. AlarmInv(g, FirstPass)'
        <4>1. DOMAIN g = {}
          BY <2>2, <3>1
        <4> QED
          BY <4>1, BeginCalm
      <3>3. reader'.got = g /\ reader'.todo = FirstPass
        BY <2>2, <3>1 DEF Enter, IsReader
      <3> QED
        BY <3>2, <3>3 DEF Calm, AlarmInv, Present, CitedListed
    <2>3. CASE Start
      <3>1. PICK r : r = [Idle EXCEPT !.todo = FirstPass]
        OBVIOUS
      <3>2. IsReader(r) /\ r.todo = FirstPass /\ r.got = <<>> /\ Enter(r, "reading")
        BY <2>3, <3>1 DEF Start, Idle, IsReader
      <3> QED
        BY <2>2, <3>2
    <2>4. CASE CaptureNext
      BY <1>0, <2>1, <2>4, CaptureCalm
    <2>5. CASE Recapture
      <3>1. reader'.at # "reading"
        BY <1>0, <2>5 DEF Recapture, Fail, Enter, Stay, Idle, IsReader
      <3> QED
        BY <3>1 DEF Calm
    <2>6. CASE Observe
      <3>1. reader'.at = "observing"
        BY <2>6, ObserveShape DEF Inspected
      <3> QED
        BY <3>1 DEF Calm
    <2>7. CASE EndOfFirstPass
      <3>1. reader'.at = "reobserving"
        BY <1>0, <2>7 DEF EndOfFirstPass, IsReader
      <3> QED
        BY <3>1 DEF Calm
    <2>8. CASE Reobserve
      <3>1. CASE SecondSnapshot
        <4>1. PICK r : r = [Idle EXCEPT !.round = 2, !.todo = FirstPass, !.snapshot = reader.snapshot]
          OBVIOUS
        <4>2. IsReader(r) /\ r.todo = FirstPass /\ r.got = <<>> /\ Enter(r, "reading")
          BY <3>1, <4>1 DEF SecondSnapshot, Idle, IsReader
        <4> QED
          BY <2>2, <4>2
      <3>2. CASE Stay([reader EXCEPT !.todo = Tail(@)])
        <4>1. reader'.at = "reobserving"
          BY <1>0, <2>8, <3>2 DEF Reobserve, Stay, IsReader
        <4> QED
          BY <4>1 DEF Calm
      <3>3. CASE Enter(Idle, "raced")
        BY <3>3, ElsewhereCalm
      <3> QED
        BY <2>8, <3>1, <3>2, <3>3 DEF Reobserve
    <2> QED
      BY <1>1, <2>3, <2>4, <2>5, <2>6, <2>7, <2>8 DEF ReaderStep
  <1>2. CASE Update
    BY <1>0, <1>2, UpdateCalm
  <1>3. CASE UNCHANGED <<files, reader, tampered, moments>>
    BY <1>3 DEF Calm, AlarmInv, Present, CitedListed, AlwaysValid
  <1>4. CASE WalkStep
    BY <1>3, <1>4 DEF WalkStep, history
  <1>5. CASE UNCHANGED inspectionVars
    BY <1>3, <1>5 DEF inspectionVars, history
  <1> QED
    BY <1>1, <1>2, <1>4, <1>5 DEF InspectionNext

LEMMA AlarmStep ==
  ASSUME Inspected, Calm, InspectionNext, reader.at = "reading", reader'.at = "invalid", ~tampered
  PROVE  \E m \in moments : ~SnapshotAccepts(Documents(m))
  <1>1. CaptureNext /\ Quiet /\ UNCHANGED tampered
    BY DEF InspectionNext, ReaderStep, WalkStep, Update, Updated, Start, Recapture, Observe,
           EndOfFirstPass, Reobserve, Quiet
  <1>2. ~AlwaysValid
    BY <1>1, CaptureCalm DEF Inspected
  <1> QED
    BY <1>2 DEF AlwaysValid

\* A reader that meets only the writers' operations never calls invalid a
\* workspace that was valid throughout: what the journal, the selection and the
\* Works cite is listed after them (snapshotMemoryWorkspace).
THEOREM ReadersRaiseNoFalseAlarm == InspectionSpec => NoFalseAlarm
  <1>1. InspectionInit => Calm
    BY DEF InspectionInit, Idle, Calm
  <1>2. InspectionSpec => []Calm
    BY <1>1, StaysCalm, InspectionInvariant, PTL DEF InspectionSpec
  <1>3. Inspected /\ Calm /\ [InspectionNext]_inspectionVars =>
           [reader.at = "reading" /\ reader'.at = "invalid" /\ ~tampered =>
               \E m \in moments : ~SnapshotAccepts(Documents(m))]_inspectionVars
    BY AlarmStep
  <1> QED
    BY <1>2, <1>3, InspectionInvariant, PTL DEF InspectionSpec, NoFalseAlarm

-----------------------------------------------------------------------------
(* What the readers of one snapshot conclude. *)

\* What ConclusionsAgree takes from a snapshot that was accepted: the selected Work
\* is one of its Works, and a Work has one of three statuses.
LEMMA StatusesOf ==
  ASSUME TypedFiles(files), SnapshotAccepts(files), NEW s, s = Snapshot(files)
  PROVE  /\ Selected(s) = NULL \/ Selected(s) \in Works(s)
         /\ NULL \notin Works(s)
         /\ \A w \in Works(s) : StatusOf(s, w) \in {"open", "paused", "complete"}
  <1>1. /\ s[LocalFile] = files[LocalFile]
        /\ \A w \in WorkId : s[WorkFile(w)] = files[WorkFile(w)]
    BY DEF Snapshot, SnapshotFiles, WorkFiles
  <1>2. Works(s) = Works(files) /\ Selected(s) = Selected(files)
    BY <1>1 DEF Works, Selected
  <1>3. \A w \in WorkId : s[WorkFile(w)] \in Work \cup {NULL}
    BY DEF TypedFiles, TypedSnapshot
  <1> QED
    BY <1>1, <1>2, <1>3, NullAssumption
       DEF SnapshotAccepts, ReferencesResolve, Works, StatusOf, Work, WORK_STATUS

\* Every reader draws the same conclusion from a snapshot, whatever its journal says.
LEMMA OneConclusion ==
  ASSUME NEW s, Selected(s) = NULL \/ Selected(s) \in Works(s), NULL \notin Works(s),
         \A w \in Works(s) : StatusOf(s, w) \in {"open", "paused", "complete"}
  PROVE  ConclusionsAgree(s)
  <1>1. /\ MemoryState(s) = "empty" <=> SelectedEntries(s) = <<>>
        /\ ArtifactLifecycle(s) = "empty" <=> SelectedEntries(s) = <<>>
        /\ MemoryState(s) = "closed_recorded" <=>
              SelectedEntries(s) # <<>> /\ CurrentStatus(s) = "complete"
        /\ ArtifactLifecycle(s) = "closed_recorded" <=>
              SelectedEntries(s) # <<>> /\ CurrentStatus(s) = "complete"
    BY DEF MemoryState, ArtifactLifecycle
  <1>2. {w \in Works(s) : LotCategory(s, w) = "eligible"} = EligibleWorks(s) \ {Selected(s)}
    <2>1. ASSUME NEW w \in Works(s)
          PROVE  LotCategory(s, w) = "eligible" <=> w \in EligibleWorks(s) /\ w # Selected(s)
      BY <2>1 DEF LotCategory, EligibleWorks
    <2>2. EligibleWorks(s) \subseteq Works(s)
      BY DEF EligibleWorks
    <2> QED
      BY <2>1, <2>2
  <1>3. CASE Selected(s) = NULL
    <2>1. CurrentStatus(s) = "unknown" /\ NextAction(s) = RoutingAction(s)
      BY <1>3 DEF CurrentStatus, NextAction
    <2>2. Works(s) = {} => Incomplete(s) = {}
      BY DEF Incomplete
    <2>3. /\ Incomplete(s) # {} => /\ RoutingAction(s) = "choose_work"
                                   /\ Readiness(s) = "WORK_SELECTION_REQUIRED"
          /\ Incomplete(s) = {} => /\ RoutingAction(s) \in {"record_work", "continuity_complete"}
                                   /\ Readiness(s) # "WORK_SELECTION_REQUIRED"
      BY <1>3, <2>2 DEF RoutingAction, Readiness
    <2>4. /\ Incomplete(s) # {} => /\ Guidance(s).reason = "WORK_SELECTION_REQUIRED"
                                   /\ Guidance(s).action = "none"
          /\ Incomplete(s) = {} => /\ Guidance(s).reason = "NO_CONTINUITY_RECORD"
                                   /\ Guidance(s).action = "record"
      BY <1>3, <2>1 DEF Guidance
    <2> QED
      BY <1>1, <1>2, <1>3, <2>1, <2>3, <2>4 DEF ConclusionsAgree
  <1>4. CASE Selected(s) # NULL
    <2> DEFINE status == StatusOf(s, Selected(s))
    <2>1. status \in {"open", "paused", "complete"} /\ Works(s) # {}
      BY <1>4
    <2>2. /\ status = "open" => CurrentStatus(s) = "active"
          /\ status # "open" => CurrentStatus(s) = status
      BY <1>4, <2>1 DEF CurrentStatus
    <2>3. /\ status = "complete" => RoutingAction(s) = "finish_recorded"
          /\ status = "paused" => RoutingAction(s) = "review_paused_work"
          /\ status = "open" => RoutingAction(s) = "continue_selected_work"
      BY <1>4, <2>1 DEF RoutingAction
    <2>4. Readiness(s) = "ready"
      BY <1>4, <2>1 DEF Readiness
    <2>5. CASE status = "complete"
      <3>1. NextAction(s) = "finish_recorded"
        BY <1>4, <2>5 DEF NextAction
      <3>2. Guidance(s).action = "finish_recorded" /\ Guidance(s).reason = "COMPLETE_STATE_RECORDED"
        BY <1>4, <2>2, <2>5 DEF Guidance
      <3> QED
        BY <1>1, <1>2, <1>4, <2>3, <2>4, <2>5, <3>1, <3>2 DEF ConclusionsAgree
    <2>6. CASE status # "complete" /\ RepeatedAttempt(s)
      <3>1. NextAction(s) = "reframe_recommended"
        BY <1>4, <2>6 DEF NextAction
      <3>2. /\ Guidance(s).action = "reconsider"
            /\ Guidance(s).reason = "EQUIVALENT_UNSUPPORTED_ATTEMPT_REPEATED"
        BY <1>4, <2>1, <2>2, <2>6 DEF Guidance
      <3> QED
        BY <1>1, <1>2, <1>4, <2>4, <3>1, <3>2 DEF ConclusionsAgree
    <2>7. CASE status # "complete" /\ ~RepeatedAttempt(s) /\ CurrentBlockers(s) # <<>>
      <3>1. NextAction(s) = "resolve_recorded_blocker"
        BY <1>4, <2>7 DEF NextAction
      <3>2. Guidance(s).action = "pause" /\ Guidance(s).reason = "RECORDED_BLOCKER_OPEN"
        BY <1>4, <2>1, <2>2, <2>7 DEF Guidance
      <3> QED
        BY <1>1, <1>2, <1>4, <2>4, <3>1, <3>2 DEF ConclusionsAgree
    <2>8. CASE status = "paused" /\ ~RepeatedAttempt(s) /\ CurrentBlockers(s) = <<>>
      <3>1. NextAction(s) = "review_paused_work"
        BY <1>4, <2>8 DEF NextAction
      <3>2. \/ /\ Guidance(s).action = "resume_candidate"
               /\ Guidance(s).reason = "EXACT_RECORDED_RELATION_AVAILABLE"
            \/ /\ Guidance(s).action = "pause"
               /\ Guidance(s).reason = "PAUSED_WITHOUT_EXACT_REACTIVATION_SIGNAL"
        BY <1>4, <2>2, <2>8 DEF Guidance
      <3> QED
        BY <1>1, <1>2, <1>4, <2>3, <2>4, <2>8, <3>1, <3>2 DEF ConclusionsAgree
    <2>9. CASE status = "open" /\ ~RepeatedAttempt(s) /\ CurrentBlockers(s) = <<>>
      <3>1. NextAction(s) = "continue_selected_work"
        BY <1>4, <2>9 DEF NextAction
      <3>2. \/ /\ Guidance(s).action = "record"
               /\ Guidance(s).reason = "NO_CONTINUITY_RECORD"
            \/ /\ Guidance(s).action = "continue"
               /\ Guidance(s).reason = "RECORDED_ACTION_AVAILABLE"
        BY <1>4, <2>2, <2>9 DEF Guidance
      <3> QED
        BY <1>1, <1>2, <1>4, <2>3, <2>4, <2>9, <3>1, <3>2 DEF ConclusionsAgree
    <2> QED
      BY <2>1, <2>5, <2>6, <2>7, <2>8, <2>9
  <1> QED
    BY <1>3, <1>4

\* Of a workspace that a snapshot accepts, whatever writers, editors and Git have
\* made of it, the evaluator, the router, the facts and the lots view conclude the
\* same: whether the Work is to be chosen, finished, reconsidered, unblocked, resumed
\* or continued.
THEOREM ReadersConclude == InspectionSpec => [](SnapshotAccepts(files) => ConclusionsAgree(Snapshot(files)))
  <1>1. Inspected => (SnapshotAccepts(files) => ConclusionsAgree(Snapshot(files)))
    BY StatusesOf, OneConclusion DEF Inspected, Base
  <1> QED
    BY <1>1, InspectionInvariant, PTL
=============================================================================
