-------------------------- MODULE PendingCheckpoints --------------------------
(***************************************************************************)
(* Pending checkpoints: `.dubsar-pending/<declared_source>/<id>.md`.        *)
(*                                                                          *)
(* `pending record` publishes a candidate beside the canonical workspace    *)
(* under a lock of its own; `pending promote` appends one candidate to the  *)
(* canonical journal under the memory writers' lock.  The two locks do not  *)
(* exclude each other, candidates recorded in other worktrees arrive with   *)
(* Git merges under no lock at all, and nothing ever removes a candidate.   *)
(*                                                                          *)
(* The other memory writers are AtomicWorkspace's operations, taken while   *)
(* the memory lock is free: WriterAndReaderProofs shows that each of their  *)
(* commits is one of them.  A preview writes nothing and an apply requires  *)
(* the digest of everything it was built from, so an apply is modelled from *)
(* the build the user confirmed.                                            *)
(***************************************************************************)
EXTENDS AtomicWorkspace

CONSTANTS
    DeclaredSource,  \* declared sources
    Authors,         \* what candidates' authors write
    Process,
    MaxSources,      \* MEMORY_PENDING_MAX_SOURCES
    MaxCandidates,   \* MEMORY_PENDING_MAX_CANDIDATES
    MaxCrashes,      \* bound: processes that die
    MaxMerges        \* bound: candidates that arrive from other worktrees

\* What the author of a candidate writes, `memory checkpoint` takes as well.
ASSUME PendingAssumption ==
    /\ Authors \subseteq Author
    /\ \A a \in Authors : [op |-> "checkpoint_append", entry |-> a] \in Proposals
    /\ {MaxSources, MaxCandidates, MaxCrashes, MaxMerges} \subseteq Nat

VARIABLES
    pending,      \* the candidate in each slot, NULL where there is no file
    dirs,         \* the source directories
    debris,       \* the source directories that hold a temporary file
    recordLock,   \* does .dubsar-pending-record.lock exist
    memoryLock,   \* does .dubsar/.dubsar-memory.lock exist
    pc,
    change,       \* the confirmed change a process is publishing
    crashes, merges

pendingVars == <<pending, dirs, debris, recordLock>>
processVars == <<pc, change>>
vars == <<files, memoryLock, crashes, merges, pendingVars, processVars>>

Slot == DeclaredSource \X CheckpointId

Candidate == [entry : Authors, base : Seq(Author), base_work : Seq(Author)]

PC == {"idle", "confirmed", "locked", "rechecked", "opened", "staged", "ready",
       "closing"}

TypeOK ==
    /\ TypedFiles(files)
    /\ DOMAIN pending = Slot
    /\ \A t \in Slot : pending[t] # NULL =>
          pending[t] \in Candidate /\ pending[t].entry.checkpoint_id = t[2]
    /\ dirs \subseteq DeclaredSource /\ debris \subseteq dirs
    /\ recordLock \in BOOLEAN /\ memoryLock \in BOOLEAN
    /\ pc \in [Process -> PC]
    /\ DOMAIN change = Process
    /\ crashes \in 0..MaxCrashes /\ merges \in 0..MaxMerges

Init ==
    /\ AtomicInit
    /\ pending = [t \in Slot |-> NULL] /\ dirs = {} /\ debris = {}
    /\ recordLock = FALSE /\ memoryLock = FALSE
    /\ pc = [w \in Process |-> "idle"]
    /\ change = [w \in Process |-> NULL]
    /\ crashes = 0 /\ merges = 0

-----------------------------------------------------------------------------
(* What the two commands read. *)

Ids(j) == {j[i].checkpoint_id : i \in 1..Len(j)}

\* The digest of the last entry about one Work.
WorkHead(j, w) ==
    LET about == {i \in 1..Len(j) : j[i].work_id = w} IN
    IF about = {} THEN <<>>
    ELSE CheckpointDigest(j[CHOOSE i \in about : \A k \in about : k <= i])

\* shared_snapshot_sha256 leaves local.json out.
Shared(f) == [p \in SnapshotFiles \ {LocalFile} |-> f[p]]

Recorded == {t \in Slot : pending[t] # NULL}

CitesKnown(a, f) ==
    a.work_id \in Works(f) /\ (a.resolves = NULL \/ a.resolves \in Ids(Journal(f)))

CandidateOf(a, j) ==
    [entry |-> a, base |-> HeadDigest(j), base_work |-> WorkHead(j, a.work_id)]

\* inventoryPending refuses any file that is not a candidate.
HasRoom(t) ==
    /\ debris = {} /\ t \notin Recorded
    /\ Cardinality(Recorded \cup {t}) <= MaxCandidates
    /\ Cardinality(dirs \cup {t[1]}) <= MaxSources

\* listPendingCheckpoints: one bad entry and nothing is listed.
ListAccepts ==
    /\ debris = {}
    /\ Cardinality(dirs) <= MaxSources /\ Cardinality(Recorded) <= MaxCandidates
    /\ \A t \in Recorded : CitesKnown(pending[t].entry, files)

UniqueCandidate(t) == \A u \in Recorded : u[2] = t[2] => u = t

AlreadyPromoted(t) ==
    \E i \in 1..Len(Journal(files)) : AuthorOf(Journal(files)[i]) = pending[t].entry

\* Mutant: the head of the candidate's Work is not compared.
AppendableStale(t) ==
    /\ t[2] \notin Ids(Journal(files))
    /\ CitesKnown(pending[t].entry, files)
    /\ Len(Journal(files)) < MaxCheckpoints

\* classifyPromotion: "ready" or "stale_chain"; a candidate whose Work has
\* moved since it was recorded is refused.
Appendable(t) ==
    /\ t[2] \notin Ids(Journal(files))
    /\ CitesKnown(pending[t].entry, files)
    /\ pending[t].base_work = WorkHead(Journal(files), pending[t].entry.work_id)
    /\ Len(Journal(files)) < MaxCheckpoints

PromotionAccepts(t) ==
    /\ SnapshotAccepts(files)
    /\ ListAccepts /\ t \in Recorded /\ UniqueCandidate(t)
    /\ AlreadyPromoted(t) \/ Appendable(t)

BuildRecord(t, a) ==
    [kind |-> "record", slot |-> t, shared |-> Shared(files),
     after |-> CandidateOf(a, Journal(files))]

BuildPromotion(t) ==
    [kind |-> "promote", slot |-> t, snapshot |-> Snapshot(files), listed |-> pending,
     already |-> AlreadyPromoted(t),
     after |-> IF AlreadyPromoted(t) THEN Journal(files)
               ELSE Appended(Journal(files), pending[t].entry)]

Recording(w) == pc[w] # "idle" /\ change[w].kind = "record"
Promoting(w) == pc[w] # "idle" /\ change[w].kind = "promote"

Goto(w, label) == pc' = [pc EXCEPT ![w] = label]

-----------------------------------------------------------------------------
(* Recording (buildPendingRecord, publishPendingRecord). *)

\* Mutant: the Work and the resolution a candidate cites are not looked up.
StartRecordUnchecked(w) ==
    /\ pc[w] = "idle"
    /\ \E s \in DeclaredSource, a \in Authors :
          LET t == <<s, a.checkpoint_id>> IN
          /\ SnapshotAccepts(files) /\ HasRoom(t)
          /\ change' = [change EXCEPT ![w] = BuildRecord(t, a)]
    /\ Goto(w, "confirmed")
    /\ UNCHANGED <<files, memoryLock, pendingVars, crashes, merges>>

StartRecord(w) ==
    /\ pc[w] = "idle"
    /\ \E s \in DeclaredSource, a \in Authors :
          LET t == <<s, a.checkpoint_id>> IN
          /\ SnapshotAccepts(files) /\ CitesKnown(a, files) /\ HasRoom(t)
          /\ change' = [change EXCEPT ![w] = BuildRecord(t, a)]
    /\ Goto(w, "confirmed")
    /\ UNCHANGED <<files, memoryLock, pendingVars, crashes, merges>>

\* Mutant: the second process shares the record lock.
LockRecordShared(w) ==
    /\ Recording(w) /\ pc[w] = "confirmed"
    /\ recordLock' = TRUE
    /\ Goto(w, "locked")
    /\ UNCHANGED <<files, memoryLock, pending, dirs, debris, change, crashes, merges>>

LockRecord(w) ==
    /\ Recording(w) /\ pc[w] = "confirmed"
    /\ ~recordLock
    /\ recordLock' = TRUE
    /\ Goto(w, "locked")
    /\ UNCHANGED <<files, memoryLock, pending, dirs, debris, change, crashes, merges>>

\* Mutant: the limits are those of the preview.
RecordStillFitsUncounted(w) ==
    /\ SnapshotAccepts(files) /\ Shared(files) = change[w].shared
    /\ change[w].slot \notin Recorded

RecordStillFits(w) ==
    /\ SnapshotAccepts(files) /\ Shared(files) = change[w].shared
    /\ HasRoom(change[w].slot)

RecheckRecord(w) ==
    /\ Recording(w) /\ pc[w] = "locked"
    /\ RecordStillFits(w)
    /\ Goto(w, "rechecked")
    /\ UNCHANGED <<files, memoryLock, pendingVars, change, crashes, merges>>

\* ensurePendingTree: a source directory stays, whatever happens next.
MakeTree(w) ==
    /\ Recording(w) /\ pc[w] = "rechecked"
    /\ dirs' = dirs \cup {change[w].slot[1]}
    /\ Goto(w, "opened")
    /\ UNCHANGED <<files, memoryLock, pending, debris, recordLock, change, crashes, merges>>

StageRecord(w) ==
    /\ Recording(w) /\ pc[w] = "opened"
    /\ pending[change[w].slot] = NULL
    /\ debris' = debris \cup {change[w].slot[1]}
    /\ Goto(w, "staged")
    /\ UNCHANGED <<files, memoryLock, pending, dirs, recordLock, change, crashes, merges>>

FinalCheckRecord(w) ==
    /\ Recording(w) /\ pc[w] = "staged"
    /\ pending[change[w].slot] = NULL
    /\ Goto(w, "ready")
    /\ UNCHANGED <<files, memoryLock, pendingVars, change, crashes, merges>>

RenameRecord(w) ==
    /\ Recording(w) /\ pc[w] = "ready"
    /\ pending' = [pending EXCEPT ![change[w].slot] = change[w].after]
    /\ debris' = debris \ {change[w].slot[1]}
    /\ Goto(w, "closing")
    /\ UNCHANGED <<files, memoryLock, dirs, recordLock, change, crashes, merges>>

\* PENDING_LOCKED, PENDING_CONCURRENT, PENDING_LIMIT_EXCEEDED; or the target
\* has appeared since the recheck.
RefuseRecord(w) ==
    /\ Recording(w)
    /\ \/ pc[w] = "locked" /\ ~RecordStillFits(w)
       \/ pc[w] \in {"opened", "staged"} /\ pending[change[w].slot] # NULL
    /\ Goto(w, "closing")
    /\ UNCHANGED <<files, memoryLock, pendingVars, change, crashes, merges>>

\* Mutant: finally forgets the temporary file.
CloseRecordKeepingTemp(w) ==
    /\ Recording(w) /\ pc[w] = "closing"
    /\ recordLock' = FALSE
    /\ Goto(w, "idle")
    /\ change' = [change EXCEPT ![w] = NULL]
    /\ UNCHANGED <<files, memoryLock, pending, dirs, debris, crashes, merges>>

\* The finally block.  An unlink that fails there, which the code swallows, is
\* left out.
CloseRecord(w) ==
    /\ Recording(w) /\ pc[w] = "closing"
    /\ debris' = debris \ {change[w].slot[1]}
    /\ recordLock' = FALSE
    /\ Goto(w, "idle")
    /\ change' = [change EXCEPT ![w] = NULL]
    /\ UNCHANGED <<files, memoryLock, pending, dirs, crashes, merges>>

-----------------------------------------------------------------------------
(* Promoting (buildPromotion, publishPromotion). *)

StartPromote(w) ==
    /\ pc[w] = "idle"
    /\ \E t \in Slot :
          /\ PromotionAccepts(t)
          /\ change' = [change EXCEPT ![w] = BuildPromotion(t)]
    /\ Goto(w, "confirmed")
    /\ UNCHANGED <<files, memoryLock, pendingVars, crashes, merges>>

\* Mutant: promotions lock one another but not the memory writers.
LockMemoryElsewhere(w) ==
    /\ Promoting(w) /\ pc[w] = "confirmed"
    /\ ~recordLock
    /\ recordLock' = TRUE
    /\ Goto(w, "locked")
    /\ UNCHANGED <<files, memoryLock, pending, dirs, debris, change, crashes, merges>>

LockMemory(w) ==
    /\ Promoting(w) /\ pc[w] = "confirmed"
    /\ ~memoryLock
    /\ memoryLock' = TRUE
    /\ Goto(w, "locked")
    /\ UNCHANGED <<files, pendingVars, change, crashes, merges>>

\* Either lock is taken: the apply is refused, it does not wait.
RefuseLocked(w) ==
    /\ pc[w] = "confirmed"
    /\ IF Recording(w) THEN recordLock ELSE memoryLock
    /\ Goto(w, "idle")
    /\ change' = [change EXCEPT ![w] = NULL]
    /\ UNCHANGED <<files, memoryLock, pendingVars, crashes, merges>>

\* The promotion is built again under the lock and every digest compared.
PromotionStillCurrent(w) ==
    PromotionAccepts(change[w].slot) /\ BuildPromotion(change[w].slot) = change[w]

\* already_promoted returns without a write.
RecheckPromotion(w) ==
    /\ Promoting(w) /\ pc[w] = "locked"
    /\ PromotionStillCurrent(w)
    /\ Goto(w, IF change[w].already THEN "closing" ELSE "rechecked")
    /\ UNCHANGED <<files, memoryLock, pendingVars, change, crashes, merges>>

\* The temporary file lies in .dubsar/, where a snapshot ignores it.
StagePromotion(w) ==
    /\ Promoting(w) /\ pc[w] = "rechecked"
    /\ Goto(w, "staged")
    /\ UNCHANGED <<files, memoryLock, pendingVars, change, crashes, merges>>

FinalCheckPromotion(w) ==
    /\ Promoting(w) /\ pc[w] = "staged"
    /\ Journal(files) = Journal(change[w].snapshot)
    /\ Goto(w, "ready")
    /\ UNCHANGED <<files, memoryLock, pendingVars, change, crashes, merges>>

\* The commit; what is checked after it only decides what the caller is told.
RenamePromotion(w) ==
    /\ Promoting(w) /\ pc[w] = "ready"
    /\ files' = [files EXCEPT ![JournalFile] = change[w].after]
    /\ Goto(w, "closing")
    /\ UNCHANGED <<memoryLock, pendingVars, change, crashes, merges>>

RefusePromotion(w) ==
    /\ Promoting(w)
    /\ \/ pc[w] = "locked" /\ ~PromotionStillCurrent(w)
       \/ pc[w] = "staged" /\ Journal(files) # Journal(change[w].snapshot)
    /\ Goto(w, "closing")
    /\ UNCHANGED <<files, memoryLock, pendingVars, change, crashes, merges>>

ClosePromotion(w) ==
    /\ Promoting(w) /\ pc[w] = "closing"
    /\ memoryLock' = FALSE
    /\ Goto(w, "idle")
    /\ change' = [change EXCEPT ![w] = NULL]
    /\ UNCHANGED <<files, pendingVars, crashes, merges>>

-----------------------------------------------------------------------------
(* The environment. *)

\* A memory writer commits one change.
CanonicalWrite ==
    /\ ~memoryLock
    /\ AtomicNext
    /\ UNCHANGED <<memoryLock, pendingVars, processVars, crashes, merges>>

\* A Git merge brings a candidate recorded in another worktree, from a journal
\* that the current one extends.
Merge ==
    /\ merges < MaxMerges
    /\ \E s \in DeclaredSource, a \in Authors, n \in 0..Len(Journal(files)) :
          LET t == <<s, a.checkpoint_id>> IN
          /\ t \notin Recorded
          /\ CitesKnown(a, files)
          /\ a.resolves \in {NULL} \cup Ids(SubSeq(Journal(files), 1, n))
          /\ pending' = [pending EXCEPT ![t] = CandidateOf(a, SubSeq(Journal(files), 1, n))]
          /\ dirs' = dirs \cup {s}
    /\ merges' = merges + 1
    /\ UNCHANGED <<files, memoryLock, debris, recordLock, processVars, crashes>>

\* A read, a write or the rename fails under a lock.
IOFailure(w) ==
    /\ pc[w] \in {"locked", "rechecked", "opened", "staged", "ready"}
    /\ Goto(w, "closing")
    /\ UNCHANGED <<files, memoryLock, pendingVars, change, crashes, merges>>

\* The process dies; what it left on disk stays.
Crash(w) ==
    /\ pc[w] # "idle" /\ crashes < MaxCrashes
    /\ crashes' = crashes + 1
    /\ Goto(w, "idle")
    /\ change' = [change EXCEPT ![w] = NULL]
    /\ UNCHANGED <<files, memoryLock, pendingVars, merges>>

-----------------------------------------------------------------------------
Record(w) ==
    \/ LockRecord(w) \/ RecheckRecord(w) \/ MakeTree(w) \/ StageRecord(w)
    \/ FinalCheckRecord(w) \/ RenameRecord(w) \/ RefuseRecord(w) \/ CloseRecord(w)

Promote(w) ==
    \/ LockMemory(w) \/ RecheckPromotion(w) \/ StagePromotion(w)
    \/ FinalCheckPromotion(w) \/ RenamePromotion(w) \/ RefusePromotion(w) \/ ClosePromotion(w)

Next ==
    \/ \E w \in Process :
          \/ StartRecord(w) \/ StartPromote(w) \/ RefuseLocked(w)
          \/ Record(w) \/ Promote(w) \/ IOFailure(w) \/ Crash(w)
    \/ CanonicalWrite
    \/ Merge

Spec == Init /\ [][Next]_vars

-----------------------------------------------------------------------------
(* Properties. *)

\* A promotion continues the chain its author saw: no checkpoint about the
\* candidate's Work lies between the head the candidate was recorded on and
\* the entry the promotion appends, however long ago it was recorded.
ContinuesWorkChain ==
    [][\A w \in Process :
          (Promoting(w) /\ pc[w] = "ready" /\ files' # files) =>
              LET c == pending[change[w].slot] IN
              /\ AuthorOf(Journal(files')[Len(Journal(files'))]) = c.entry
              /\ c.base_work = WorkHead(Journal(files), c.entry.work_id)]_vars

\* A candidate is immutable: two records of one source and id never replace one
\* another, and a promotion leaves the candidate where it is.  (A merge that
\* lands between a record's last check and its rename is not seen.)
CandidatesImmutable ==
    [][\A t \in Slot : merges = 0 /\ pending[t] # NULL => pending'[t] = pending[t]]_vars

\* However records interleave, they never fill .dubsar-pending beyond what the
\* list accepts, which would make every candidate unreadable.
WithinPendingLimits ==
    merges = 0 => Cardinality(Recorded) <= MaxCandidates /\ Cardinality(dirs) <= MaxSources

\* The temporary file that makes every list, record and promotion fail is
\* never there without the record lock, which tells the user why.
DebrisGuarded == debris # {} => recordLock

\* Nothing listPendingCheckpoints requires of a candidate can stop holding once
\* it is recorded: no later canonical write makes the list fail with
\* PENDING_ENTRY_INVALID.
CandidatesListable == \A t \in Recorded : CitesKnown(pending[t].entry, files)

\* The list of all candidates, which one candidate too many, one temporary file
\* or one candidate with an unknown subject makes fail, and every promotion
\* with it, fails on none of them behind the user's back.
PendingTreeListable == TypeOK /\ WithinPendingLimits /\ DebrisGuarded /\ CandidatesListable
=============================================================================
