----------------------------- MODULE MemoryWriter -----------------------------
(***************************************************************************)
(* Writers of one `.dubsar/` workspace (memory-vnext-writer.mjs).           *)
(*                                                                          *)
(* Each writer is a process (a CLI call, an agent).  `previewMemoryChange`  *)
(* builds a change and shows it; `applyMemoryChange` builds it again,       *)
(* requires the digest the user confirmed, takes the lock file, captures    *)
(* the workspace again under the lock, stages the new document beside its   *)
(* target, checks the target once more and renames.  There is no daemon:    *)
(* the only coordination is the lock file and what a writer reads back.     *)
(*                                                                          *)
(* A process may die between any two steps.  OutsideUpdates adds the writes *)
(* that do not take the lock.                                               *)
(***************************************************************************)
EXTENDS AtomicWorkspace

CONSTANTS
    Writer,
    MaxCrashes     \* bound: processes that die

ASSUME CrashesAssumption == MaxCrashes \in Nat

ASSUME WriterAssumption == NULL \notin Writer

VARIABLES
    lockFile,   \* does .dubsar-memory.lock exist
    pc,         \* where each writer is
    job,        \* the build in progress: its mode, proposal and snapshot
    shown,      \* the last preview each writer's user has in hand
    change,     \* the change a writer is publishing
    temp,       \* the bytes in a writer's temporary file
    crashes

vars == <<files, lockFile, pc, job, shown, change, temp, crashes>>

\* Between creating the lock file and unlinking it.
Holding == {"locked", "rechecked", "staged", "ready", "published", "closing"}
PC == {"idle", "captured", "confirmed"} \cup Holding

TypeOK ==
    /\ TypedFiles(files)
    /\ lockFile \in BOOLEAN
    /\ pc \in [Writer -> PC]
    /\ DOMAIN job = Writer /\ DOMAIN shown = Writer
    /\ DOMAIN change = Writer /\ DOMAIN temp = Writer
    /\ \A w \in Writer : pc[w] = "captured" =>
          job[w].mode \in {"preview", "apply"} /\ TypedSnapshot(job[w].snapshot)
    /\ crashes \in 0..MaxCrashes

Init ==
    /\ files = InitialFiles
    /\ lockFile = FALSE
    /\ pc = [w \in Writer |-> "idle"]
    /\ job = [w \in Writer |-> NULL]
    /\ shown = [w \in Writer |-> NULL]
    /\ change = [w \in Writer |-> NULL]
    /\ temp = [w \in Writer |-> NULL]
    /\ crashes = 0

-----------------------------------------------------------------------------
(* Building a change: a snapshot first, then the live files it depends on.  *)
(* Both previewMemoryChange and applyMemoryChange start this way.           *)

Capture(w, mode, p) ==
    /\ pc[w] = "idle"
    /\ SnapshotAccepts(files)
    /\ job' = [job EXCEPT ![w] = [mode |-> mode, proposal |-> p,
                                  snapshot |-> Snapshot(files)]]
    /\ pc' = [pc EXCEPT ![w] = "captured"]
    /\ UNCHANGED <<files, lockFile, shown, change, temp, crashes>>

StartPreview(w) == \E p \in Requests(files) : Capture(w, "preview", p)

\* The user confirms the preview in hand: the same proposal, its digest expected.
StartApply(w) == shown[w] # NULL /\ Capture(w, "apply", shown[w].proposal)

BuildAccepts(w) == Accepted(job[w].proposal, job[w].snapshot, files)
Built(w) == BuildChange(job[w].proposal, job[w].snapshot, files)

ShowPreview(w) ==
    /\ pc[w] = "captured" /\ job[w].mode = "preview"
    /\ BuildAccepts(w)
    /\ shown' = [shown EXCEPT ![w] = Built(w)]
    /\ job' = [job EXCEPT ![w] = NULL]
    /\ pc' = [pc EXCEPT ![w] = "idle"]
    /\ UNCHANGED <<files, lockFile, change, temp, crashes>>

\* publishOneFile starts by requiring the confirmed digest.
Confirm(w) ==
    /\ pc[w] = "captured" /\ job[w].mode = "apply"
    /\ BuildAccepts(w)
    /\ Built(w) = shown[w]
    /\ change' = [change EXCEPT ![w] = Built(w)]
    /\ job' = [job EXCEPT ![w] = NULL]
    /\ pc' = [pc EXCEPT ![w] = "confirmed"]
    /\ UNCHANGED <<files, lockFile, shown, temp, crashes>>

\* The build throws, or MEMORY_CHANGE_CONFIRMATION_MISMATCH.
RefuseBuild(w) ==
    /\ pc[w] = "captured"
    /\ ~BuildAccepts(w) \/ (job[w].mode = "apply" /\ Built(w) # shown[w])
    /\ job' = [job EXCEPT ![w] = NULL]
    /\ pc' = [pc EXCEPT ![w] = "idle"]
    /\ UNCHANGED <<files, lockFile, shown, change, temp, crashes>>

-----------------------------------------------------------------------------
(* Publishing one file (publishOneFile). *)

\* Mutant: the lock is opened with "w", which succeeds on an existing file.
LockShared(w) ==
    /\ pc[w] = "confirmed"
    /\ lockFile' = TRUE
    /\ pc' = [pc EXCEPT ![w] = "locked"]
    /\ UNCHANGED <<files, job, shown, change, temp, crashes>>

\* open(lockPath, "wx") succeeds only where there is no lock file.
Lock(w) ==
    /\ pc[w] = "confirmed"
    /\ ~lockFile
    /\ lockFile' = TRUE
    /\ pc' = [pc EXCEPT ![w] = "locked"]
    /\ UNCHANGED <<files, job, shown, change, temp, crashes>>

\* Mutant: the finally block unlinks the lock without asking ownsLock.
RefuseLockedUnlinking(w) ==
    /\ pc[w] = "confirmed"
    /\ lockFile
    /\ lockFile' = FALSE
    /\ change' = [change EXCEPT ![w] = NULL]
    /\ pc' = [pc EXCEPT ![w] = "idle"]
    /\ UNCHANGED <<files, job, shown, temp, crashes>>

\* MEMORY_CHANGE_LOCKED: nothing waits for a lock, nothing breaks one.
RefuseLocked(w) ==
    /\ pc[w] = "confirmed"
    /\ lockFile
    /\ change' = [change EXCEPT ![w] = NULL]
    /\ pc' = [pc EXCEPT ![w] = "idle"]
    /\ UNCHANGED <<files, lockFile, job, shown, temp, crashes>>

\* Mutant: only the target is compared, not the canonical snapshot.
StillCurrentTargetOnly(w) ==
    SnapshotAccepts(files) /\ files[change[w].target] = change[w].before

\* The live workspace is still the one the change was built from.
StillCurrent(w) ==
    LET c == change[w] IN
    /\ SnapshotAccepts(files)
    /\ Snapshot(files) = c.snapshot
    /\ files[c.target] = c.before
    /\ Source(c.proposal, files) = c.source

Recheck(w) ==
    /\ pc[w] = "locked"
    /\ StillCurrent(w)
    /\ pc' = [pc EXCEPT ![w] = "rechecked"]
    /\ UNCHANGED <<files, lockFile, job, shown, change, temp, crashes>>

Stage(w) ==
    /\ pc[w] = "rechecked"
    /\ temp' = [temp EXCEPT ![w] = change[w].after]
    /\ pc' = [pc EXCEPT ![w] = "staged"]
    /\ UNCHANGED <<files, lockFile, job, shown, change, crashes>>

\* Mutant: the target is not captured again after staging.
FinalCheckSkipped(w) ==
    /\ pc[w] = "staged"
    /\ temp[w] = change[w].after
    /\ pc' = [pc EXCEPT ![w] = "ready"]
    /\ UNCHANGED <<files, lockFile, job, shown, change, temp, crashes>>

FinalCheck(w) ==
    /\ pc[w] = "staged"
    /\ temp[w] = change[w].after
    /\ files[change[w].target] = change[w].before
    /\ pc' = [pc EXCEPT ![w] = "ready"]
    /\ UNCHANGED <<files, lockFile, job, shown, change, temp, crashes>>

\* The commit: one rename replaces the target.
Rename(w) ==
    /\ pc[w] = "ready"
    /\ files' = [files EXCEPT ![change[w].target] = temp[w]]
    /\ temp' = [temp EXCEPT ![w] = NULL]
    /\ pc' = [pc EXCEPT ![w] = "published"]
    /\ UNCHANGED <<lockFile, job, shown, change, crashes>>

\* The capture and snapshot after the rename decide only what the caller is
\* told: "applied", or an error although the change is published.
Verify(w) ==
    /\ pc[w] = "published"
    /\ pc' = [pc EXCEPT ![w] = "closing"]
    /\ UNCHANGED <<files, lockFile, job, shown, change, temp, crashes>>

\* MEMORY_CHANGE_CONCURRENT, from either check made under the lock.
RefuseConcurrent(w) ==
    /\ \/ pc[w] = "locked" /\ ~StillCurrent(w)
       \/ pc[w] = "staged" /\ files[change[w].target] # change[w].before
    /\ pc' = [pc EXCEPT ![w] = "closing"]
    /\ UNCHANGED <<files, lockFile, job, shown, change, temp, crashes>>

\* A read, a write or the rename fails before anything is published.
IOFailure(w) ==
    /\ pc[w] \in {"locked", "rechecked", "staged", "ready"}
    /\ pc' = [pc EXCEPT ![w] = "closing"]
    /\ UNCHANGED <<files, lockFile, job, shown, change, temp, crashes>>

\* Mutant: the lock is unlinked on the published path only.
CloseOnSuccess(w) ==
    /\ pc[w] = "closing"
    /\ temp' = [temp EXCEPT ![w] = NULL]
    /\ lockFile' = (temp[w] # NULL)
    /\ change' = [change EXCEPT ![w] = NULL]
    /\ pc' = [pc EXCEPT ![w] = "idle"]
    /\ UNCHANGED <<files, job, shown, crashes>>

\* The finally block: the temporary file goes unless published, then the lock.
Close(w) ==
    /\ pc[w] = "closing"
    /\ temp' = [temp EXCEPT ![w] = NULL]
    /\ lockFile' = FALSE
    /\ change' = [change EXCEPT ![w] = NULL]
    /\ pc' = [pc EXCEPT ![w] = "idle"]
    /\ UNCHANGED <<files, job, shown, crashes>>

-----------------------------------------------------------------------------
(* The environment. *)

\* The process dies: what it keeps in memory is lost, what it left on disk
\* stays.  No process ever removes a lock file it does not own.
Crash(w) ==
    /\ pc[w] # "idle" /\ crashes < MaxCrashes
    /\ crashes' = crashes + 1
    /\ pc' = [pc EXCEPT ![w] = "idle"]
    /\ job' = [job EXCEPT ![w] = NULL]
    /\ change' = [change EXCEPT ![w] = NULL]
    /\ UNCHANGED <<files, lockFile, shown, temp>>

-----------------------------------------------------------------------------
\* The steps a started call takes by itself.
Advance(w) ==
    \/ ShowPreview(w) \/ Confirm(w) \/ RefuseBuild(w)
    \/ Lock(w) \/ RefuseLocked(w)
    \/ Recheck(w) \/ Stage(w) \/ FinalCheck(w) \/ Rename(w) \/ Verify(w)
    \/ RefuseConcurrent(w) \/ Close(w)

Next ==
    \E w \in Writer :
        \/ StartPreview(w) \/ StartApply(w) \/ Advance(w)
        \/ IOFailure(w) \/ Crash(w)

Spec == Init /\ [][Next]_vars

\* A running process keeps running: Node settles every awaited file operation.
FairSpec == Spec /\ \A w \in Writer : WF_vars(Advance(w))

-----------------------------------------------------------------------------
(* Properties. *)

\* At most one process is between creating and unlinking the lock file, and
\* while one is, the file is there: two confirmed applies never interleave
\* between the recheck and the rename (publishOneFile, open "wx" to unlink).
LockExclusive ==
    \A w \in Writer : pc[w] \in Holding =>
        lockFile /\ \A v \in Writer \ {w} : pc[v] \notin Holding

\* Whatever the interleaving, every reader finds a journal whose indexes,
\* digests, identifiers and resolutions are those assertMemoryCheckpoints
\* requires (two appends built from one head never both land), and every Work,
\* Knowledge entry or selection another document cites exists: no sequence of
\* applies makes snapshotMemoryWorkspace reject the whole workspace.
DocumentsValid == JournalValid /\ CitationsResolve

Publishes(w) == pc[w] = "ready" /\ pc'[w] = "published"

\* No lost update: at the instant of the rename the workspace is, canonical
\* file by canonical file, the one the confirmed change was computed from, and
\* the target still holds the bytes the preview said it would replace.
PublishedFromCurrent ==
    [][\A w \in Writer : Publishes(w) =>
          /\ Snapshot(files) = change[w].snapshot
          /\ files[change[w].target] = change[w].before]_vars

\* The canonical journal only grows: no apply rewrites, drops or reorders a
\* checkpoint another writer has appended.
JournalAppendOnly ==
    [][/\ Len(Journal(files)) <= Len(Journal(files'))
       /\ SubSeq(Journal(files'), 1, Len(Journal(files))) = Journal(files)]_vars

\* A retired Knowledge entry stays retired and a new Work cites only entries
\* approved when it is published, even if another process retires one between
\* the preview and the apply.
CitesApprovedKnowledge ==
    [][/\ \A w \in WorkId :
             files[WorkFile(w)] = NULL /\ files'[WorkFile(w)] # NULL =>
                 files'[WorkFile(w)].knowledge_ids \subseteq ApprovedKnowledge(files')
       /\ \A k \in KnownKnowledge(files) :
             files[KnowledgeFile(k)].status = "retired" =>
                 files'[KnowledgeFile(k)].status = "retired"]_vars

\* While no process dies, the lock a process takes is given back, whether the
\* change is published, refused or fails: a later apply can be tried.
LockReleased == lockFile ~> ~lockFile

\* What makes every commit one atomic operation, stated so that each step
\* preserves it.  A confirmed change knows what it creates and what it updates;
\* a change that has passed the recheck is up to date until its rename, because
\* only a holder of the lock renames.
Planned(c, f) ==
    LET p == c.proposal IN
    /\ Request(p) /\ c.target = Target(p)
    /\ Citable(p, c.snapshot)
    /\ Creates(p) => c.before = NULL
    /\ Updates(p) => f[c.target] # NULL
    /\ p.op = "inbox_promote" => c.source # NULL
    /\ c.after = After(p, c.snapshot, f)

WriterInv(w) ==
    /\ pc[w] = "captured" =>
          /\ Request(job[w].proposal)
          /\ \A x \in WorkFiles \cup KnowledgeFiles :
                job[w].snapshot[x] # NULL => files[x] # NULL
    /\ shown[w] # NULL => Request(shown[w].proposal)
    /\ pc[w] \in {"confirmed", "locked", "rechecked", "staged", "ready"} =>
          Planned(change[w], files)
    /\ pc[w] \in {"rechecked", "staged", "ready"} => StillCurrent(w)
    /\ pc[w] \in {"staged", "ready"} => temp[w] = change[w].after

IInv == LockExclusive /\ \A w \in Writer : WriterInv(w)

\* The inductive invariant: the documents keep their types, and a change on its
\* way to publication is one that executing its operation now would publish.
Inv == TypeOK /\ IInv

\* docs/LIMITATIONS.md: "The current `.dubsar/` contract allows at most: 256
\* Work items; 256 Knowledge entries".
AtMostItemLimit == WithinItemLimits(files)
=============================================================================
