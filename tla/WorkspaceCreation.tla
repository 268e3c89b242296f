--------------------------- MODULE WorkspaceCreation ---------------------------
(***************************************************************************)
(* How a project gets its workspace, and what a Lite workspace does before  *)
(* it is migrated.  Four commands create a directory (`initialize`,         *)
(* `bootstrap`, Lite `initialize`, `migrate --to-memory-vnext`) and one     *)
(* appends to the Lite journal (`checkpoint`).  Each takes a lock file, but *)
(* not the same one: what keeps them apart is what each looks at before it  *)
(* renames its staging directory or its temporary file.                     *)
(*                                                                          *)
(* `.dubsar-project` is its journal (state.json never changes); `.dubsar`   *)
(* keeps what the manifest binds and a journal.  A digest is the value it   *)
(* covers.  Staging has a random name that nobody else looks at and is not  *)
(* shown.  CloseSession adds the interactive sessions.                      *)
(***************************************************************************)
EXTENDS LocalProcesses

CONSTANTS
    Commands,       \* the commands users run, a subset of Command
    ResultingState, \* the states the checkpoint proposals declare
    MaxLite         \* LITE_MAX_CHECKPOINTS

Command == {"initialize", "bootstrap", "lite_initialize", "migrate", "checkpoint"}

ASSUME CreationAssumption ==
    /\ Commands \subseteq Command
    /\ MaxLite \in Nat
    /\ \A s \in ResultingState : s.status \in {"active", "paused", "complete", "unknown"}

VARIABLES
    lite,       \* .dubsar-project: NULL or the resulting states of its journal
    memory,     \* .dubsar: NULL or a Home
    homeLocks,  \* the lock files that exist
    task,       \* what each process is doing
    homeCrashes,
    slipped,    \* history: a rename landed after another command's last look
    overlooked  \* history: a Lite workspace was created beside a memory one

homeVars == <<lite, memory, homeLocks, task, homeCrashes, slipped, overlooked>>
home == <<lite, memory>>
homeHistory == <<slipped, overlooked>>

Idle == [at |-> "idle"]

\* A memory workspace: the Lite journal its manifest binds, the resulting
\* states of its own journal, and whether a Work is selected.
NewHome(bound, journal, selected) ==
    [bound |-> bound, journal |-> journal, selected |-> selected]

\* bootstrap's first checkpoint.
BootstrapState == [status |-> "active", blockers |-> {}]

\* migrateCheckpoints copies the entries; a Lite state nobody has checkpointed
\* is active and unblocked.
LiteCurrent(journal) ==
    IF journal = <<>> THEN BootstrapState ELSE journal[Len(journal)]

Migrated(journal) ==
    NewHome(journal, journal, LiteCurrent(journal).status # "complete")

-----------------------------------------------------------------------------
(* What a reader of the project accepts (locateProjectWorkspace prefers      *)
(* `.dubsar`; the memory snapshot checks what stands beside it).             *)

Accepts(l, m) ==
    IF m = NULL THEN l # NULL
    ELSE IF m.bound = NULL THEN l = NULL       \* WORKSPACE_FORMAT_AMBIGUOUS
    ELSE l = m.bound                           \* MEMORY_LEGACY_BINDING_INVALID

LiteMode == memory = NULL /\ lite # NULL

LockOf(c) ==
    CASE c \in {"initialize", "bootstrap"} -> "memory-init.lock"
      [] c = "lite_initialize" -> "init.lock"
      [] c = "migrate" -> "memory-migrate.lock"
      [] OTHER -> "checkpoint.lock"

-----------------------------------------------------------------------------
(* Building a change; every apply builds it again and requires the digest    *)
(* the user confirmed, so an apply starts here.                              *)

\* Mutant: a migration does not refuse a state it cannot express.
BuildsAnyState(c) ==
    CASE c \in {"initialize", "bootstrap"} -> memory = NULL /\ lite = NULL
      [] c = "lite_initialize" -> lite = NULL
      [] c = "migrate" -> LiteMode
      [] OTHER -> LiteMode /\ Len(lite) < MaxLite

\* Mutant: the journal's limit is off by one.
BuildsPastLimit(c) ==
    CASE c \in {"initialize", "bootstrap"} -> memory = NULL /\ lite = NULL
      [] c = "lite_initialize" -> lite = NULL
      [] c = "migrate" -> LiteMode /\ LiteCurrent(lite).status # "unknown"
      [] OTHER -> LiteMode /\ Len(lite) <= MaxLite

Builds(c) ==
    CASE c \in {"initialize", "bootstrap"} -> memory = NULL /\ lite = NULL
      [] c = "lite_initialize" -> lite = NULL
      [] c = "migrate" -> LiteMode /\ LiteCurrent(lite).status # "unknown"
      [] OTHER -> LiteMode /\ Len(lite) < MaxLite

Starting(w, c, state) ==
    task' = [task EXCEPT ![w] =
        [at |-> "built", command |-> c, source |-> lite, state |-> state,
         inspected |-> {}]]

Start(w) ==
    /\ task[w].at = "idle"
    /\ \E c \in Commands, s \in ResultingState :
          /\ Builds(c)
          /\ Starting(w, c, IF c = "checkpoint" THEN s ELSE BootstrapState)
    /\ UNCHANGED <<home, homeLocks, homeCrashes, homeHistory>>

-----------------------------------------------------------------------------
(* From the lock to the rename. *)

Creates(w) == task[w].command
Advance(w, label) == task' = [task EXCEPT ![w].at = label]
Finish(w) == task' = [task EXCEPT ![w] = Idle]

\* Mutant: the lock file is opened without "x".
LockHomeShared(w) ==
    /\ task[w].at = "built"
    /\ Advance(w, "locked") /\ homeLocks' = homeLocks \cup {LockOf(Creates(w))}
    /\ UNCHANGED <<home, homeCrashes, homeHistory>>

\* open(lock, "wx"), or *_LOCKED: nobody waits.  The checkpoint lock is a file
\* of `.dubsar-project`.
LockHome(w) ==
    /\ task[w].at = "built"
    /\ IF LockOf(Creates(w)) \in homeLocks
       THEN Finish(w) /\ UNCHANGED homeLocks
       ELSE Advance(w, "locked") /\ homeLocks' = homeLocks \cup {LockOf(Creates(w))}
    /\ UNCHANGED <<home, homeCrashes, homeHistory>>

\* What each command looks at under its lock and again after staging.
LooksClear(w) ==
    CASE Creates(w) \in {"initialize", "bootstrap"} -> memory = NULL /\ lite = NULL
      [] Creates(w) = "lite_initialize" -> lite = NULL
      [] OTHER -> memory = NULL /\ lite = task[w].source

\* Mutant: the check under the lock is the only one.
FinalLookSkipped(w) ==
    /\ task[w].at = "rechecked"
    /\ Advance(w, "ready")
    /\ UNCHANGED <<home, homeLocks, homeCrashes, homeHistory>>

\* Under the lock: existence of both directories, the Lite snapshot, or the
\* inspection of the whole workspace (publishOneFile).
FirstLook(w) ==
    /\ task[w].at = "locked"
    /\ IF LooksClear(w)
       THEN Advance(w, "rechecked") ELSE Advance(w, "closing")
    /\ UNCHANGED <<home, homeLocks, homeCrashes, homeHistory>>

\* After staging.  A checkpoint captures its target file again, not the
\* workspace.
FinalLook(w) ==
    /\ task[w].at = "rechecked"
    /\ IF IF Creates(w) = "checkpoint" THEN lite = task[w].source ELSE LooksClear(w)
       THEN Advance(w, "ready") ELSE Advance(w, "closing")
    /\ UNCHANGED <<home, homeLocks, homeCrashes, homeHistory>>

\* rename(staging, marker) fails on a directory that is there; rename of the
\* temporary file replaces checkpoints.json.
Published(w) ==
    CASE Creates(w) = "initialize" -> <<lite, NewHome(NULL, <<>>, FALSE)>>
      [] Creates(w) = "bootstrap" -> <<lite, NewHome(NULL, <<BootstrapState>>, TRUE)>>
      [] Creates(w) = "lite_initialize" -> <<(<<>>), memory>>
      [] Creates(w) = "migrate" -> <<lite, Migrated(task[w].source)>>
      [] OTHER -> <<Append(task[w].source, task[w].state), memory>>

TargetTaken(w) ==
    CASE Creates(w) \in {"initialize", "bootstrap", "migrate"} -> memory # NULL
      [] Creates(w) = "lite_initialize" -> lite # NULL
      [] OTHER -> FALSE

\* v has looked for the last time at what w publishes.
LookedLast(v, w) ==
    task[v].at = "ready"
      \/ /\ task[v].at = "rechecked" /\ Creates(v) = "checkpoint"
         /\ Creates(w) # "checkpoint"

PublishHome(w) ==
    /\ task[w].at = "ready"
    /\ ~TargetTaken(w)
    /\ lite' = Published(w)[1] /\ memory' = Published(w)[2]
    /\ slipped' = (slipped \/ \E v \in Process \ {w} : LookedLast(v, w))
    /\ overlooked' = (overlooked \/ (Creates(w) = "lite_initialize" /\ memory # NULL))
    /\ Advance(w, "closing")
    /\ UNCHANGED <<homeLocks, homeCrashes>>

\* A step fails (a full disk, a directory that appeared): the staging is
\* removed and nothing is published.
HomeFailure(w) ==
    /\ task[w].at \in {"locked", "rechecked", "ready"}
    /\ Advance(w, "closing")
    /\ UNCHANGED <<home, homeLocks, homeCrashes, homeHistory>>

\* The finally block.
UnlockHome(w) ==
    /\ task[w].at = "closing"
    /\ homeLocks' = homeLocks \ {LockOf(Creates(w))}
    /\ Finish(w)
    /\ UNCHANGED <<home, homeCrashes, homeHistory>>

\* The process dies: its lock file stays, and nothing recovers it.
CrashHome(w) ==
    /\ task[w] # Idle /\ homeCrashes < MaxCrashes
    /\ homeCrashes' = homeCrashes + 1
    /\ Finish(w)
    /\ UNCHANGED <<home, homeLocks, homeHistory>>

-----------------------------------------------------------------------------
CreationInit ==
    /\ lite = NULL /\ memory = NULL /\ homeLocks = {}
    /\ task = [w \in Process |-> Idle]
    /\ homeCrashes = 0 /\ slipped = FALSE /\ overlooked = FALSE

CreationStep(w) ==
    \/ Start(w) \/ LockHome(w) \/ FirstLook(w) \/ FinalLook(w) \/ PublishHome(w)
    \/ HomeFailure(w) \/ UnlockHome(w) \/ CrashHome(w)

CreationNext == \E w \in Process : CreationStep(w)

CreationSpec == CreationInit /\ [][CreationNext]_homeVars
=============================================================================
