------------------------------ MODULE CloseSession ------------------------------
(***************************************************************************)
(* `close`: an interactive session inspects the workspace, asks its         *)
(* questions, previews a checkpoint computed from that inspection and       *)
(* applies it on confirmation, while other commands create, migrate and     *)
(* change the workspace.  In a Lite workspace the apply is the checkpoint   *)
(* of WorkspaceCreation; in a memory workspace it is one operation of the   *)
(* memory writer, which MemoryWriter shows to be atomic.                    *)
(***************************************************************************)
EXTENDS WorkspaceCreation

CONSTANTS
    Blocker,       \* the blockers users declare
    MaxBlockers,   \* a resulting state holds at most 8
    MaxJournal     \* bound: entries of the memory journal

RecordedStates == [status : {"active", "paused", "complete", "unknown"}, blockers : SUBSET Blocker]
Homes == [bound : {NULL} \cup Seq(RecordedStates), journal : Seq(RecordedStates),
          selected : BOOLEAN]

ASSUME CloseAssumption ==
    /\ MaxBlockers \in Nat /\ MaxJournal \in Nat
    /\ ResultingState \subseteq RecordedStates
    /\ NULL \notin Seq(RecordedStates) /\ NULL \notin Homes   \* a workspace is not a missing one

\* The resulting state a session starts from.
CurrentJournal == IF memory = NULL THEN lite ELSE memory.journal
Current == LiteCurrent(CurrentJournal)
Readable == (lite # NULL \/ memory # NULL) /\ Accepts(lite, memory)

-----------------------------------------------------------------------------
(* Other memory writers. *)

\* work_create and work_select.
SelectWork(w) ==
    /\ task[w] = Idle /\ Readable /\ memory # NULL
    /\ ~memory.selected
    /\ memory' = [memory EXCEPT !.selected = TRUE]
    /\ UNCHANGED <<lite, homeLocks, task, homeCrashes, homeHistory>>

AppendMemory(s) == memory' = [memory EXCEPT !.journal = Append(@, s)]

\* checkpoint_append by an agent.
MemoryCheckpoint(w) ==
    /\ task[w] = Idle /\ Readable /\ memory # NULL
    /\ memory.selected /\ Len(memory.journal) < MaxJournal
    /\ \E s \in ResultingState : AppendMemory(s)
    /\ UNCHANGED <<lite, homeLocks, task, homeCrashes, homeHistory>>

-----------------------------------------------------------------------------
(* The session. *)

\* MEMORY_WORK_SELECTION_REQUIRED in a memory workspace.
OpenSession(w) ==
    /\ task[w] = Idle /\ Readable
    /\ memory # NULL => memory.selected
    /\ task' = [task EXCEPT ![w] =
          [at |-> "prompting", mode |-> IF memory = NULL THEN "lite" ELSE "memory",
           state |-> Current]]
    /\ UNCHANGED <<home, homeLocks, homeCrashes, homeHistory>>

\* Mutant: the declared blocker replaces the open ones.
SessionStateForgets(inspected, mode, declared) ==
    [status |-> IF mode = "lite" /\ inspected.status = "complete" THEN "complete" ELSE "active",
     blockers |-> declared]

\* The state the session proposes, declared being at most one blocker.
SessionState(inspected, mode, declared) ==
    [status |-> IF mode = "lite" /\ inspected.status = "complete" THEN "complete" ELSE "active",
     blockers |-> inspected.blockers \cup declared]

\* An empty summary, a missing next action, a ninth blocker, an answer other
\* than CONTINUE or APPLY.
CancelSession(w) ==
    /\ task[w].at \in {"prompting", "previewed"}
    /\ Finish(w)
    /\ UNCHANGED <<home, homeLocks, homeCrashes, homeHistory>>

\* CONTINUE: the preview inspects again and builds on what it finds.
PreviewSession(w) ==
    /\ task[w].at = "prompting" /\ Readable
    /\ IF task[w].mode = "lite" THEN Builds("checkpoint")
       ELSE memory # NULL /\ Len(memory.journal) < MaxJournal
    /\ \E declared \in {{}} \cup {{b} : b \in Blocker \ task[w].state.blockers} :
          LET state == SessionState(task[w].state, task[w].mode, declared)
          IN  /\ Cardinality(state.blockers) <= MaxBlockers
              /\ task' = [task EXCEPT ![w] =
                    [at |-> "previewed", mode |-> task[w].mode, state |-> state,
                     source |-> CurrentJournal, inspected |-> task[w].state.blockers]]
    /\ UNCHANGED <<home, homeLocks, homeCrashes, homeHistory>>

\* Mutant: the apply does not compare its change with the confirmed one.
ConfirmsAnything(w) == task[w].at = "previewed" /\ Readable

\* APPLY: the change is built again and must have the digest of the preview.
Confirmed(w) ==
    /\ task[w].at = "previewed" /\ Readable
    /\ CurrentJournal = task[w].source

ApplyLiteSession(w) ==
    /\ Confirmed(w) /\ task[w].mode = "lite" /\ LiteMode
    /\ task' = [task EXCEPT ![w] =
          [at |-> "built", command |-> "checkpoint", source |-> lite,
           state |-> task[w].state, inspected |-> task[w].inspected]]
    /\ UNCHANGED <<home, homeLocks, homeCrashes, homeHistory>>

ApplyMemorySession(w) ==
    /\ Confirmed(w) /\ task[w].mode = "memory" /\ memory # NULL
    /\ AppendMemory(task[w].state)
    /\ Finish(w)
    /\ UNCHANGED <<lite, homeLocks, homeCrashes, homeHistory>>

SessionStep(w) ==
    \/ SelectWork(w) \/ MemoryCheckpoint(w) \/ OpenSession(w) \/ PreviewSession(w)
    \/ CancelSession(w) \/ ApplyLiteSession(w) \/ ApplyMemorySession(w)

HomeNext == \E w \in Process : CreationStep(w) \/ SessionStep(w)

HomeSpec == CreationInit /\ [][HomeNext]_homeVars

-----------------------------------------------------------------------------
(* Properties. *)

\* Journals hold resulting states, a lock file exists or not, and the crash
\* budget is kept.
HomeTypeOK ==
    /\ lite = NULL \/ (lite \in Seq(RecordedStates) /\ Len(lite) <= MaxLite)
    /\ memory = NULL \/ memory \in Homes
    /\ homeLocks \subseteq {LockOf(c) : c \in Command}
    /\ homeCrashes \in 0 .. MaxCrashes

\* A project whose directories no reader accepts (two unbound workspaces, or a
\* retained Lite journal that is not the one the manifest binds) arises only
\* when a rename lands after another command's last look, or when Lite
\* `initialize`, which does not look for `.dubsar`, runs beside a memory
\* workspace: the checks of initializer, bootstrap, migration and
\* publishOneFile together leave no other way.
UnreadableOnlyThroughKnownGaps ==
    (lite # NULL \/ memory # NULL) /\ ~Accepts(lite, memory) => slipped \/ overlooked

Unresolved(journal) == LiteCurrent(journal).blockers

\* A closing checkpoint never drops a blocker its session had shown at its
\* start, and continues exactly the journal its user confirmed, although
\* runLiteClose and runMemoryClose compute the blockers from an inspection
\* older than the preview.  (A blocker recorded between that inspection and the
\* preview is dropped, and nothing says so.)
CloseKeepsInspectedBlockers ==
    [][\A w \in Process :
         /\ ApplyMemorySession(w) =>
              /\ task[w].inspected \subseteq Unresolved(memory'.journal)
              /\ memory.journal = task[w].source
         /\ task[w].at = "ready" /\ Creates(w) = "checkpoint" /\ lite' # lite =>
              /\ task[w].inspected \subseteq Unresolved(lite')
              /\ lite = task[w].source]_homeVars

\* Both journals are append-only and a workspace directory never disappears,
\* whatever commands run at once: two appends are never computed from the same
\* journal and both published (checkpoint lock, captures of the target).  A
\* migration, which stages its workspace beside a Lite journal that may still
\* grow, loses nothing of what it binds: the Work's journal starts with it.
JournalsOnlyGrow ==
    [][/\ lite # NULL =>
             /\ lite' # NULL /\ Len(lite) <= Len(lite')
             /\ SubSeq(lite', 1, Len(lite)) = lite
       /\ memory # NULL =>
             /\ memory' # NULL /\ memory'.bound = memory.bound
             /\ Len(memory.journal) <= Len(memory'.journal)
             /\ SubSeq(memory'.journal, 1, Len(memory.journal)) = memory.journal
       /\ memory' # NULL /\ memory'.bound # NULL =>
             /\ Len(memory'.bound) <= Len(memory'.journal)
             /\ SubSeq(memory'.journal, 1, Len(memory'.bound)) = memory'.bound
             /\ LiteCurrent(memory'.bound).status # "unknown"]_homeVars
=============================================================================
