--------------------------- MODULE AtomicWorkspace ---------------------------
(***************************************************************************)
(* What the memory writer promises: every published change is one           *)
(* operation executed alone, its conditions evaluated on the very files it  *)
(* changes.  No preview, no lock, no writer: the sequential workspace that  *)
(* MemoryWriter is shown to implement.                                      *)
(***************************************************************************)
EXTENDS MemoryDocuments

CONSTANTS
    Proposals,       \* the proposals users submit
    WritesContext    \* do they also submit generated contexts

ASSUME ProposalsAssumption == Proposals \subseteq Proposal /\ WritesContext \in BOOLEAN

VARIABLE files

\* A context is compiled from the snapshot its author reads.
Requests(f) == Proposals \cup (IF WritesContext THEN {ContextProposal(Snapshot(f))} ELSE {})

\* The same, for a proposal whose context may have been compiled earlier.
Request(p) == p \in Proposals \/ (WritesContext /\ p = ContextProposal(p.source))

Execute(p) ==
    /\ SnapshotAccepts(files)
    /\ Accepted(p, Snapshot(files), files)
    /\ files' = [files EXCEPT ![Target(p)] = After(p, Snapshot(files), files)]

AtomicInit == files = InitialFiles

AtomicNext == \E p \in Requests(files) : Execute(p)

AtomicSpec == AtomicInit /\ [][AtomicNext]_files

-----------------------------------------------------------------------------
(* Properties. *)

\* Every reader finds a journal whose indexes, digests, identifiers and
\* resolutions are those assertMemoryCheckpoints requires.
JournalValid == ValidJournal(Journal(files))

\* Every Work, Knowledge entry or selection another document cites exists.
CitationsResolve == ReferencesResolve(files)
=============================================================================
