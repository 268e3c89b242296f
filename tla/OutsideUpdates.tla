---------------------------- MODULE OutsideUpdates ----------------------------
(***************************************************************************)
(* `.dubsar/` is a tracked directory: a Git checkout or merge, an editor or  *)
(* another tool replaces its files without taking the writers' lock.  The   *)
(* writers answer with live reinspection: the recheck under the lock and    *)
(* the last check of the target before the rename.                          *)
(***************************************************************************)
EXTENDS MemoryWriter

CONSTANTS
    Outside,       \* the updates that arrive without the lock
    MaxOutside     \* bound: how many of them

ASSUME OutsideAssumption == Outside \subseteq Proposal /\ MaxOutside \in Nat

VARIABLES
    outside,       \* updates that have arrived
    blind          \* history: writers whose target was replaced after their last check

ovars == <<vars, outside, blind>>

OutsideInit == Init /\ outside = 0 /\ blind = {}

\* The update leaves a workspace its author's tools accept; the writers see
\* only that a file has changed.
Arrive(p) ==
    /\ outside < MaxOutside
    /\ Execute(p)
    /\ outside' = outside + 1
    /\ blind' = blind \cup {w \in Writer : pc[w] = "ready" /\ change[w].target = Target(p)}
    /\ UNCHANGED <<lockFile, pc, job, shown, change, temp, crashes>>

WriterStep ==
    /\ Next
    /\ outside' = outside
    /\ blind' = {w \in blind : pc'[w] = "ready"}

OutsideNext == WriterStep \/ \E p \in Outside : Arrive(p)

OutsideSpec ==
    OutsideInit /\ [][OutsideNext]_ovars /\ \A w \in Writer : WF_vars(Advance(w))

-----------------------------------------------------------------------------
\* A document replaced behind the writer's back is overwritten only if it was
\* replaced between the writer's last check of the target and the rename that
\* follows it; before that, the apply is refused (publishOneFile's finalCheck).
OutsideNotOverwritten ==
    [][\A w \in Writer : Publishes(w) =>
          files[change[w].target] = change[w].before \/ w \in blind]_ovars
=============================================================================
