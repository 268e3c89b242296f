---------------------------- MODULE TicketLifecycle ----------------------------
(***************************************************************************)
(* What one ticket of the store may become: its states, and what each       *)
(* operation of `applyOperation` requires and leaves.  TicketAllocation     *)
(* models how the store is published; here an operation is a guard and a    *)
(* value.  No state.                                                        *)
(*                                                                          *)
(* A ticket's mission is the contract fingerprint among its references (a   *)
(* mission computed for one ticket number), its contract the last           *)
(* `cursor_contract` of its activity; of the other activity a ticket keeps  *)
(* what later operations ask: whether a launch was submitted or failed,     *)
(* which continuations were submitted, the last sync evidence, the count.   *)
(***************************************************************************)
EXTENDS Naturals, Sequences, FiniteSets

CONSTANTS
    NoValue,
    MAX_ACTIVITY

TERMINAL_TICKET_STATES == {"Done", "Cancelled", "Duplicate"}

transitions ==
    [Backlog |-> {"To Do", "Cancelled", "Duplicate"},
     ToDo |-> {"Backlog", "In Progress", "Blocked", "Paused", "Cancelled", "Duplicate"},
     InProgress |-> {"To Do", "In Review", "Blocked", "Paused", "Cancelled", "Duplicate"},
     InReview |-> {"In Progress", "Blocked", "Paused", "Cancelled", "Duplicate", "Done"},
     Blocked |-> {"To Do", "In Progress", "Paused", "Cancelled", "Duplicate"},
     Paused |-> {"To Do", "In Progress", "Blocked", "Cancelled", "Duplicate"}]

Column(state) ==
    CASE state = "To Do" -> "ToDo" [] state = "In Progress" -> "InProgress"
      [] state = "In Review" -> "InReview" [] OTHER -> state

TICKET_STATES ==
    TERMINAL_TICKET_STATES
      \cup {"Backlog", "To Do", "In Progress", "In Review", "Blocked", "Paused"}

NewTicket(mission) ==
    [state |-> "Backlog", duplicate_of |-> NoValue, mission |-> mission,
     contract |-> NoValue, submitted |-> FALSE, continued |-> {}, launch |-> NoValue,
     run |-> NoValue, synced |-> NoValue, blocker |-> NoValue, activity |-> 1]

currentCursorReceipt(t) == IF t.run # NoValue THEN t.run ELSE t.launch
Terminal(t) == t.state \in TERMINAL_TICKET_STATES
isTicketSyncEligible(t) == ~Terminal(t) /\ currentCursorReceipt(t) # NoValue

\* One more entry of the activity chain.
Room(t) == t.activity < MAX_ACTIVITY
Recorded(t) == [t EXCEPT !.activity = @ + 1]

-----------------------------------------------------------------------------
(* transition *)

CanTransition(t, to, duplicate, merge) ==
    /\ t.state # to /\ Room(t)
    /\ ~Terminal(t) => to \in transitions[Column(t.state)]
    /\ (to = "Duplicate") <=> (duplicate # NoValue)
    /\ to = "Done" => merge # NoValue

Transitioned(t, to, duplicate) ==
    Recorded([t EXCEPT !.state = to, !.duplicate_of = duplicate])

(* attach-cursor-launch, fail-cursor-launch *)

CanAttachLaunch(t) == t.launch = NoValue /\ ~Terminal(t) /\ Room(t)

Launched(t, receipt) ==
    Recorded([t EXCEPT !.launch = receipt, !.state = "In Progress", !.blocker = NoValue])

LaunchFailed(t) ==
    Recorded([t EXCEPT !.state = "Blocked", !.blocker = "attempt", !.submitted = TRUE])

(* attach-cursor-run, fail-cursor-run *)

CanFailRun(t) == t.launch # NoValue /\ ~Terminal(t) /\ Room(t)

\* Mutant: a correction number may be attached again.
CanReattachRun(t, receipt) ==
    /\ CanFailRun(t)
    /\ receipt.agent = t.launch.agent
    /\ t.run # NoValue => receipt.number >= t.run.number

CanAttachRun(t, receipt) ==
    /\ CanFailRun(t)
    /\ receipt.agent = t.launch.agent
    /\ t.run # NoValue => receipt.number > t.run.number

Continued(t, receipt) ==
    Recorded([t EXCEPT !.run = receipt, !.state = "In Progress", !.blocker = NoValue])

RunFailed(t) == Recorded([t EXCEPT !.state = "Blocked", !.blocker = "attempt"])

-----------------------------------------------------------------------------
(* sync-cursor-status.  An observation names the receipt it was made for,    *)
(* how the run is and what became of its pull request.                       *)

\* Mutant: a completed run is taken for a finished ticket.
mapCompletedToDone(observation) ==
    CASE observation.pr = "merged" \/ observation.lifecycle = "completed" ->
           [state |-> "Done", blocker |-> NoValue]
      [] observation.lifecycle = "failed" -> [state |-> "Blocked", blocker |-> "failed"]
      [] observation.pr = "open" -> [state |-> "In Review", blocker |-> NoValue]
      [] observation.pr = "closed" -> [state |-> "Blocked", blocker |-> "closed"]
      [] OTHER -> [state |-> "In Progress", blocker |-> NoValue]

\* A merge wins over a failed run, a failed run over an open pull request.
mapSyncedFields(observation) ==
    CASE observation.pr = "merged" -> [state |-> "Done", blocker |-> NoValue]
      [] observation.pr # "merged" /\ observation.lifecycle = "failed" ->
           [state |-> "Blocked", blocker |-> "failed"]
      [] observation.lifecycle # "failed" /\ observation.pr = "open" ->
           [state |-> "In Review", blocker |-> NoValue]
      [] observation.lifecycle # "failed" /\ observation.pr = "closed" ->
           [state |-> "Blocked", blocker |-> "closed"]
      [] observation.lifecycle = "completed" /\ observation.pr = "none" ->
           [state |-> "Blocked", blocker |-> "no_pr"]
      [] OTHER -> [state |-> "In Progress", blocker |-> NoValue]

sameSyncOutcome(t, observation) ==
    LET mapped == mapSyncedFields(observation)
    IN  t.state = mapped.state /\ t.blocker = mapped.blocker /\ t.synced = observation

\* cursorObservation: another run than the ticket's is a contradiction.
Contradicts(t, observation) == observation.receipt # currentCursorReceipt(t)

Synced(t, observation) ==
    LET mapped == mapSyncedFields(observation)
    IN  IF sameSyncOutcome(t, observation) THEN t
        ELSE Recorded([t EXCEPT !.state = mapped.state, !.blocker = mapped.blocker,
                                !.duplicate_of = NoValue, !.synced = observation])

-----------------------------------------------------------------------------
\* What validateTicketStore requires of a ticket beyond the types of its fields.
ValidTicket(t) ==
    /\ t.state \in TICKET_STATES
    /\ (t.state = "Duplicate") <=> (t.duplicate_of # NoValue)
    /\ t.launch # NoValue /\ t.run # NoValue => t.run.agent = t.launch.agent
    /\ t.activity <= MAX_ACTIVITY
=============================================================================
