------------------------------ MODULE MissionDesk ------------------------------
(***************************************************************************)
(* The My Work tools: prepare, launch and continue a mission on a remote    *)
(* controller, attach a receipt, synchronise the tickets with what became   *)
(* of the work, while users move tickets.  Each tool reads the store, calls *)
(* out and applies operations one at a time; nothing holds the store in     *)
(* between, and a process can die anywhere.                                 *)
(*                                                                          *)
(* `mutate` (a preview and its apply) either executes one operation on the  *)
(* store as it is then, or fails (stale, busy, an I/O error): see           *)
(* TicketAllocation.  The controller and the observers are external.        *)
(***************************************************************************)
EXTENDS TicketLifecycle

CONSTANTS
    Process,
    Mission,
    Clients,    \* what the processes are asked for, and budgets of user moves and deaths
    MaxTickets, MaxCalls, MaxCorrections    \* bounds

ASSUME DeskAssumption ==
    /\ MAX_ACTIVITY \in Nat \ {0} /\ MaxTickets \in Nat /\ MaxCalls \in Nat
    /\ MaxCorrections \in Nat
    /\ NoValue \notin Mission \X (1 .. MaxTickets)
    /\ \A c \in Clients : c.asked.missions \subseteq Mission /\ c.moves \in Nat

VARIABLES
    tickets,    \* the store: ticket i is DUB-00i
    calls,      \* the agents and runs the controller started, in order
    merged,     \* the agents whose pull request is merged
    client,     \* the tools and missions the processes are asked for
    desk,       \* what each process is doing
    moves, deaths,  \* what is left of the budgets
    raced,      \* history: a submission was recorded over another one
    misnumbered \* history: a ticket got another number than its mission was made for

deskVars == <<tickets, calls, merged, client, desk, moves, deaths, raced, misnumbered>>
bounds == <<client, moves, deaths>>
history == <<raced, misnumbered>>

Free == [at |-> "free"]
Fingerprint == Mission \X (1 .. MaxTickets)
Receipt ==
    [id : 1 .. MaxCalls, agent : 1 .. MaxCalls, number : 0 .. MaxCorrections,
     fingerprint : Fingerprint \cup {NoValue}]

Becomes(p, state) == desk' = [desk EXCEPT ![p] = state]
Moves(p, label) == desk' = [desk EXCEPT ![p].at = label]
Ends(p) == Becomes(p, Free)
Store(i, t) == tickets' = [tickets EXCEPT ![i] = t]
OnlyDesk == UNCHANGED <<tickets, calls, merged, bounds, history>>
OnlyStore == UNCHANGED <<calls, merged, bounds, history>>
Mine(p) == tickets[desk[p].ticket]

-----------------------------------------------------------------------------
(* prepare_cursor_mission, which launch_cursor_mission runs first. *)

Existing(m) == {i \in DOMAIN tickets : tickets[i].mission = <<m, i>>}
First(S) == CHOOSE i \in S : \A j \in S : i <= j

\* The mission has a ticket whose contract is there or not, or a number is read
\* for a new one.
ReadForPrepare(p) ==
    /\ desk[p] = Free
    /\ \E m \in client.missions, tool \in client.tools[p] \cap {"prepare", "launch"} :
          IF Existing(m) = {}
          THEN /\ Len(tickets) < MaxTickets
               /\ Becomes(p, [at |-> "creating", tool |-> tool, ticket |-> Len(tickets) + 1,
                              fingerprint |-> <<m, Len(tickets) + 1>>])
          ELSE LET i == First(Existing(m))
               IN  Becomes(p,
                     [at |-> IF tickets[i].contract = NoValue THEN "contracting" ELSE "prepared",
                      tool |-> tool, ticket |-> i,
                      fingerprint |-> IF tickets[i].contract = NoValue THEN <<m, i>>
                                      ELSE tickets[i].contract])
    /\ OnlyDesk

\* The allocation is the next number now.
CreateTicket(p) ==
    /\ desk[p].at = "creating" /\ Len(tickets) < MaxTickets
    /\ tickets' = Append(tickets, NewTicket(desk[p].fingerprint))
    /\ misnumbered' = (misnumbered \/ desk[p].ticket # Len(tickets) + 1)
    /\ Moves(p, "contracting")
    /\ UNCHANGED <<calls, merged, bounds, raced>>

PersistContract(p) ==
    /\ desk[p].at = "contracting" /\ Room(Mine(p))
    /\ Store(desk[p].ticket, Recorded([Mine(p) EXCEPT !.contract = desk[p].fingerprint]))
    /\ Moves(p, "prepared")
    /\ OnlyStore

EndPrepare(p) ==
    /\ desk[p].at = "prepared" /\ desk[p].tool = "prepare"
    /\ Ends(p) /\ OnlyDesk

-----------------------------------------------------------------------------
(* launch_cursor_mission *)

\* Mutant: a submission whose outcome is unknown may be repeated.
launchFailureRecorded(t) == t.submitted /\ t.state = "Blocked"

launchSubmissionRecorded(t) == t.submitted

\* Already launched, or MY_WORK_LAUNCH_NOT_RETRYABLE.
ReadForLaunch(p) ==
    /\ desk[p].at = "prepared" /\ desk[p].tool = "launch"
    /\ IF Mine(p).launch # NoValue \/ launchSubmissionRecorded(Mine(p))
       THEN Ends(p)
       ELSE Becomes(p, [at |-> "submitting", ticket |-> desk[p].ticket, tool |-> "launch",
                        fingerprint |-> desk[p].fingerprint, saw |-> Mine(p).submitted])
    /\ OnlyDesk

SubmitLaunch(p) ==
    /\ desk[p].at = "submitting" /\ Room(Mine(p))
    /\ Store(desk[p].ticket, Recorded([Mine(p) EXCEPT !.submitted = TRUE]))
    /\ raced' = (raced \/ (Mine(p).submitted /\ ~desk[p].saw))
    /\ Moves(p, "calling")
    /\ UNCHANGED <<calls, merged, bounds, misnumbered>>

\* The controller starts an agent and answers: its receipt, one of another
\* contract, or nothing usable.
StartAgent(p) ==
    /\ desk[p].at = "calling" /\ Len(calls) < MaxCalls
    /\ LET id == Len(calls) + 1
       IN  /\ calls' = Append(calls, [ticket |-> desk[p].ticket, agent |-> id, number |-> 0,
                                      fingerprint |-> desk[p].fingerprint])
           /\ \/ \E f \in {desk[p].fingerprint, NoValue} :
                    Becomes(p, [at |-> "attaching", tool |-> "launch", ticket |-> desk[p].ticket,
                                receipt |-> [id |-> id, agent |-> id, number |-> 0, fingerprint |-> f],
                                supplied |-> desk[p].fingerprint])
              \/ Moves(p, "launch_failing")
    /\ UNCHANGED <<tickets, merged, bounds, history>>

\* No agent: refused, not connected, a network error.
RefuseAgent(p) ==
    /\ desk[p].at = "calling"
    /\ Moves(p, "launch_failing") /\ OnlyDesk

FailLaunch(p) ==
    /\ desk[p].at = "launch_failing" /\ CanAttachLaunch(Mine(p))
    /\ Store(desk[p].ticket, LaunchFailed(Mine(p)))
    /\ Ends(p) /\ OnlyStore

-----------------------------------------------------------------------------
(* attach_cursor_receipt: the last step of a launch, or a user's repair with *)
(* the receipt the controller keeps.                                         *)

AttachByHand(p) ==
    /\ desk[p] = Free /\ "attach" \in client.tools[p]
    /\ \E id \in DOMAIN calls, i \in DOMAIN tickets :
          /\ calls[id].number = 0
          /\ Becomes(p, [at |-> "attaching", tool |-> "attach", ticket |-> i,
                         receipt |-> [id |-> id, agent |-> id, number |-> 0,
                                      fingerprint |-> calls[id].fingerprint],
                         supplied |-> NoValue])
    /\ OnlyDesk

GivesUp(p) == IF desk[p].tool = "launch" THEN Moves(p, "launch_failing") ELSE Ends(p)

\* Mutant: the fingerprint is taken from the contract alone.
fingerprintOfContract(t, supplied, receipt) ==
    /\ t.contract # NoValue
    /\ supplied \in {NoValue, t.contract}
    /\ receipt.fingerprint = t.contract

\* expectedFingerprint and assertReceiptMatchesContract.
receiptMatchesContract(t, supplied, receipt) ==
    /\ t.contract = t.mission
    /\ supplied \in {NoValue, t.mission}
    /\ receipt.fingerprint = t.mission

CheckReceipt(p) ==
    /\ desk[p].at = "attaching"
    /\ IF /\ receiptMatchesContract(Mine(p), desk[p].supplied, desk[p].receipt)
          /\ Mine(p).launch = NoValue
       THEN Moves(p, "recording") ELSE GivesUp(p)
    /\ OnlyDesk

RecordLaunch(p) ==
    /\ desk[p].at = "recording" /\ CanAttachLaunch(Mine(p))
    /\ Store(desk[p].ticket, Launched(Mine(p), desk[p].receipt))
    /\ Ends(p) /\ OnlyStore

-----------------------------------------------------------------------------
(* continue_cursor_mission *)

\* The ticket, its contract and its number are read once.
ReadForContinue(p) ==
    /\ desk[p] = Free /\ "continue" \in client.tools[p]
    /\ \E i \in DOMAIN tickets, n \in 1 .. MaxCorrections :
          LET t == tickets[i]
          IN  /\ t.contract # NoValue /\ t.launch # NoValue /\ ~Terminal(t)
              /\ t.run # NoValue => n > t.run.number
              /\ n \notin t.continued
              /\ Becomes(p, [at |-> "run_submitting", ticket |-> i, number |-> n,
                             agent |-> t.launch.agent, fingerprint |-> t.contract,
                             contract |-> t.contract, saw |-> n \in t.continued])
    /\ OnlyDesk

SubmitRun(p) ==
    /\ desk[p].at = "run_submitting" /\ Room(Mine(p))
    /\ Store(desk[p].ticket, Recorded([Mine(p) EXCEPT !.continued = @ \cup {desk[p].number}]))
    /\ raced' = (raced \/ (desk[p].number \in Mine(p).continued /\ ~desk[p].saw))
    /\ Moves(p, "run_calling")
    /\ UNCHANGED <<calls, merged, bounds, misnumbered>>

StartRun(p) ==
    /\ desk[p].at = "run_calling" /\ Len(calls) < MaxCalls
    /\ LET id == Len(calls) + 1
           d == desk[p]
       IN  /\ calls' = Append(calls, [ticket |-> d.ticket, agent |-> d.agent,
                                      number |-> d.number, fingerprint |-> d.fingerprint])
           /\ \/ Becomes(p, [at |-> "run_recording", ticket |-> d.ticket, contract |-> d.contract,
                             receipt |-> [id |-> id, agent |-> d.agent, number |-> d.number,
                                          fingerprint |-> d.fingerprint]])
              \/ Moves(p, "run_failing")
    /\ UNCHANGED <<tickets, merged, bounds, history>>

RefuseRun(p) ==
    /\ desk[p].at = "run_calling"
    /\ Moves(p, "run_failing") /\ OnlyDesk

\* The receipt is compared with the ticket as it was read, then attached to the
\* ticket as it is.
RecordRun(p) ==
    /\ desk[p].at = "run_recording"
    /\ receiptMatchesContract([Mine(p) EXCEPT !.contract = desk[p].contract], NoValue,
                              desk[p].receipt)
    /\ CanAttachRun(Mine(p), desk[p].receipt)
    /\ Store(desk[p].ticket, Continued(Mine(p), desk[p].receipt))
    /\ Ends(p) /\ OnlyStore

FailRun(p) ==
    /\ desk[p].at = "run_failing" /\ CanFailRun(Mine(p))
    /\ Store(desk[p].ticket, RunFailed(Mine(p)))
    /\ Ends(p) /\ OnlyStore

-----------------------------------------------------------------------------
(* synchronizeEligibleTickets: the tickets of one reading, one after the     *)
(* other.                                                                    *)

StartSync(p) ==
    /\ desk[p] = Free /\ "sync" \in client.tools[p]
    /\ \E i \in DOMAIN tickets : isTicketSyncEligible(tickets[i])
    /\ Becomes(p, [at |-> "syncing", ticket |-> 1,
                   before |-> [i \in DOMAIN tickets |->
                     IF isTicketSyncEligible(tickets[i]) THEN currentCursorReceipt(tickets[i])
                     ELSE NoValue]])
    /\ OnlyDesk

\* Not eligible, or the reader failed for now.
SkipSync(p) ==
    /\ desk[p].at = "syncing"
    /\ IF desk[p].ticket < Len(desk[p].before)
       THEN desk' = [desk EXCEPT ![p].ticket = @ + 1] ELSE Ends(p)
    /\ OnlyDesk

Observation(receipt) ==
    [receipt : {receipt}, lifecycle : {"running", "failed", "completed"},
     pr : IF receipt.agent \in merged THEN {"none", "merged"} ELSE {"none", "open", "closed"}]

Observe(p) ==
    /\ desk[p].at = "syncing"
    /\ desk[p].before[desk[p].ticket] # NoValue
    /\ \E o \in Observation(desk[p].before[desk[p].ticket]) :
          desk' = [desk EXCEPT ![p] = [at |-> "observed", ticket |-> desk[p].ticket,
                                       before |-> desk[p].before, seen |-> o]]
    /\ OnlyDesk

NextTicket(p) ==
    IF desk[p].ticket < Len(desk[p].before)
    THEN Becomes(p, [at |-> "syncing", ticket |-> desk[p].ticket + 1, before |-> desk[p].before])
    ELSE Ends(p)

\* TICKET_SYNC_CONTRADICTION: another run since.  TICKET_SYNC_TERMINAL and
\* TICKET_ACTIVITY_LIMIT end the loop.
ApplySync(p) ==
    /\ desk[p].at = "observed"
    /\ IF ~isTicketSyncEligible(Mine(p)) \/ ~Room(Mine(p)) THEN Ends(p) /\ UNCHANGED tickets
       ELSE IF Contradicts(Mine(p), desk[p].seen) THEN NextTicket(p) /\ UNCHANGED tickets
       ELSE NextTicket(p) /\ Store(desk[p].ticket, Synced(Mine(p), desk[p].seen))
    /\ OnlyStore

-----------------------------------------------------------------------------
(* Everybody else. *)

\* A user's transition; a Done names a merge the observer confirms.
MoveTicket ==
    /\ moves > 0 /\ moves' = moves - 1
    /\ \E i \in DOMAIN tickets, to \in TICKET_STATES,
          duplicate \in DOMAIN tickets \cup {NoValue}, merge \in merged \cup {NoValue} :
          /\ duplicate # i
          /\ CanTransition(tickets[i], to, duplicate, merge)
          /\ Store(i, Transitioned(tickets[i], to, duplicate))
    /\ UNCHANGED <<calls, merged, client, desk, deaths, history>>

Merge ==
    /\ \E id \in DOMAIN calls : calls[id].number = 0 /\ id \notin merged /\ merged' = merged \cup {id}
    /\ UNCHANGED <<tickets, calls, desk, bounds, history>>

\* mutate failed: an error that another operation then records, or the end.
MutateFails(p) ==
    /\ desk[p].at \in {"creating", "contracting", "submitting", "run_submitting", "recording",
                      "run_recording", "launch_failing", "run_failing", "observed"}
    /\ CASE desk[p].at = "recording" -> GivesUp(p)
         [] desk[p].at = "run_recording" -> Moves(p, "run_failing")
         [] OTHER -> Ends(p)
    /\ OnlyDesk

Die(p) ==
    /\ desk[p] # Free /\ deaths > 0
    /\ deaths' = deaths - 1
    /\ Ends(p)
    /\ UNCHANGED <<tickets, calls, merged, client, moves, history>>

DeskInit ==
    /\ tickets = <<>> /\ calls = <<>> /\ merged = {}
    /\ desk = [p \in Process |-> Free]
    /\ \E c \in Clients : client = c.asked /\ moves = c.moves /\ deaths = c.deaths
    /\ raced = FALSE /\ misnumbered = FALSE

DeskStep(p) ==
    \/ ReadForPrepare(p) \/ CreateTicket(p) \/ PersistContract(p) \/ EndPrepare(p)
    \/ ReadForLaunch(p) \/ SubmitLaunch(p) \/ StartAgent(p) \/ RefuseAgent(p) \/ FailLaunch(p)
    \/ AttachByHand(p) \/ CheckReceipt(p) \/ RecordLaunch(p)
    \/ ReadForContinue(p) \/ SubmitRun(p) \/ StartRun(p) \/ RefuseRun(p) \/ RecordRun(p) \/ FailRun(p)
    \/ StartSync(p) \/ SkipSync(p) \/ Observe(p) \/ ApplySync(p)
    \/ MutateFails(p) \/ Die(p)

DeskNext == MoveTicket \/ Merge \/ \E p \in Process : DeskStep(p)

DeskSpec == DeskInit /\ [][DeskNext]_deskVars

-----------------------------------------------------------------------------
(* Properties. *)

\* Every stored ticket passes validateTicketStore, the records of the
\* controller and of the processes have their types.
DeskTypeOK ==
    /\ \A i \in DOMAIN tickets :
          /\ ValidTicket(tickets[i]) /\ tickets[i].mission \in Fingerprint
          /\ tickets[i].duplicate_of \in (DOMAIN tickets \ {i}) \cup {NoValue}
          /\ {tickets[i].launch, tickets[i].run} \subseteq Receipt \cup {NoValue}
    /\ Len(tickets) <= MaxTickets /\ Len(calls) <= MaxCalls
    /\ merged \subseteq DOMAIN calls

\* Whatever tools race, a ticket only ever holds receipts of calls made under
\* the fingerprint among its own references, and its continuations are runs of
\* its own agent; a contract of another mission gets on a ticket only when a
\* number was allocated between prepare's reading of it and its creation.
ReceiptsBelongToTicket ==
    DeskTypeOK /\ \A i \in DOMAIN tickets :
        LET t == tickets[i]
        IN  /\ \A r \in {t.launch, t.run} \ {NoValue} :
                  /\ r.fingerprint = t.mission
                  /\ r.id \in DOMAIN calls /\ calls[r.id].agent = r.agent
                  /\ calls[r.id].fingerprint = t.mission
            /\ t.run # NoValue => t.launch # NoValue /\ t.run.agent = t.launch.agent
            /\ t.contract \notin {NoValue, t.mission} => misnumbered

\* MY_WORK_LAUNCH_NOT_RETRYABLE and MY_WORK_CONTINUE_NOT_RETRYABLE hold across
\* crashes, lost answers and failed writes: the controller is asked twice for
\* the same launch or the same correction of a ticket only when two tools had
\* both read the ticket before either recorded its submission.
SingleCallUnlessRaced ==
    \A x, y \in DOMAIN calls :
        /\ x # y /\ calls[x].ticket = calls[y].ticket /\ calls[x].number = calls[y].number
        => raced

\* A ticket is moved to Done only when the pull request of its agent, or the
\* one a user names, is merged: never on the word of a completed run, however
\* old the observation, and a later run makes an older observation void.
DoneOnlyOnMerge ==
    [][\A i \in DOMAIN tickets :
          tickets'[i].state = "Done" /\ tickets[i].state # "Done" =>
             \/ tickets[i].launch # NoValue /\ tickets[i].launch.agent \in merged
             \/ moves' # moves /\ merged # {}]_deskVars

\* Every step of the tools is a step of the ledger of receipts, or none.
Receipts ==
    INSTANCE MissionReceipts
    WITH None <- NoValue,
         Receipt <- Receipt,
         launch <- [i \in DOMAIN tickets |-> tickets[i].launch],
         run <- [i \in DOMAIN tickets |-> tickets[i].run],
         closed <- {i \in DOMAIN tickets : Terminal(tickets[i])}

KeepsLedger == Receipts!LedgerSpec
=============================================================================
