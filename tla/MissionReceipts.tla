---------------------------- MODULE MissionReceipts ----------------------------
(***************************************************************************)
(* What the ticket store promises about remote work, without tools, calls   *)
(* and failures: a ticket gets one launch receipt and keeps it, its runs    *)
(* belong to the launched agent and their correction numbers grow, and a    *)
(* closed ticket gets no receipt before somebody reopens it.                *)
(***************************************************************************)
EXTENDS Naturals, Sequences

CONSTANTS
    None,
    Receipt     \* records with the agent, and the correction number of a run

VARIABLES
    launch,     \* per ticket: None or the receipt of its launch
    run,        \* per ticket: None or the receipt of its last continuation
    closed      \* the tickets in a terminal state

ledger == <<launch, run, closed>>

LedgerInit == launch = <<>> /\ run = <<>> /\ closed = {}

OpenTicket ==
    /\ launch' = Append(launch, None)
    /\ run' = Append(run, None)
    /\ UNCHANGED closed

AttachLaunch(i, r) ==
    /\ i \notin closed /\ launch[i] = None
    /\ launch' = [launch EXCEPT ![i] = r]
    /\ UNCHANGED <<run, closed>>

AttachRun(i, r) ==
    /\ i \notin closed /\ launch[i] # None
    /\ r.agent = launch[i].agent
    /\ run[i] # None => r.number > run[i].number
    /\ run' = [run EXCEPT ![i] = r]
    /\ UNCHANGED <<launch, closed>>

CloseOrReopen ==
    /\ closed' \subseteq DOMAIN launch
    /\ UNCHANGED <<launch, run>>

LedgerNext ==
    \/ OpenTicket \/ CloseOrReopen
    \/ \E i \in DOMAIN launch, r \in Receipt : AttachLaunch(i, r) \/ AttachRun(i, r)

LedgerSpec == LedgerInit /\ [][LedgerNext]_ledger
=============================================================================
