--------------------------- MODULE TicketAllocation ---------------------------
(***************************************************************************)
(* `dubsar.tickets/1`: each project keeps its tickets in a store of its     *)
(* own, all projects take their identifiers from one allocation file, and   *)
(* `applyTicketChange` serialises the writers with a lock file that carries *)
(* a 30 second lease (registry-store.mjs).                                  *)
(*                                                                          *)
(* A writer opens the lock file, writes its nonce and its lease into it,    *)
(* computes the change again, and publishes with two renames: the project's *)
(* store, then the allocations.  A lock whose lease has expired is moved    *)
(* aside under a second, recovery lock.  Nothing checks the lease again     *)
(* after the lock is taken, and the finally block unlinks whatever lock     *)
(* file it finds.                                                           *)
(*                                                                          *)
(* Time is an action: a lease may expire whenever its lock file is there.   *)
(* An apply is modelled from the preview its user confirmed; a preview      *)
(* writes nothing.  Every operation but "create" replaces the project's     *)
(* store alone and adds one entry to a ticket's activity: "update" stands   *)
(* for all of them.                                                         *)
(***************************************************************************)
EXTENDS Naturals, Sequences, FiniteSets

CONSTANTS
    Process, Project,
    MaxTickets,    \* MAX_TICKETS: identifiers DUB-001 to DUB-999
    MaxActivity,   \* MAX_ACTIVITY: entries per ticket
    MaxAttempts,   \* bound: locks taken
    MaxCrashes,    \* bound: processes that die
    MaxFailures,   \* bound: roll backs that fail
    MaxOverruns,   \* bound: leases that expire while their owner is at work
    NULL

ASSUME TicketAssumption ==
    /\ {MaxTickets, MaxAttempts, MaxCrashes, MaxFailures, MaxOverruns} \subseteq Nat
    /\ MaxActivity \in Nat \ {0}
    /\ NULL \notin Process \cup Project
    /\ NULL \notin [nonce : Nat]   \* no lock file is a missing one

VARIABLES
    store,         \* tickets.json of each project
    allocations,   \* ticket-allocations.json: the project of each identifier
    lock,          \* ticket-allocations.lock
    recovery,      \* does ticket-allocations.recovery.lock exist
    expired,       \* the leases that have expired, by nonce
    attempts,
    pc, call,
    crashes,
    failures,
    torn,          \* history: a store was published and its allocation was not
    overruns       \* history: leases that expired while their owner was at work

vars == <<store, allocations, lock, recovery, expired, attempts, pc, call,
          crashes, failures, torn, overruns>>
disk == <<store, allocations>>
locks == <<lock, recovery, expired, attempts>>
faults == <<crashes, failures, torn, overruns>>

Id == 1..MaxTickets
Nonce == 1..MaxAttempts

\* A store maps its tickets to the length of their activity.
Store == UNION {[T -> 1..MaxActivity] : T \in SUBSET Id}

\* A lock file: nonce 0 until its content is written.
LockFile == [nonce : 0..MaxAttempts]

Operation ==
    [kind : {"create"}, project : Project]
      \cup [kind : {"update"}, project : Project, id : Id]

\* Publishing: from the lock taken to the lock given back.
Publishing == {"owned", "fresh", "stored", "closing"}
Recovering == {"claimed", "confirmed", "moved", "reopened", "unclaiming", "recovered"}
PC == {"idle", "previewed", "opened", "expired"} \cup Recovering \cup Publishing

TypeOK ==
    /\ store \in [Project -> Store]
    /\ allocations \in Seq(Project) /\ Len(allocations) <= MaxTickets
    /\ lock \in LockFile \cup {NULL}
    /\ recovery \in BOOLEAN
    /\ expired \subseteq Nonce
    /\ attempts \in 0..MaxAttempts
    /\ pc \in [Process -> PC]
    /\ DOMAIN call = Process
    /\ crashes \in 0..MaxCrashes /\ failures \in 0..MaxFailures
    /\ torn \in BOOLEAN /\ overruns \in 0..MaxOverruns

Init ==
    /\ store = [p \in Project |-> <<>>]
    /\ allocations = <<>>
    /\ lock = NULL /\ recovery = FALSE /\ expired = {} /\ attempts = 0
    /\ pc = [w \in Process |-> "idle"]
    /\ call = [w \in Process |-> NULL]
    /\ crashes = 0 /\ failures = 0 /\ torn = FALSE /\ overruns = 0

-----------------------------------------------------------------------------
(* previewTicketChange. *)

NextNumber == Len(allocations) + 1

Tickets(p) == DOMAIN store[p]

\* TICKET_ID_COLLISION, TICKET_NOT_FOUND, the limits.
Allowed(o) ==
    IF o.kind = "create"
    THEN NextNumber <= MaxTickets /\ NextNumber \notin Tickets(o.project)
    ELSE o.id \in Tickets(o.project) /\ store[o.project][o.id] < MaxActivity

StoreAfter(o) ==
    LET s == store[o.project] IN
    IF o.kind = "create"
    THEN [i \in DOMAIN s \cup {NextNumber} |-> IF i \in DOMAIN s THEN s[i] ELSE 1]
    ELSE [s EXCEPT ![o.id] = @ + 1]

AllocationsAfter(o) ==
    IF o.kind = "create" THEN Append(allocations, o.project) ELSE allocations

\* change_sha256 covers both files before and after.
Change(o) ==
    [operation |-> o, before |-> store[o.project], allocations |-> allocations,
     after |-> StoreAfter(o), allocations_after |-> AllocationsAfter(o)]

Goto(w, label) == pc' = [pc EXCEPT ![w] = label]
Operated(w) == call[w].change.operation

Preview(w) ==
    /\ pc[w] = "idle"
    /\ \E o \in Operation :
          /\ Allowed(o)
          /\ call' = [call EXCEPT ![w] =
                        [change |-> Change(o), nonce |-> 0, observed |-> 0]]
    /\ Goto(w, "previewed")
    /\ UNCHANGED <<disk, locks, faults>>

-----------------------------------------------------------------------------
(* Taking the lock (applyTicketChange). *)

\* The finally block, and the caller is told why.
Give(w) ==
    /\ call' = [call EXCEPT ![w] = NULL]
    /\ Goto(w, "idle")

\* open(lock, "wx"): the file is there, still empty.
OpenLock(w) ==
    /\ \/ pc[w] = "previewed" /\ Goto(w, "opened")
       \/ pc[w] = "moved" /\ Goto(w, "reopened")
    /\ lock = NULL /\ attempts < MaxAttempts
    /\ lock' = [nonce |-> 0]
    /\ attempts' = attempts + 1
    /\ call' = [call EXCEPT ![w].nonce = attempts + 1]
    /\ UNCHANGED <<disk, recovery, expired, faults>>

WriteLock(w) ==
    /\ \/ pc[w] = "opened" /\ Goto(w, "owned")
       \/ pc[w] = "reopened" /\ Goto(w, "recovered")
    /\ lock' = [nonce |-> call[w].nonce]
    /\ UNCHANGED <<disk, recovery, expired, attempts, call, faults>>

\* EEXIST, and the lease of the lock found there has expired.
ObserveExpired(w) ==
    /\ pc[w] = "previewed"
    /\ lock # NULL /\ lock.nonce \in expired
    /\ call' = [call EXCEPT ![w].observed = lock.nonce]
    /\ Goto(w, "expired")
    /\ UNCHANGED <<disk, locks, faults>>

\* TICKET_ALLOCATION_BUSY, or TICKET_ALLOCATION_LOCK_INVALID while it is empty.
RefuseBusy(w) ==
    /\ pc[w] = "previewed"
    /\ lock # NULL /\ lock.nonce \notin expired
    /\ Give(w)
    /\ UNCHANGED <<disk, locks, faults>>

ClaimRecovery(w) ==
    /\ pc[w] = "expired"
    /\ IF recovery
       THEN Give(w) /\ UNCHANGED recovery
       ELSE recovery' = TRUE /\ Goto(w, "claimed") /\ UNCHANGED call
    /\ UNCHANGED <<disk, lock, expired, attempts, faults>>

\* Mutant: the lock is not read again under the recovery lock.
ConfirmExpiredBlindly(w) ==
    /\ pc[w] = "claimed"
    /\ Goto(w, "confirmed")
    /\ UNCHANGED <<disk, locks, call, faults>>

\* The lock file must still be the one that was observed.
ConfirmExpired(w) ==
    /\ pc[w] = "claimed"
    /\ Goto(w, IF lock # NULL /\ lock.nonce = call[w].observed
               THEN "confirmed" ELSE "unclaiming")
    /\ UNCHANGED <<disk, locks, call, faults>>

\* rename(lock, abandoned) moves whatever lock file is there.
MoveAside(w) ==
    /\ pc[w] = "confirmed"
    /\ Goto(w, IF lock = NULL THEN "unclaiming" ELSE "moved")
    /\ lock' = NULL
    /\ UNCHANGED <<disk, recovery, expired, attempts, call, faults>>

\* Another process has opened the lock since it was moved aside.
LoseLock(w) ==
    /\ pc[w] = "moved" /\ lock # NULL
    /\ Goto(w, "unclaiming")
    /\ UNCHANGED <<disk, locks, call, faults>>

ReleaseRecovery(w) ==
    /\ recovery' = FALSE
    /\ \/ pc[w] = "recovered" /\ Goto(w, "owned") /\ UNCHANGED call
       \/ pc[w] = "unclaiming" /\ Give(w)
    /\ UNCHANGED <<disk, lock, expired, attempts, faults>>

-----------------------------------------------------------------------------
(* Publishing. *)

\* Mutant: the confirmed change is not compared with the recomputed one.
RecheckNothing(w) ==
    /\ pc[w] = "owned"
    /\ Goto(w, "fresh")
    /\ UNCHANGED <<disk, locks, call, faults>>

\* The change computed under the lock must be the confirmed one, or
\* TICKET_CHANGE_STALE.
Recheck(w) ==
    /\ pc[w] = "owned"
    /\ Goto(w, IF Allowed(Operated(w)) /\ Change(Operated(w)) = call[w].change
               THEN "fresh" ELSE "closing")
    /\ UNCHANGED <<disk, locks, call, faults>>

\* The first rename, and the only one unless a ticket is created.
RenameStore(w) ==
    /\ pc[w] = "fresh"
    /\ store' = [store EXCEPT ![Operated(w).project] = call[w].change.after]
    /\ Goto(w, IF Operated(w).kind = "create" THEN "stored" ELSE "closing")
    /\ UNCHANGED <<allocations, locks, call, faults>>

RenameAllocations(w) ==
    /\ pc[w] = "stored"
    /\ allocations' = call[w].change.allocations_after
    /\ Goto(w, "closing")
    /\ UNCHANGED <<store, locks, call, faults>>

\* Mutant: a failed second rename leaves the first one published.
RollBackNothing(w) ==
    /\ pc[w] = "stored"
    /\ Goto(w, "closing")
    /\ UNCHANGED <<disk, locks, call, faults>>

\* The second rename fails and the store is put back as it was.
RollBack(w) ==
    /\ pc[w] = "stored"
    /\ store' = [store EXCEPT ![Operated(w).project] = call[w].change.before]
    /\ Goto(w, "closing")
    /\ UNCHANGED <<allocations, locks, call, faults>>

\* Putting it back may fail as well.
RollBackFails(w) ==
    /\ pc[w] = "stored" /\ failures < MaxFailures
    /\ failures' = failures + 1
    /\ torn' = TRUE
    /\ Goto(w, "closing")
    /\ UNCHANGED <<disk, locks, call, crashes, overruns>>

\* unlink(lock), whoever's lock it is by now.
Unlock(w) ==
    /\ pc[w] = "closing"
    /\ lock' = NULL
    /\ Give(w)
    /\ UNCHANGED <<disk, recovery, expired, attempts, faults>>

\* A file operation fails before anything is published.  A lock file that was
\* opened and not written is not owned and stays; so does a recovery lock.
IOFailure(w) ==
    /\ \/ pc[w] = "opened" /\ Give(w) /\ UNCHANGED recovery
       \/ pc[w] = "expired" /\ ~recovery /\ recovery' = TRUE /\ Give(w)
       \/ /\ pc[w] \in {"claimed", "confirmed", "moved", "reopened"}
          /\ Goto(w, "unclaiming") /\ UNCHANGED <<call, recovery>>
       \/ /\ pc[w] \in {"owned", "fresh"}
          /\ Goto(w, "closing") /\ UNCHANGED <<call, recovery>>
    /\ UNCHANGED <<disk, lock, expired, attempts, faults>>

-----------------------------------------------------------------------------
(* The environment. *)

Owns(w, n) ==
    /\ pc[w] \in Publishing \cup {"recovered"}
    /\ call[w].nonce = n

Expire ==
    /\ lock # NULL /\ lock.nonce \in Nonce \ expired
    /\ expired' = expired \cup {lock.nonce}
    /\ IF \E w \in Process : Owns(w, lock.nonce)
       THEN overruns < MaxOverruns /\ overruns' = overruns + 1
       ELSE UNCHANGED overruns
    /\ UNCHANGED <<disk, lock, recovery, attempts, pc, call, crashes, failures, torn>>

Crash(w) ==
    /\ pc[w] # "idle" /\ crashes < MaxCrashes
    /\ crashes' = crashes + 1
    /\ torn' = (torn \/ pc[w] = "stored")
    /\ Give(w)
    /\ UNCHANGED <<disk, locks, failures, overruns>>

-----------------------------------------------------------------------------
TakeLock(w) ==
    \/ OpenLock(w) \/ WriteLock(w) \/ ObserveExpired(w) \/ RefuseBusy(w)
    \/ ClaimRecovery(w) \/ ConfirmExpired(w) \/ MoveAside(w) \/ LoseLock(w)
    \/ ReleaseRecovery(w)

Publish(w) ==
    \/ Recheck(w) \/ RenameStore(w) \/ RenameAllocations(w)
    \/ RollBack(w) \/ RollBackFails(w) \/ Unlock(w)

Next ==
    \/ \E w \in Process :
          Preview(w) \/ TakeLock(w) \/ Publish(w) \/ IOFailure(w) \/ Crash(w)
    \/ Expire

Spec == Init /\ [][Next]_vars

-----------------------------------------------------------------------------
(* Properties. *)

\* As long as every owner finishes within its lease, one process at a time is
\* between taking and giving back the allocation lock, through any number of
\* crashes and recoveries: two recoverers never both take an abandoned lock,
\* and none takes a lock that a third process has acquired meanwhile.
OneOwner ==
    overruns = 0 => \A v, w \in Process :
        pc[v] \in Publishing /\ pc[w] \in Publishing => v = w

\* docs/DUBSAR_TICKETS_CONTRACT.md: "Deux projets ne peuvent donc pas recevoir
\* le meme identifiant, y compris apres redemarrage."
UniqueIdentifiers ==
    \A p, q \in Project : p # q => Tickets(p) \cap Tickets(q) = {}

\* What the two files promise each other: a project's tickets are the
\* identifiers allocated to it, but for the one being published, unless a
\* process died or failed to roll back between the two renames, or a lease was
\* overrun.  No ticket outgrows its activity limit.
Allocated(p) == {i \in 1..Len(allocations) : allocations[i] = p}
InFlight(p) ==
    {Len(call[w].change.allocations_after) :
        w \in {v \in Process : pc[v] = "stored" /\ Operated(v).project = p}}
StoreMatchesAllocations ==
    /\ TypeOK
    /\ ~torn /\ overruns = 0 => \A p \in Project : Tickets(p) = Allocated(p) \cup InFlight(p)

\* No lost update: while leases are respected, the store a change replaces is
\* the one the user confirmed it against, even after crashes and recoveries.
PublishedFromCurrent ==
    [][\A w \in Process :
          (pc[w] = "fresh" /\ store' # store /\ overruns = 0) =>
              /\ store[Operated(w).project] = call[w].change.before
              /\ allocations = call[w].change.allocations]_vars
=============================================================================
