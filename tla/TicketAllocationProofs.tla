------------------------ MODULE TicketAllocationProofs ------------------------
(***************************************************************************)
(* What holds of the ticket registry for every set of processes and         *)
(* projects, every limit and any number of crashes and failures.  The       *)
(* argument has three layers, each inductive with the ones before it: what  *)
(* lock files and nonces say whatever the leases do (LockInv); who holds    *)
(* the lock as long as every owner finishes within its lease (OwnInv); and  *)
(* what the holder may then assume of the two files, and they of each other *)
(* (HeldIsCurrent, FilesMatch).                                             *)
(***************************************************************************)
EXTENDS TicketAllocation, TLAPS

\* Between open(lock, "wx") and the content of the lock file being written.
Opening == {"opened", "reopened"}
\* From the content written to the lock file removed.
Owning == Publishing \cup {"recovered"}

-----------------------------------------------------------------------------
(* Types: what a confirmed change is. *)

Ledger == {a \in Seq(Project) : Len(a) <= MaxTickets}

\* A creation adds the next number to the store and to the allocations; the
\* other operations change neither set of tickets.
Fits(c) ==
    IF c.operation.kind = "create"
    THEN /\ Len(c.allocations) + 1 \in Id \ DOMAIN c.before
         /\ DOMAIN c.after = DOMAIN c.before \cup {Len(c.allocations) + 1}
         /\ c.allocations_after = Append(c.allocations, c.operation.project)
    ELSE DOMAIN c.after = DOMAIN c.before /\ c.allocations_after = c.allocations

Confirmed ==
    {c \in [operation : Operation, before : Store, allocations : Ledger,
            after : Store, allocations_after : Ledger] : Fits(c)}
Call == [change : Confirmed, nonce : 0..MaxAttempts, observed : 0..MaxAttempts]

\* A process that is not idle carries the change its user confirmed.
TypeInv ==
    /\ TypeOK
    /\ \A w \in Process : pc[w] # "idle" => call[w] \in Call

-----------------------------------------------------------------------------
(* The lock, whatever the leases do. *)

\* Nonces come from one counter: none is on disk or expired before it is taken.
NoncesFresh ==
    /\ lock # NULL => lock.nonce <= attempts
    /\ expired \subseteq 1..attempts
    /\ \A w \in Process : pc[w] \in Opening \cup Owning => call[w].nonce \in 1..attempts

\* No two takers have the same nonce.
NoncesDistinct ==
    \A v, w \in Process :
        (v # w /\ pc[v] \in Opening \cup Owning /\ pc[w] \in Opening \cup Owning)
            => call[v].nonce # call[w].nonce

\* The recovery lock admits one process; one that dies leaves it behind.
OneRecoverer ==
    /\ \A v, w \in Process : pc[v] \in Recovering /\ pc[w] \in Recovering => v = w
    /\ \A w \in Process : pc[w] \in Recovering => recovery

\* The lock a recoverer moves aside is one whose lease has expired.
ObservedExpired ==
    \A w \in Process : pc[w] \in {"expired", "claimed", "confirmed"} => call[w].observed \in expired

LockInv == NoncesFresh /\ NoncesDistinct /\ OneRecoverer /\ ObservedExpired

-----------------------------------------------------------------------------
(* The lock, as long as every owner finishes within its lease. *)

\* One process has the lock, opened or owned.
OneHolder ==
    \A v, w \in Process :
        pc[v] \in Opening \cup Owning /\ pc[w] \in Opening \cup Owning => v = w

\* The lock file says whose it is: it carries its owner's nonce, it is empty
\* while its taker has not written it, and it is still the abandoned one when a
\* recoverer is about to move it.  OneHolder is not inductive without this: it
\* is why a recoverer, which checks the nonce but renames whatever is there,
\* never moves a live lock aside.
LockIsHeld ==
    \A w \in Process :
        /\ pc[w] \in Owning => lock = [nonce |-> call[w].nonce] /\ call[w].nonce \notin expired
        /\ pc[w] \in Opening => lock = [nonce |-> 0] /\ call[w].nonce \notin expired
        /\ pc[w] = "confirmed" => lock = [nonce |-> call[w].observed]

OwnInv == overruns = 0 => OneHolder /\ LockIsHeld

-----------------------------------------------------------------------------
(* The files. *)

\* What was confirmed is what is on disk, from the recheck to the last rename.
HeldIsCurrent ==
    overruns = 0 => \A w \in Process :
        /\ pc[w] \in {"fresh", "stored"} => call[w].change.allocations = allocations
        /\ pc[w] = "fresh" => store[Operated(w).project] = call[w].change.before
        /\ pc[w] = "stored" =>
              Operated(w).kind = "create" /\ store[Operated(w).project] = call[w].change.after

\* The second conjunct of StoreMatchesAllocations.
FilesMatch ==
    ~torn /\ overruns = 0 =>
        \A p \in Project : Tickets(p) = Allocated(p) \cup InFlight(p)

IInv == TypeInv /\ LockInv /\ OwnInv /\ HeldIsCurrent /\ FilesMatch

-----------------------------------------------------------------------------
(* The model's operators. *)

\* A store is a function from identifiers to lengths of activity.
LEMMA StoreTyping ==
  \A s : s \in Store <=> s \in [DOMAIN s -> 1..MaxActivity] /\ DOMAIN s \subseteq Id
  BY DEF Store

\* Every operation names a project, and all but creation a ticket.
LEMMA OperationTyping ==
  ASSUME NEW o \in Operation
  PROVE  /\ o.project \in Project
         /\ o.kind \in {"create", "update"}
         /\ o.kind = "update" => o.id \in Id
  BY DEF Operation

\* The change previewTicketChange computes for an operation it allows is well
\* formed: neither file leaves its limits.
LEMMA AllowedChange ==
  ASSUME TypeOK, NEW o \in Operation, Allowed(o)
  PROVE  Change(o) \in Confirmed
  <1> DEFINE s == store[o.project]
  <1>1. /\ s \in Store /\ o.project \in Project
        /\ s \in [DOMAIN s -> 1..MaxActivity] /\ DOMAIN s \subseteq Id
    BY OperationTyping, StoreTyping DEF TypeOK
  <1>2. allocations \in Ledger /\ MaxActivity \in Nat \ {0} /\ MaxTickets \in Nat
    BY TicketAssumption DEF TypeOK, Ledger
  <1>3. CASE o.kind = "create"
    <2>1. NextNumber \in Id \ DOMAIN s
      BY <1>2, <1>3 DEF Allowed, NextNumber, Tickets, Id, Ledger
    <2>2. StoreAfter(o) = [i \in DOMAIN s \cup {NextNumber} |-> IF i \in DOMAIN s THEN s[i] ELSE 1]
      BY <1>3 DEF StoreAfter
    <2>3. StoreAfter(o) \in Store /\ DOMAIN StoreAfter(o) = DOMAIN s \cup {NextNumber}
      BY <2>1, <2>2, <1>1, <1>2, StoreTyping
    <2>4. AllocationsAfter(o) = Append(allocations, o.project)
      BY <1>3 DEF AllocationsAfter
    <2>5. AllocationsAfter(o) \in Ledger
      BY <2>1, <2>4, <1>1, <1>2 DEF Ledger, Id, NextNumber
    <2> QED
      BY <2>1, <2>3, <2>4, <2>5, <1>1, <1>2, <1>3 DEF Confirmed, Change, Fits, NextNumber
  <1>4. CASE o.kind # "create"
    <2>1. o.id \in DOMAIN s /\ s[o.id] < MaxActivity
      BY <1>4 DEF Allowed, Tickets
    <2>2. StoreAfter(o) = [s EXCEPT ![o.id] = @ + 1]
      BY <1>4 DEF StoreAfter
    <2>3. StoreAfter(o) \in Store /\ DOMAIN StoreAfter(o) = DOMAIN s
      BY <2>1, <2>2, <1>1, <1>2, StoreTyping
    <2>4. AllocationsAfter(o) = allocations
      BY <1>4 DEF AllocationsAfter
    <2> QED
      BY <2>3, <2>4, <1>1, <1>2, <1>4 DEF Confirmed, Change, Fits
  <1> QED
    BY <1>3, <1>4

\* Removing one element that neither set has.
LEMMA SameButOne ==
  ASSUME NEW A, NEW B, NEW x, x \notin A, x \notin B, A \cup {x} = B \cup {x}
  PROVE  A = B
  OBVIOUS

-----------------------------------------------------------------------------
(* Types. *)

\* Nothing is on disk and nobody is at work at first.
LEMMA InitType == Init => TypeInv
  <1> SUFFICES ASSUME Init PROVE TypeInv
    OBVIOUS
  <1>1. <<>> \in Store
    <2>1. <<>> \in [{} -> 1..MaxActivity]
      OBVIOUS
    <2> QED
      BY <2>1 DEF Store
  <1>2. store \in [Project -> Store]
    BY <1>1 DEF Init
  <1>3. allocations \in Seq(Project) /\ Len(allocations) <= MaxTickets
    BY TicketAssumption DEF Init
  <1>4. pc \in [Process -> PC] /\ \A w \in Process : pc[w] = "idle"
    BY DEF Init, PC
  <1>5. recovery \in BOOLEAN /\ torn \in BOOLEAN
    BY DEF Init
  <1>6. /\ attempts \in 0..MaxAttempts /\ overruns \in 0..MaxOverruns
        /\ crashes \in 0..MaxCrashes /\ failures \in 0..MaxFailures
    BY TicketAssumption DEF Init
  <1>7. DOMAIN call = Process
    BY DEF Init
  <1>8. lock \in LockFile \cup {NULL} /\ expired \subseteq Nonce
    BY DEF Init
  <1> QED
    BY <1>2, <1>3, <1>4, <1>5, <1>6, <1>7, <1>8 DEF TypeInv, TypeOK

\* Every step keeps the types, those of the carried changes included.
LEMMA TypeStep == TypeInv /\ [Next]_vars => TypeInv'
  <1> SUFFICES ASSUME TypeInv, [Next]_vars PROVE TypeInv'
    OBVIOUS
  <1> USE TicketAssumption DEF TypeInv, TypeOK, PC, Publishing, Recovering, disk, locks, faults, Goto, Give
  <1>1. ASSUME NEW w \in Process, Preview(w) PROVE TypeInv'
    <2> PICK o \in Operation : Allowed(o) /\ call' = [call EXCEPT ![w] = [change |-> Change(o), nonce |-> 0, observed |-> 0]]
      BY <1>1 DEF Preview
    <2>1. Change(o) \in Confirmed
      BY AllowedChange
    <2>2. call'[w] \in Call
      BY <2>1 DEF Call
    <2> QED
      BY <1>1, <2>2 DEF Preview
  <1>2. ASSUME NEW w \in Process, OpenLock(w) PROVE TypeInv'
    <2>1. call[w] \in Call /\ call'[w] = [call[w] EXCEPT !.nonce = attempts + 1]
      BY <1>2 DEF OpenLock
    <2>2. attempts + 1 \in 0..MaxAttempts /\ [nonce |-> 0] \in LockFile
      BY <1>2 DEF OpenLock, LockFile
    <2>3. call'[w] \in Call
      BY <2>1, <2>2 DEF Call
    <2> QED
      BY <1>2, <2>2, <2>3 DEF OpenLock
  <1>3. ASSUME NEW w \in Process, WriteLock(w) PROVE TypeInv'
    BY <1>3 DEF WriteLock, Call, LockFile
  <1>4. ASSUME NEW w \in Process, ObserveExpired(w) PROVE TypeInv'
    BY <1>4 DEF ObserveExpired, Call, LockFile, Nonce
  <1>5. ASSUME NEW w \in Process, RefuseBusy(w) PROVE TypeInv'
    BY <1>5 DEF RefuseBusy
  <1>6. ASSUME NEW w \in Process, ClaimRecovery(w) PROVE TypeInv'
    BY <1>6 DEF ClaimRecovery
  <1>7. ASSUME NEW w \in Process, ConfirmExpired(w) PROVE TypeInv'
    BY <1>7 DEF ConfirmExpired
  <1>8. ASSUME NEW w \in Process, MoveAside(w) PROVE TypeInv'
    BY <1>8 DEF MoveAside
  <1>9. ASSUME NEW w \in Process, LoseLock(w) PROVE TypeInv'
    BY <1>9 DEF LoseLock
  <1>10. ASSUME NEW w \in Process, ReleaseRecovery(w) PROVE TypeInv'
    BY <1>10 DEF ReleaseRecovery
  <1>11. ASSUME NEW w \in Process, Recheck(w) PROVE TypeInv'
    BY <1>11 DEF Recheck
  <1>12. ASSUME NEW w \in Process, RenameStore(w) PROVE TypeInv'
    <2>1. Operated(w).project \in Project /\ call[w].change.after \in Store
      BY <1>12, OperationTyping DEF RenameStore, Operated, Call, Confirmed
    <2> QED
      BY <1>12, <2>1 DEF RenameStore
  <1>13. ASSUME NEW w \in Process, RenameAllocations(w) PROVE TypeInv'
    <2>1. call[w].change.allocations_after \in Ledger
      BY <1>13 DEF RenameAllocations, Call, Confirmed
    <2> QED
      BY <1>13, <2>1 DEF RenameAllocations, Ledger
  <1>14. ASSUME NEW w \in Process, RollBack(w) PROVE TypeInv'
    <2>1. Operated(w).project \in Project /\ call[w].change.before \in Store
      BY <1>14, OperationTyping DEF RollBack, Operated, Call, Confirmed
    <2> QED
      BY <1>14, <2>1 DEF RollBack
  <1>15. ASSUME NEW w \in Process, RollBackFails(w) PROVE TypeInv'
    BY <1>15 DEF RollBackFails
  <1>16. ASSUME NEW w \in Process, Unlock(w) PROVE TypeInv'
    BY <1>16 DEF Unlock
  <1>17. ASSUME NEW w \in Process, IOFailure(w) PROVE TypeInv'
    BY <1>17 DEF IOFailure
  <1>18. ASSUME NEW w \in Process, Crash(w) PROVE TypeInv'
    BY <1>18 DEF Crash
  <1>19. CASE Expire
    <2>1. expired' \subseteq Nonce
      BY <1>19 DEF Expire
    <2>2. overruns' \in 0..MaxOverruns
      BY <1>19 DEF Expire
    <2> QED
      BY <1>19, <2>1, <2>2 DEF Expire
  <1>20. CASE UNCHANGED vars
    BY <1>20 DEF vars
  <1> QED
    BY <1>1, <1>2, <1>3, <1>4, <1>5, <1>6, <1>7, <1>8, <1>9, <1>10, <1>11, <1>12,
       <1>13, <1>14, <1>15, <1>16, <1>17, <1>18, <1>19, <1>20
       DEF Next, TakeLock, Publish

-----------------------------------------------------------------------------
(* The lock. *)

\* Every step keeps what nonces and the recovery lock say, overrun or not.
LEMMA LockStep == TypeInv /\ LockInv /\ [Next]_vars => LockInv'
  <1> SUFFICES ASSUME TypeInv, LockInv, [Next]_vars PROVE LockInv'
    OBVIOUS
  <1> USE TicketAssumption DEF TypeInv, TypeOK, PC, Publishing, Recovering, Opening, Owning, disk, locks, faults, Goto, Give,
          LockInv, NoncesFresh, NoncesDistinct, OneRecoverer, ObservedExpired
  <1>1. ASSUME NEW w \in Process, Preview(w) PROVE LockInv'
    BY <1>1 DEF Preview
  <1>2. ASSUME NEW w \in Process, OpenLock(w) PROVE LockInv'
    <2>1. NoncesFresh'
      BY <1>2 DEF OpenLock
    <2>2. NoncesDistinct'
      BY <1>2 DEF OpenLock
    <2>3. OneRecoverer'
      BY <1>2 DEF OpenLock
    <2>4. ObservedExpired'
      BY <1>2 DEF OpenLock
    <2> QED
      BY <2>1, <2>2, <2>3, <2>4
  <1>3. ASSUME NEW w \in Process, WriteLock(w) PROVE LockInv'
    <2>1. NoncesFresh'
      BY <1>3 DEF WriteLock
    <2>2. NoncesDistinct'
      BY <1>3 DEF WriteLock
    <2>3. OneRecoverer'
      BY <1>3 DEF WriteLock
    <2>4. ObservedExpired'
      BY <1>3 DEF WriteLock
    <2> QED
      BY <2>1, <2>2, <2>3, <2>4
  <1>4. ASSUME NEW w \in Process, ObserveExpired(w) PROVE LockInv'
    BY <1>4 DEF ObserveExpired
  <1>5. ASSUME NEW w \in Process, RefuseBusy(w) PROVE LockInv'
    BY <1>5 DEF RefuseBusy
  <1>6. ASSUME NEW w \in Process, ClaimRecovery(w) PROVE LockInv'
    <2>1. NoncesFresh'
      BY <1>6 DEF ClaimRecovery
    <2>2. NoncesDistinct'
      BY <1>6 DEF ClaimRecovery
    <2>3. OneRecoverer'
      BY <1>6 DEF ClaimRecovery
    <2>4. ObservedExpired'
      BY <1>6 DEF ClaimRecovery
    <2> QED
      BY <2>1, <2>2, <2>3, <2>4
  <1>7. ASSUME NEW w \in Process, ConfirmExpired(w) PROVE LockInv'
    BY <1>7 DEF ConfirmExpired
  <1>8. ASSUME NEW w \in Process, MoveAside(w) PROVE LockInv'
    BY <1>8 DEF MoveAside
  <1>9. ASSUME NEW w \in Process, LoseLock(w) PROVE LockInv'
    BY <1>9 DEF LoseLock
  <1>10. ASSUME NEW w \in Process, ReleaseRecovery(w) PROVE LockInv'
    <2>1. \A v \in Process : v # w => pc[v] \notin Recovering
      BY <1>10 DEF ReleaseRecovery
    <2>2. pc'[w] \in {"owned", "idle"} /\ \A v \in Process : v # w => pc'[v] = pc[v]
      BY <1>10 DEF ReleaseRecovery
    <2>3. OneRecoverer'
      BY <2>1, <2>2
    <2>4. NoncesFresh'
      BY <1>10 DEF ReleaseRecovery
    <2>5. NoncesDistinct'
      BY <1>10 DEF ReleaseRecovery
    <2>6. ObservedExpired'
      BY <1>10 DEF ReleaseRecovery
    <2> QED
      BY <2>3, <2>4, <2>5, <2>6
  <1>11. ASSUME NEW w \in Process, Recheck(w) PROVE LockInv'
    BY <1>11 DEF Recheck
  <1>12. ASSUME NEW w \in Process, RenameStore(w) PROVE LockInv'
    BY <1>12 DEF RenameStore
  <1>13. ASSUME NEW w \in Process, RenameAllocations(w) PROVE LockInv'
    BY <1>13 DEF RenameAllocations
  <1>14. ASSUME NEW w \in Process, RollBack(w) PROVE LockInv'
    BY <1>14 DEF RollBack
  <1>15. ASSUME NEW w \in Process, RollBackFails(w) PROVE LockInv'
    BY <1>15 DEF RollBackFails
  <1>16. ASSUME NEW w \in Process, Unlock(w) PROVE LockInv'
    BY <1>16 DEF Unlock
  <1>17. ASSUME NEW w \in Process, IOFailure(w) PROVE LockInv'
    <2>1. NoncesFresh'
      BY <1>17 DEF IOFailure
    <2>2. NoncesDistinct'
      <3>1. /\ pc'[w] \in Opening \cup Owning => pc[w] \in Opening \cup Owning /\ call' = call
            /\ \A v \in Process : v # w => pc'[v] = pc[v] /\ call'[v].nonce = call[v].nonce
        BY <1>17 DEF IOFailure
      <3> QED
        BY <3>1
    <2>3. OneRecoverer'
      <3>1. CASE pc[w] \in {"claimed", "confirmed", "moved", "reopened"}
        BY <1>17, <3>1 DEF IOFailure
      <3>2. CASE pc[w] = "expired"
        BY <1>17, <3>2 DEF IOFailure
      <3>3. CASE pc[w] \in {"opened", "owned", "fresh"}
        BY <1>17, <3>3 DEF IOFailure
      <3> QED
        BY <1>17, <3>1, <3>2, <3>3 DEF IOFailure
    <2>4. ObservedExpired'
      BY <1>17 DEF IOFailure
    <2> QED
      BY <2>1, <2>2, <2>3, <2>4
  <1>18. ASSUME NEW w \in Process, Crash(w) PROVE LockInv'
    BY <1>18 DEF Crash
  <1>19. CASE Expire
    <2>1. lock.nonce \in 1..attempts /\ expired' = expired \cup {lock.nonce}
      BY <1>19 DEF Expire, Nonce
    <2>2. UNCHANGED <<lock, recovery, attempts, pc, call>>
      BY <1>19 DEF Expire
    <2>3. NoncesFresh'
      BY <2>1, <2>2
    <2>4. NoncesDistinct' /\ OneRecoverer'
      BY <2>2
    <2>5. ObservedExpired'
      BY <2>1, <2>2
    <2> QED
      BY <2>3, <2>4, <2>5
  <1>20. CASE UNCHANGED vars
    BY <1>20 DEF vars
  <1> QED
    BY <1>1, <1>2, <1>3, <1>4, <1>5, <1>6, <1>7, <1>8, <1>9, <1>10, <1>11, <1>12,
       <1>13, <1>14, <1>15, <1>16, <1>17, <1>18, <1>19, <1>20
       DEF Next, TakeLock, Publish

\* Every step that overruns no lease keeps one holder, whose lock is on disk.
LEMMA OwnStep == TypeInv /\ LockInv /\ OwnInv /\ [Next]_vars => OwnInv'
  <1> SUFFICES ASSUME TypeInv, LockInv, OwnInv, [Next]_vars PROVE OwnInv'
    OBVIOUS
  <1> USE TicketAssumption DEF TypeInv, TypeOK, PC, Publishing, Recovering, Opening, Owning, disk, locks, faults, Goto, Give,
          LockInv, NoncesFresh, NoncesDistinct, OneRecoverer, ObservedExpired, OwnInv, OneHolder, LockIsHeld
  <1>1. ASSUME NEW w \in Process, Preview(w) PROVE OwnInv'
    BY <1>1 DEF Preview
  <1>2. ASSUME NEW w \in Process, OpenLock(w) PROVE OwnInv'
    <2>1. overruns' = 0 => OneHolder'
      BY <1>2 DEF OpenLock
    <2>2. overruns' = 0 => LockIsHeld'
      BY <1>2 DEF OpenLock
    <2> QED
      BY <2>1, <2>2
  <1>3. ASSUME NEW w \in Process, WriteLock(w) PROVE OwnInv'
    <2>1. overruns' = 0 => OneHolder'
      BY <1>3 DEF WriteLock
    <2>2. overruns' = 0 => LockIsHeld'
      BY <1>3 DEF WriteLock
    <2> QED
      BY <2>1, <2>2
  <1>4. ASSUME NEW w \in Process, ObserveExpired(w) PROVE OwnInv'
    BY <1>4 DEF ObserveExpired
  <1>5. ASSUME NEW w \in Process, RefuseBusy(w) PROVE OwnInv'
    BY <1>5 DEF RefuseBusy
  <1>6. ASSUME NEW w \in Process, ClaimRecovery(w) PROVE OwnInv'
    BY <1>6 DEF ClaimRecovery
  <1>7. ASSUME NEW w \in Process, ConfirmExpired(w) PROVE OwnInv'
    BY <1>7 DEF ConfirmExpired, LockFile
  <1>8. ASSUME NEW w \in Process, MoveAside(w) PROVE OwnInv'
    BY <1>8 DEF MoveAside
  <1>9. ASSUME NEW w \in Process, LoseLock(w) PROVE OwnInv'
    BY <1>9 DEF LoseLock
  <1>10. ASSUME NEW w \in Process, ReleaseRecovery(w) PROVE OwnInv'
    BY <1>10 DEF ReleaseRecovery
  <1>11. ASSUME NEW w \in Process, Recheck(w) PROVE OwnInv'
    BY <1>11 DEF Recheck
  <1>12. ASSUME NEW w \in Process, RenameStore(w) PROVE OwnInv'
    BY <1>12 DEF RenameStore
  <1>13. ASSUME NEW w \in Process, RenameAllocations(w) PROVE OwnInv'
    BY <1>13 DEF RenameAllocations
  <1>14. ASSUME NEW w \in Process, RollBack(w) PROVE OwnInv'
    BY <1>14 DEF RollBack
  <1>15. ASSUME NEW w \in Process, RollBackFails(w) PROVE OwnInv'
    BY <1>15 DEF RollBackFails
  <1>16. ASSUME NEW w \in Process, Unlock(w) PROVE OwnInv'
    BY <1>16 DEF Unlock
  <1>17. ASSUME NEW w \in Process, IOFailure(w) PROVE OwnInv'
    BY <1>17 DEF IOFailure
  <1>18. ASSUME NEW w \in Process, Crash(w) PROVE OwnInv'
    BY <1>18 DEF Crash
  <1>19. CASE Expire
    BY <1>19 DEF Expire, Owns
  <1>20. CASE UNCHANGED vars
    BY <1>20 DEF vars
  <1> QED
    BY <1>1, <1>2, <1>3, <1>4, <1>5, <1>6, <1>7, <1>8, <1>9, <1>10, <1>11, <1>12,
       <1>13, <1>14, <1>15, <1>16, <1>17, <1>18, <1>19, <1>20
       DEF Next, TakeLock, Publish

-----------------------------------------------------------------------------
(* The files. *)

\* Nobody but the holder writes, so its change stays current.
LEMMA HeldStep ==
  ASSUME TypeInv, LockInv, OwnInv, HeldIsCurrent, [Next]_vars
  PROVE  HeldIsCurrent'
  <1> USE DEF TypeInv, TypeOK, PC, Publishing, Recovering, Opening, Owning, disk, locks, faults,
              Goto, Give, OwnInv, OneHolder, HeldIsCurrent, Operated
  <1>1. ASSUME NEW w \in Process, Preview(w) PROVE HeldIsCurrent'
    BY <1>1 DEF Preview
  <1>2. ASSUME NEW w \in Process, OpenLock(w) PROVE HeldIsCurrent'
    BY <1>2 DEF OpenLock
  <1>3. ASSUME NEW w \in Process, WriteLock(w) PROVE HeldIsCurrent'
    BY <1>3 DEF WriteLock
  <1>4. ASSUME NEW w \in Process, ObserveExpired(w) PROVE HeldIsCurrent'
    BY <1>4 DEF ObserveExpired
  <1>5. ASSUME NEW w \in Process, RefuseBusy(w) PROVE HeldIsCurrent'
    BY <1>5 DEF RefuseBusy
  <1>6. ASSUME NEW w \in Process, ClaimRecovery(w) PROVE HeldIsCurrent'
    BY <1>6 DEF ClaimRecovery
  <1>7. ASSUME NEW w \in Process, ConfirmExpired(w) PROVE HeldIsCurrent'
    BY <1>7 DEF ConfirmExpired
  <1>8. ASSUME NEW w \in Process, MoveAside(w) PROVE HeldIsCurrent'
    BY <1>8 DEF MoveAside
  <1>9. ASSUME NEW w \in Process, LoseLock(w) PROVE HeldIsCurrent'
    BY <1>9 DEF LoseLock
  <1>10. ASSUME NEW w \in Process, ReleaseRecovery(w) PROVE HeldIsCurrent'
    BY <1>10 DEF ReleaseRecovery
  <1>11. ASSUME NEW w \in Process, Recheck(w) PROVE HeldIsCurrent'
    <2>1. pc'[w] = "fresh" => Change(Operated(w)) = call[w].change
      BY <1>11 DEF Recheck
    <2> QED
      BY <1>11, <2>1 DEF Recheck, Change
  <1>12. ASSUME NEW w \in Process, RenameStore(w) PROVE HeldIsCurrent'
    <2>1. Operated(w).project \in Project
      BY <1>12, OperationTyping DEF RenameStore, Call, Confirmed
    <2> QED
      BY <1>12, <2>1 DEF RenameStore
  <1>13. ASSUME NEW w \in Process, RenameAllocations(w) PROVE HeldIsCurrent'
    BY <1>13 DEF RenameAllocations
  <1>14. ASSUME NEW w \in Process, RollBack(w) PROVE HeldIsCurrent'
    BY <1>14 DEF RollBack
  <1>15. ASSUME NEW w \in Process, RollBackFails(w) PROVE HeldIsCurrent'
    BY <1>15 DEF RollBackFails
  <1>16. ASSUME NEW w \in Process, Unlock(w) PROVE HeldIsCurrent'
    BY <1>16 DEF Unlock
  <1>17. ASSUME NEW w \in Process, IOFailure(w) PROVE HeldIsCurrent'
    BY <1>17 DEF IOFailure
  <1>18. ASSUME NEW w \in Process, Crash(w) PROVE HeldIsCurrent'
    BY <1>18 DEF Crash
  <1>19. CASE Expire
    BY <1>19 DEF Expire
  <1>20. CASE UNCHANGED vars
    BY <1>20 DEF vars
  <1> QED
    BY <1>1, <1>2, <1>3, <1>4, <1>5, <1>6, <1>7, <1>8, <1>9, <1>10, <1>11, <1>12,
       <1>13, <1>14, <1>15, <1>16, <1>17, <1>18, <1>19, <1>20
       DEF Next, TakeLock, Publish

\* A step that leaves the files and whoever is between the two renames alone.
Quiet ==
    /\ UNCHANGED <<store, allocations, torn>>
    /\ overruns' = 0 => overruns = 0
    /\ \A w \in Process :
          /\ pc'[w] = "stored" <=> pc[w] = "stored"
          /\ pc[w] = "stored" => call'[w] = call[w]

\* Such a step keeps the two files in agreement.
LEMMA QuietMatch == ASSUME FilesMatch, Quiet PROVE FilesMatch'
  <1>1. \A p : InFlight(p)' = InFlight(p)
    BY DEF Quiet, InFlight, Operated
  <1> QED
    BY <1>1 DEF Quiet, FilesMatch, Tickets, Allocated

\* Taking the lock, checking and giving the lock back are such steps.
LEMMA QuietSteps ==
  ASSUME TypeInv, NEW w \in Process,
         Preview(w) \/ TakeLock(w) \/ Recheck(w) \/ Unlock(w) \/ IOFailure(w)
  PROVE  Quiet
  BY DEF TypeInv, TypeOK, Quiet, Preview, TakeLock, OpenLock, WriteLock, ObserveExpired, RefuseBusy,
         ClaimRecovery, ConfirmExpired, MoveAside, LoseLock, ReleaseRecovery, Recheck, Unlock, IOFailure,
         Goto, Give, disk, locks, faults

\* The first rename puts the new ticket in flight, the second allocates it, the
\* roll back withdraws it.
LEMMA MatchStep ==
  ASSUME TypeInv, OwnInv, HeldIsCurrent, FilesMatch, [Next]_vars
  PROVE  FilesMatch'
  <1> USE DEF TypeInv, TypeOK, disk, locks, faults, Goto
  <1>1. ASSUME NEW w \in Process,
               Preview(w) \/ TakeLock(w) \/ Recheck(w) \/ Unlock(w) \/ IOFailure(w)
        PROVE  FilesMatch'
    BY <1>1, QuietSteps, QuietMatch
  <1>2. ASSUME NEW w \in Process, RenameStore(w), ~torn', overruns' = 0, NEW p \in Project
        PROVE  Tickets(p)' = Allocated(p)' \cup InFlight(p)'
    <2> DEFINE c == call[w].change
               q == c.operation.project
    <2>1. c \in Confirmed /\ q \in Project
      BY <1>2, OperationTyping DEF RenameStore, Call, Confirmed
    <2>2. \A v \in Process : pc[v] # "stored"
      BY <1>2 DEF RenameStore, OwnInv, OneHolder, Owning, Publishing
    <2>3. Tickets(p) = Allocated(p) /\ InFlight(p) = {}
      BY <1>2, <2>2 DEF RenameStore, FilesMatch, InFlight
    <2>4. Allocated(p)' = Allocated(p)
      BY <1>2 DEF RenameStore, Allocated
    <2>5. store[q] = c.before /\ c.allocations = allocations
      BY <1>2 DEF RenameStore, HeldIsCurrent, Operated
    <2>6. CASE c.operation.kind = "create"
      <3>1. \A v \in Process : pc'[v] = "stored" <=> v = w
        BY <1>2, <2>2, <2>6 DEF RenameStore, Operated
      <3>2. InFlight(p)' = IF p = q THEN {Len(allocations) + 1} ELSE {}
        <4>1. c.allocations_after = Append(allocations, q)
          BY <2>1, <2>5, <2>6 DEF Confirmed, Fits
        <4>2. Len(c.allocations_after) = Len(allocations) + 1
          BY <2>1, <4>1
        <4> QED
          BY <1>2, <3>1, <4>2 DEF RenameStore, InFlight, Operated
      <3>3. DOMAIN c.after = DOMAIN c.before \cup {Len(allocations) + 1}
        BY <2>1, <2>5, <2>6 DEF Confirmed, Fits
      <3>4. store' = [store EXCEPT ![q] = c.after]
        BY <1>2 DEF RenameStore, Operated
      <3> QED
        BY <2>1, <2>3, <2>4, <2>5, <3>2, <3>3, <3>4 DEF Tickets
    <2>7. CASE c.operation.kind # "create"
      <3>1. \A v \in Process : pc'[v] # "stored"
        BY <1>2, <2>2, <2>7 DEF RenameStore, Operated
      <3>2. DOMAIN c.after = DOMAIN c.before
        BY <2>1, <2>7 DEF Confirmed, Fits
      <3>3. store' = [store EXCEPT ![q] = c.after]
        BY <1>2 DEF RenameStore, Operated
      <3>4. InFlight(p)' = {}
        BY <3>1 DEF InFlight
      <3> QED
        BY <2>1, <2>3, <2>4, <2>5, <3>2, <3>3, <3>4 DEF Tickets
    <2> QED
      BY <2>6, <2>7
  <1>3. ASSUME NEW w \in Process, RenameAllocations(w) \/ RollBack(w), ~torn', overruns' = 0, NEW p \in Project
        PROVE  Tickets(p)' = Allocated(p)' \cup InFlight(p)'
    <2> DEFINE c == call[w].change
               q == c.operation.project
    <2>1. c \in Confirmed /\ q \in Project /\ pc[w] = "stored"
      BY <1>3, OperationTyping DEF RenameAllocations, RollBack, Call, Confirmed
    <2>2. \A v \in Process : pc[v] = "stored" <=> v = w
      BY <1>3, <2>1 DEF RenameAllocations, RollBack, OwnInv, OneHolder, Owning, Publishing
    <2>3. \A v \in Process : pc'[v] # "stored"
      BY <1>3, <2>2 DEF RenameAllocations, RollBack
    <2>4. InFlight(p)' = {}
      BY <2>3 DEF InFlight
    <2>5. /\ c.allocations = allocations /\ c.operation.kind = "create" /\ store[q] = c.after
      BY <1>3, <2>1 DEF RenameAllocations, RollBack, HeldIsCurrent, Operated
    <2>6. /\ c.allocations_after = Append(allocations, q)
          /\ Len(allocations) + 1 \notin DOMAIN c.before
          /\ DOMAIN c.after = DOMAIN c.before \cup {Len(allocations) + 1}
      BY <2>1, <2>5 DEF Confirmed, Fits
    <2>7. Len(c.allocations_after) = Len(allocations) + 1
      BY <2>1, <2>6
    <2>8. InFlight(p) = IF p = q THEN {Len(allocations) + 1} ELSE {}
      BY <2>2, <2>7 DEF InFlight, Operated
    <2>9. Tickets(p) = Allocated(p) \cup InFlight(p)
      BY <1>3 DEF RenameAllocations, RollBack, FilesMatch
    <2>10. CASE RenameAllocations(w)
      <3>1. allocations' = Append(allocations, q) /\ store' = store
        BY <2>10, <2>6 DEF RenameAllocations
      <3>2. Allocated(p)' = Allocated(p) \cup InFlight(p)
        BY <2>1, <2>8, <3>1 DEF Allocated
      <3> QED
        BY <2>4, <2>9, <3>1, <3>2 DEF Tickets
    <2>11. CASE RollBack(w)
      <3>1. store' = [store EXCEPT ![q] = c.before] /\ allocations' = allocations
        BY <2>11 DEF RollBack, Operated
      <3>2. Len(allocations) + 1 \notin Allocated(p)
        BY DEF Allocated
      <3>3. Allocated(p)' = Allocated(p)
        BY <3>1 DEF Allocated
      <3>4. CASE p = q
        <4>1. Tickets(p)' = DOMAIN c.before
          <5>1. store'[p] = c.before
            BY <2>1, <3>1, <3>4
          <5> QED
            BY <5>1 DEF Tickets
        <4>2. Tickets(p) = DOMAIN c.before \cup {Len(allocations) + 1}
          BY <2>5, <2>6, <3>4 DEF Tickets
        <4>3. DOMAIN c.before \cup {Len(allocations) + 1} = Allocated(p) \cup {Len(allocations) + 1}
          BY <2>8, <2>9, <3>4, <4>2
        <4>4. DOMAIN c.before = Allocated(p)
          BY <2>6, <3>2, <4>3, SameButOne
        <4> QED
          BY <2>4, <3>3, <4>1, <4>4
      <3>5. CASE p # q
        <4>1. Tickets(p)' = Tickets(p)
          BY <2>1, <3>1, <3>5 DEF Tickets
        <4> QED
          BY <2>4, <2>8, <2>9, <3>3, <3>5, <4>1
      <3> QED
        BY <3>4, <3>5
    <2> QED
      BY <1>3, <2>10, <2>11
  <1>4. ASSUME NEW w \in Process, RollBackFails(w) PROVE FilesMatch'
    BY <1>4 DEF RollBackFails, FilesMatch
  <1>5. ASSUME NEW w \in Process, Crash(w) PROVE FilesMatch'
    <2>1. CASE pc[w] = "stored"
      BY <1>5, <2>1 DEF Crash, FilesMatch
    <2>2. CASE pc[w] # "stored"
      <3>1. Quiet
        BY <1>5, <2>2 DEF Crash, Quiet, Give
      <3> QED
        BY <3>1, QuietMatch
    <2> QED
      BY <2>1, <2>2
  <1>6. CASE Expire
    <2>1. Quiet
      BY <1>6 DEF Expire, Quiet
    <2> QED
      BY <2>1, QuietMatch
  <1>7. CASE UNCHANGED vars
    <2>1. Quiet
      BY <1>7 DEF vars, Quiet
    <2> QED
      BY <2>1, QuietMatch
  <1>8. ASSUME NEW w \in Process, RenameStore(w) PROVE FilesMatch'
    BY <1>2, <1>8 DEF FilesMatch
  <1>9. ASSUME NEW w \in Process, RenameAllocations(w) \/ RollBack(w) PROVE FilesMatch'
    BY <1>3, <1>9 DEF FilesMatch
  <1> QED
    BY <1>1, <1>4, <1>5, <1>6, <1>7, <1>8, <1>9 DEF Next, Publish

-----------------------------------------------------------------------------
(* The results. *)

\* The inductive invariant holds at first.
LEMMA InitInv == Init => IInv
  <1> SUFFICES ASSUME Init PROVE IInv
    OBVIOUS
  <1>1. TypeInv
    BY InitType
  <1>2. \A w \in Process : pc[w] = "idle"
    BY DEF Init
  <1>3. LockInv
    BY <1>2 DEF Init, LockInv, NoncesFresh, NoncesDistinct, OneRecoverer, ObservedExpired,
                Opening, Owning, Publishing, Recovering
  <1>4. OwnInv /\ HeldIsCurrent
    BY <1>2 DEF OwnInv, OneHolder, LockIsHeld, HeldIsCurrent, Opening, Owning, Publishing
  <1>5. FilesMatch
    <2>1. \A p \in Project : Tickets(p) = {}
      BY DEF Init, Tickets
    <2>2. \A p \in Project : Allocated(p) = {}
      BY DEF Init, Allocated
    <2>3. \A p \in Project : InFlight(p) = {}
      BY <1>2 DEF InFlight
    <2> QED
      BY <2>1, <2>2, <2>3 DEF FilesMatch
  <1> QED
    BY <1>1, <1>3, <1>4, <1>5 DEF IInv

\* The inductive invariant is an invariant.
THEOREM Invariance == Spec => []IInv
  <1>1. IInv /\ [Next]_vars => IInv'
    BY TypeStep, LockStep, OwnStep, HeldStep, MatchStep DEF IInv
  <1> QED
    BY InitInv, <1>1, PTL DEF Spec

\* As long as every owner finishes within its lease, one process at a time is
\* between taking and giving back the allocation lock, through any number of
\* crashes, I/O failures and recoveries of an abandoned lock.
THEOREM OneOwnerAlways == Spec => []OneOwner
  <1>1. IInv => OneOwner
    BY DEF IInv, OwnInv, OneHolder, OneOwner, Owning
  <1> QED
    BY Invariance, <1>1, PTL

\* The files keep their types and limits, and unless a process was stopped
\* between the two renames or overran its lease, each project's tickets are the
\* identifiers allocated to it, but for the one being published.
THEOREM StoreMatches == Spec => []StoreMatchesAllocations
  <1>1. IInv => StoreMatchesAllocations
    BY DEF IInv, TypeInv, FilesMatch, StoreMatchesAllocations
  <1> QED
    BY Invariance, <1>1, PTL

\* No lost update: the store a change replaces is the one it was confirmed
\* against, and so are the allocations.
THEOREM NoTicketLost == Spec => PublishedFromCurrent
  <1> DEFINE A == \A w \in Process :
                    (pc[w] = "fresh" /\ store' # store /\ overruns = 0) =>
                        /\ store[Operated(w).project] = call[w].change.before
                        /\ allocations = call[w].change.allocations
  <1>1. IInv /\ [Next]_vars => [A]_vars
    BY DEF IInv, HeldIsCurrent
  <1> QED
    BY Invariance, <1>1, PTL DEF PublishedFromCurrent, Spec

\* What applyTicketChange may do to ticket-allocations.json while leases are
\* respected: add one identifier at the end, whatever dies or fails meanwhile.
AllocationsOnlyGrow ==
    [][overruns = 0 =>
          \/ allocations' = allocations
          \/ \E p \in Project : allocations' = Append(allocations, p)]_vars

\* No identifier is ever withdrawn, or given to another project.
THEOREM IdentifiersPermanent == Spec => AllocationsOnlyGrow
  <1> DEFINE Grows == overruns = 0 =>
                        \/ allocations' = allocations
                        \/ \E p \in Project : allocations' = Append(allocations, p)
  <1>1. ASSUME IInv, [Next]_vars PROVE Grows
    <2>1. ASSUME NEW w \in Process, RenameAllocations(w), overruns = 0
          PROVE  \E p \in Project : allocations' = Append(allocations, p)
      <3>1. call[w].change \in Confirmed
        BY <1>1, <2>1 DEF IInv, TypeInv, Call, RenameAllocations
      <3>2. call[w].change.allocations = allocations /\ call[w].change.operation.kind = "create"
        BY <1>1, <2>1 DEF IInv, HeldIsCurrent, Operated, RenameAllocations
      <3>3. allocations' = Append(allocations, call[w].change.operation.project)
        BY <2>1, <3>1, <3>2 DEF Confirmed, Fits, RenameAllocations
      <3> QED
        BY <3>1, <3>3, OperationTyping DEF Confirmed
    <2>2. ASSUME NEW w \in Process,
                 Preview(w) \/ TakeLock(w) \/ Recheck(w) \/ RenameStore(w) \/ RollBack(w)
                    \/ RollBackFails(w) \/ Unlock(w) \/ IOFailure(w) \/ Crash(w)
          PROVE  allocations' = allocations
      BY <2>2 DEF Preview, TakeLock, OpenLock, WriteLock, ObserveExpired, RefuseBusy, ClaimRecovery,
                  ConfirmExpired, MoveAside, LoseLock, ReleaseRecovery, Recheck, RenameStore, RollBack,
                  RollBackFails, Unlock, IOFailure, Crash, disk
    <2>3. CASE Expire \/ UNCHANGED vars
      BY <2>3 DEF Expire, vars, disk
    <2> QED
      BY <1>1, <2>1, <2>2, <2>3 DEF Next, Publish
  <1>2. IInv /\ [Next]_vars => [Grows]_vars
    BY <1>1
  <1> QED
    BY Invariance, <1>2, PTL DEF AllocationsOnlyGrow, Spec

\* Two projects never receive the same identifier (docs/DUBSAR_TICKETS_CONTRACT.md)
\* unless a process stopped between the two renames or overran its lease: the
\* runs ticket_restart and ticket_lease show that neither exception can go.
THEOREM IdentifiersUnique == Spec => [](~torn /\ overruns = 0 => UniqueIdentifiers)
  <1>1. ASSUME IInv, ~torn, overruns = 0 PROVE UniqueIdentifiers
    <2> SUFFICES ASSUME NEW p \in Project, NEW q \in Project, NEW i \in Tickets(p) \cap Tickets(q)
                 PROVE  p = q
      BY DEF UniqueIdentifiers
    <2>1. i \in Allocated(p) \cup InFlight(p) /\ i \in Allocated(q) \cup InFlight(q)
      BY <1>1 DEF IInv, FilesMatch
    <2>2. \A v, w \in Process : pc[v] = "stored" /\ pc[w] = "stored" => v = w
      BY <1>1 DEF IInv, OwnInv, OneHolder, Owning, Publishing
    <2>3. \A r \in Project : Allocated(r) \subseteq 1..Len(allocations)
      BY DEF Allocated
    <2>4. \A r \in Project : InFlight(r) \subseteq {Len(allocations) + 1}
      <3> SUFFICES ASSUME NEW w \in Process, pc[w] = "stored"
                   PROVE  Len(call[w].change.allocations_after) = Len(allocations) + 1
        BY DEF InFlight
      <3>1. call[w].change \in Confirmed
        BY <1>1 DEF IInv, TypeInv, Call
      <3>2. call[w].change.allocations = allocations /\ call[w].change.operation.kind = "create"
        BY <1>1 DEF IInv, HeldIsCurrent, Operated
      <3>3. call[w].change.allocations_after = Append(allocations, call[w].change.operation.project)
        BY <3>1, <3>2 DEF Confirmed, Fits
      <3>4. allocations \in Seq(Project)
        BY <1>1 DEF IInv, TypeInv, TypeOK
      <3> QED
        BY <3>3, <3>4
    <2>5. Len(allocations) \in Nat
      BY <1>1 DEF IInv, TypeInv, TypeOK
    <2>6. CASE i \in Allocated(p) /\ i \in Allocated(q)
      BY <2>6 DEF Allocated
    <2>7. CASE i \in InFlight(p) /\ i \in InFlight(q)
      BY <2>7, <2>2 DEF InFlight
    <2> QED
      BY <2>1, <2>3, <2>4, <2>5, <2>6, <2>7
  <1>2. IInv => (~torn /\ overruns = 0 => UniqueIdentifiers)
    BY <1>1
  <1> QED
    BY Invariance, <1>2, PTL
=============================================================================
