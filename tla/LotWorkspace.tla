------------------------------ MODULE LotWorkspace ------------------------------
(***************************************************************************)
(* The two writers of a workspace in lots: a checkpoint appends evidence    *)
(* (`evidence.json`), a transition changes one lot's status (`lots.json`).  *)
(* Both publish one file under `.dubsar-checkpoint.lock` after inspecting   *)
(* the whole workspace again, while people edit the mission, the contract   *)
(* and the artifacts.                                                       *)
(***************************************************************************)
EXTENDS LotRules

CONSTANTS
    Author,            \* processes
    Checkpoints,       \* the entries users propose: sequences
    Edits,             \* what people edit: [mission, contract, artifacts] records
    FirstWorkspaces,   \* the workspaces people start from
    MaxEvidence,       \* bound: entries of the evidence document
    MaxEdits,          \* bound: edits by people
    MaxAuthorCrashes

ASSUME AuthoringAssumption ==
    /\ MaxEvidence \in Nat /\ MaxEdits \in Nat /\ MaxAuthorCrashes \in Nat
    /\ FirstWorkspaces \subseteq ProjectWorkspace
    /\ \A w \in FirstWorkspaces : Len(w.evidence.entries) <= MaxEvidence
    /\ Checkpoints \subseteq Seq(EvidenceEntry)
    /\ Edits \subseteq Edit

VARIABLES
    ws,                \* the workspace
    lotLock,           \* .dubsar-checkpoint.lock
    author,            \* what each process is doing
    edits,
    authorCrashes

lotVars == <<ws, lotLock, author, edits, authorCrashes>>

Away == [at |-> "away"]

\* The change an apply will publish: the inspection it was built on, the
\* workspace it was found valid for, and the artifacts it digested itself.
Built(target, seen, after, digested) ==
    [at |-> "built", target |-> target, seen |-> seen, after |-> after,
     digested |-> digested, edits |-> 0]

\* A checkpoint inspects the workspace, and digests artifacts only afterwards.
InspectForCheckpoint(a) ==
    /\ author[a] = Away /\ IntegrityValid(ws)
    /\ author' = [author EXCEPT ![a] = [at |-> "digesting", seen |-> ws]]
    /\ UNCHANGED <<ws, lotLock, edits, authorCrashes>>

\* The artifacts are those found now; all else is as it was inspected.
BuildCheckpoint(a) ==
    /\ author[a].at = "digesting"
    /\ \E proposed \in Checkpoints :
          LET seen == author[a].seen
              digested == DigestedPaths(seen, proposed)
              basis == [seen EXCEPT !.artifacts = [p \in Path |->
                          IF p \in digested THEN ws.artifacts[p] ELSE seen.artifacts[p]]]
              after == [basis EXCEPT !.evidence = CheckpointedEvidence(basis, proposed)]
          IN  /\ Captured(basis, proposed)
              /\ Len(after.evidence.entries) <= MaxEvidence
              /\ IntegrityValid(after)      \* CHECKPOINT_WOULD_INVALIDATE_PROJECT
              /\ author' = [author EXCEPT ![a] = Built("evidence", seen, after, digested)]
    /\ UNCHANGED <<ws, lotLock, edits, authorCrashes>>

BuildTransition(a) ==
    /\ author[a] = Away /\ IntegrityValid(ws)
    /\ \E l \in DOMAIN ws.lots, to \in {"candidate", "complete"} :
          LET after == [ws EXCEPT !.lots[l] = to]
          IN  /\ TransitionAllowed(ws, l, to)
              /\ IntegrityValid(after)      \* LOT_TRANSITION_WOULD_INVALIDATE_PROJECT
              /\ author' = [author EXCEPT ![a] = Built("lots", ws, after, {})]
    /\ UNCHANGED <<ws, lotLock, edits, authorCrashes>>

At(a, label) == author' = [author EXCEPT ![a].at = label]

\* CHECKPOINT_LOCKED: nobody waits.
LockLots(a) ==
    /\ author[a].at = "built"
    /\ IF lotLock THEN author' = [author EXCEPT ![a] = Away] /\ UNCHANGED lotLock
       ELSE At(a, "locked") /\ lotLock' = TRUE
    /\ UNCHANGED <<ws, edits, authorCrashes>>

\* Mutant: only the target file is compared under the lock.
ReinspectTarget(a) ==
    /\ author[a].at = "locked"
    /\ IF IF author[a].target = "lots" THEN ws.lots = author[a].seen.lots
          ELSE ws.evidence = author[a].seen.evidence
       THEN author' = [author EXCEPT ![a].at = "inspected", ![a].edits = edits]
       ELSE At(a, "closing")
    /\ UNCHANGED <<ws, lotLock, edits, authorCrashes>>

\* CHECKPOINT_CONCURRENT_CHANGE: the snapshot is no longer the one the change
\* was built on.  What the checkpoint digested itself is not looked at again.
Reinspect(a) ==
    /\ author[a].at = "locked"
    /\ IF LotSnapshot(ws) = LotSnapshot(author[a].seen)
       THEN author' = [author EXCEPT ![a].at = "inspected", ![a].edits = edits]
       ELSE At(a, "closing")
    /\ UNCHANGED <<ws, lotLock, edits, authorCrashes>>

TargetUnchanged(a) ==
    IF author[a].target = "lots" THEN ws.lots = author[a].seen.lots
    ELSE ws.evidence = author[a].seen.evidence

\* Stage, capture the target once more, rename.  People do not edit the two
\* target files by hand here, so the last capture is the rename's own step.
PublishLots(a) ==
    /\ author[a].at = "inspected" /\ TargetUnchanged(a)
    /\ ws' = IF author[a].target = "lots" THEN [ws EXCEPT !.lots = author[a].after.lots]
             ELSE [ws EXCEPT !.evidence = author[a].after.evidence]
    /\ At(a, "closing")
    /\ UNCHANGED <<lotLock, edits, authorCrashes>>

\* Before the lock is taken there is nothing to close.
LotFailure(a) ==
    /\ \/ author[a].at = "digesting" /\ author' = [author EXCEPT ![a] = Away]
       \/ author[a].at \in {"locked", "inspected"} /\ At(a, "closing")
    /\ UNCHANGED <<ws, lotLock, edits, authorCrashes>>

UnlockLots(a) ==
    /\ author[a].at = "closing"
    /\ lotLock' = FALSE
    /\ author' = [author EXCEPT ![a] = Away]
    /\ UNCHANGED <<ws, edits, authorCrashes>>

CrashAuthor(a) ==
    /\ author[a] # Away /\ authorCrashes < MaxAuthorCrashes
    /\ author' = [author EXCEPT ![a] = Away]
    /\ authorCrashes' = authorCrashes + 1
    /\ UNCHANGED <<ws, lotLock, edits>>

\* People edit mission.json, execution-contract.json and the artifacts.
EditByHand ==
    /\ edits < MaxEdits
    /\ \E e \in Edits :
          ws' = [ws EXCEPT !.mission = e.mission, !.contract = e.contract,
                           !.artifacts = e.artifacts]
    /\ ws' # ws
    /\ edits' = edits + 1
    /\ UNCHANGED <<lotLock, author, authorCrashes>>

LotInit ==
    /\ ws \in FirstWorkspaces
    /\ lotLock = FALSE /\ author = [a \in Author |-> Away]
    /\ edits = 0 /\ authorCrashes = 0

LotNext ==
    \/ EditByHand
    \/ \E a \in Author :
          \/ InspectForCheckpoint(a) \/ BuildCheckpoint(a) \/ BuildTransition(a)
          \/ LockLots(a) \/ Reinspect(a) \/ PublishLots(a)
          \/ LotFailure(a) \/ UnlockLots(a) \/ CrashAuthor(a)

LotSpec == LotInit /\ [][LotNext]_lotVars

-----------------------------------------------------------------------------
(* Properties. *)

LotTypeOK ==
    /\ ws \in ProjectWorkspace /\ Len(ws.evidence.entries) <= MaxEvidence
    /\ lotLock \in BOOLEAN
    /\ \A a \in Author : author[a].at \in {"away", "digesting", "built", "locked", "inspected", "closing"}

\* The workspace as it is published, with the artifacts that the change digested
\* itself as it digested them.
AsDigested(change, published) ==
    [published EXCEPT !.artifacts = [p \in Path |->
        IF p \in change.digested THEN change.after.artifacts[p] ELSE published.artifacts[p]]]

\* A writer publishes on a valid workspace, and what it publishes is valid: a
\* checkpoint of one process and a transition of another change different files,
\* but both are excluded by the lock and compared with the snapshot.  An edit
\* after the inspection under the lock is left aside (publishOneFile captures no
\* more than its target after it).  So is an edit, at any time since the build,
\* of an artifact that a checkpoint cites first or migrates: the snapshot leaves
\* it out, nothing compares it, and the new entry is stale as it is published.
WritersKeepIntegrity ==
    [][\A a \in Author :
          author[a].at = "inspected" /\ author[a].edits = edits /\ PublishLots(a) =>
              IntegrityValid(ws) /\ IntegrityValid(AsDigested(author[a], ws'))]_lotVars

\* A lot is completed once, from candidate, with its dependencies complete, no
\* open blocker and, unless a person edited an artifact behind the inspection,
\* on evidence whose artifacts are what they were when it was recorded; the
\* evidence document only grows and no status goes back.
CompletedOnEvidence ==
    [][/\ \A l \in DOMAIN ws.lots :
            /\ ws'.lots[l] # ws.lots[l] =>
                 <<ws.lots[l], ws'.lots[l]>> \in
                    {<<"planned", "candidate">>, <<"candidate", "complete">>}
            /\ ws'.lots[l] # ws.lots[l] =>
                 \A b \in OpenBlockers(ws.evidence.entries) : b.lot # l
            /\ ws'.lots[l] = "complete" /\ ws.lots[l] # "complete" =>
                 \/ Expected[l] \subseteq SupportedIds(ws)
                 \/ \E a \in Author : author[a].at = "inspected" /\ author[a].edits # edits
       /\ Len(ws.evidence.entries) <= Len(ws'.evidence.entries)
       /\ \A i \in DOMAIN ws.evidence.entries :
             ws'.evidence.entries[i].id = ws.evidence.entries[i].id]_lotVars

\* Readiness and next action are two rule chains written apart; a project is
\* ready exactly when the next action is to prepare the approved lot or to
\* review acceptance, so that no reader is told to start work that is not ready.
NextActionMatchesReadiness ==
    (ReadinessReason(ws) = "none") <=>
        nextAction(ws) \in {"prepare_approved_lot", "review_mission_acceptance"}
=============================================================================
