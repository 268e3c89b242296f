-------------------------------- MODULE LotRules --------------------------------
(***************************************************************************)
(* The rules of a project workspace in lots (`evaluateProjectSnapshot` and  *)
(* `analyzeEvidenceV2`): which combinations of mission, lots, contract,     *)
(* evidence and artifacts are valid, when work is ready, and what the next  *)
(* action is.  No state.                                                    *)
(*                                                                          *)
(* A workspace is a record: the mission's status and whether its texts are  *)
(* there, the status of each lot, the contract, the evidence document, and  *)
(* what is found at each artifact path (a version, "missing" or "unknown"). *)
(* Keys, formats and field types are those of well-formed documents.        *)
(***************************************************************************)
EXTENDS Naturals, Sequences, FiniteSets

CONSTANTS
    Lot,
    DependsOn,      \* the lots each lot depends on
    Expected,       \* the evidence each lot expects
    Acceptance,     \* the evidence the mission expects
    EntryId, Path, Version,   \* of evidence entries, and of the artifacts they cite
    NoLot           \* a contract about no lot, an entry that resolves nothing

ASSUME LotAssumption ==
    /\ DependsOn \in [Lot -> SUBSET Lot]
    /\ Expected \in [Lot -> SUBSET EntryId] /\ Acceptance \subseteq EntryId
    /\ NoLot \notin Lot \cup EntryId \cup Version

EvidenceEntry ==
    [id : EntryId, lot : Lot,
     kind : {"fact", "decision", "blocker", "blocker_resolution", "legacy"},
     class : {"derived", "observed", "reported", "unverified"},
     refs : UNION {[P -> Version \cup {NoLot}] : P \in SUBSET Path},
     validated : BOOLEAN, resolves : EntryId \cup {NoLot}]

MissionFile == [status : {"draft", "approved", "complete"}, defined : BOOLEAN]
ContractFile == [lot : Lot \cup {NoLot}, status : {"draft", "approved", "closed"}]
ArtifactFiles == [Path -> Version \cup {"missing", "unknown"}]

ProjectWorkspace ==
    [mission : MissionFile,
     lots : UNION {[L -> {"planned", "candidate", "complete"}] : L \in SUBSET Lot},
     contract : ContractFile,
     evidence : [format : {1, 2}, entries : Seq(EvidenceEntry)],
     artifacts : ArtifactFiles]

Edit == [mission : MissionFile, contract : ContractFile, artifacts : ArtifactFiles]

-----------------------------------------------------------------------------
(* Evidence.  An entry's refs is a function from the paths it cites to the  *)
(* version captured with it (NoLot: a legacy reference never captured).     *)

referenceFreshness(captured, found) ==
    IF found = "missing" THEN "missing"
    ELSE IF found = "unknown" \/ captured = NoLot THEN "unknown"
    ELSE IF found = captured THEN "fresh" ELSE "stale"

Established(e) == e.class \in {"derived", "observed"}

Supported(e, artifacts) ==
    /\ e.kind \in {"fact", "legacy"} /\ Established(e)
    /\ DOMAIN e.refs # {}
    /\ \A p \in DOMAIN e.refs : referenceFreshness(e.refs[p], artifacts[p]) = "fresh"
    /\ e.validated

\* The resolution at i closes a blocker of the same lot that no earlier one
\* closed; the fold of analyzeEvidenceV2 over the entries.
Resolves(entries, i) ==
    /\ entries[i].kind = "blocker_resolution"
    /\ \E j \in 1 .. i - 1 :
          /\ entries[j].kind = "blocker" /\ entries[j].id = entries[i].resolves
          /\ entries[j].lot = entries[i].lot
          /\ \A k \in j + 1 .. i - 1 :
                ~(/\ entries[k].kind = "blocker_resolution"
                  /\ entries[k].resolves = entries[j].id /\ entries[k].lot = entries[j].lot)

OpenBlockers(entries) ==
    {e \in {entries[j] : j \in DOMAIN entries} :
        /\ e.kind = "blocker"
        /\ \A i \in DOMAIN entries : Resolves(entries, i) => entries[i].resolves # e.id}

\* The artifacts a document cites; one of evidence/1 has no part in a snapshot.
CitedPaths(document) ==
    IF document.format = 1 THEN {}
    ELSE UNION {DOMAIN document.entries[i].refs : i \in DOMAIN document.entries}

\* What snapshot_sha256 covers: the documents, and the artifacts the evidence
\* document cites as it is now.
LotSnapshot(ws) ==
    [ws EXCEPT !.artifacts = [p \in CitedPaths(ws.evidence) |-> ws.artifacts[p]]]

Ids(entries) == {entries[i].id : i \in DOMAIN entries}
SupportedIds(ws) ==
    IF ws.evidence.format = 1 THEN {}
    ELSE {e.id : e \in {x \in {ws.evidence.entries[i] : i \in DOMAIN ws.evidence.entries} :
                            Supported(x, ws.artifacts)}}
EstablishedIds(ws) ==
    {e.id : e \in {x \in {ws.evidence.entries[i] : i \in DOMAIN ws.evidence.entries} : Established(x)}}

EvidenceValid(ws) ==
    LET entries == ws.evidence.entries
    IN  /\ Cardinality(Ids(entries)) = Len(entries)
        /\ \A i \in DOMAIN entries :
             LET e == entries[i]
             IN  /\ e.lot \in DOMAIN ws.lots
                 /\ ws.evidence.format = 1 /\ Established(e) => DOMAIN e.refs # {} /\ e.validated
                 /\ ws.evidence.format = 2 =>
                      /\ e.kind = "fact" /\ Established(e) => Supported(e, ws.artifacts)
                      /\ e.kind = "blocker_resolution" => Resolves(entries, i)
                      /\ e.kind # "blocker_resolution" => e.resolves = NoLot

-----------------------------------------------------------------------------
(* Lots, contract and mission. *)

\* What Kahn's algorithm leaves unvisited is the largest set of lots that each
\* depend on a member of the set.
hasDependencyCycle(lots) ==
    \E S \in SUBSET lots : S # {} /\ \A l \in S : DependsOn[l] \cap S # {}

WithStatus(ws, status) == {l \in DOMAIN ws.lots : ws.lots[l] = status}
AllComplete(ws) == \A l \in DOMAIN ws.lots : ws.lots[l] = "complete"

LotsValid(ws) ==
    /\ Cardinality(WithStatus(ws, "candidate")) <= 1
    /\ ~hasDependencyCycle(DOMAIN ws.lots)
    /\ \A l \in DOMAIN ws.lots :
          /\ DependsOn[l] \subseteq DOMAIN ws.lots \ {l}
          /\ ws.lots[l] \in {"candidate", "complete"} =>
                \A d \in DependsOn[l] : ws.lots[d] = "complete"
          /\ ws.lots[l] = "complete" =>
                /\ Expected[l] # {}
                /\ Expected[l] \subseteq SupportedIds(ws) \cap EstablishedIds(ws)

MissionValid(ws) ==
    /\ ws.mission.status = "complete" => DOMAIN ws.lots # {} /\ AllComplete(ws)
    /\ ws.mission.status = "complete" \/ AllComplete(ws) =>
          Acceptance \subseteq Ids(ws.evidence.entries)

ContractValid(ws) ==
    /\ ws.contract.lot = NoLot => ws.contract.status = "draft"
    /\ ws.contract.lot # NoLot => ws.contract.lot \in DOMAIN ws.lots
    /\ ws.contract.status = "approved" =>
          /\ ws.contract.lot \in DOMAIN ws.lots
          /\ ws.lots[ws.contract.lot] \in {"candidate", "complete"}

IntegrityValid(ws) == EvidenceValid(ws) /\ LotsValid(ws) /\ MissionValid(ws) /\ ContractValid(ws)

-----------------------------------------------------------------------------
(* Readiness and next action: two chains of rules, each taking the first     *)
(* that applies.                                                             *)

\* Rules are pairs <<condition, result>>; the last one always applies.
FirstRule(rules) ==
    rules[CHOOSE i \in DOMAIN rules :
            rules[i][1] /\ \A j \in 1 .. i - 1 : ~rules[j][1]][2]

AcceptanceReady(ws) ==
    Acceptance # {} /\ Acceptance \subseteq SupportedIds(ws) \cap EstablishedIds(ws)

ContractOf(ws) == \E l \in WithStatus(ws, "candidate") : ws.contract.lot = l

\* The readiness reason, "none" when the project is ready.
ReadinessReason(ws) ==
    FirstRule(<<
      <<~IntegrityValid(ws), "INTEGRITY_INVALID">>,
      <<ws.mission.status = "draft", "MISSION_NOT_APPROVED">>,
      <<~ws.mission.defined, "MISSION_UNDEFINED">>,
      <<DOMAIN ws.lots = {}, "LOTS_EMPTY">>,
      <<ws.evidence.format = 1, "LEGACY_EVIDENCE_REQUIRES_MIGRATION">>,
      <<AllComplete(ws) /\ ~AcceptanceReady(ws), "MISSION_ACCEPTANCE_EVIDENCE_INCOMPLETE">>,
      <<AllComplete(ws), "none">>,
      <<WithStatus(ws, "candidate") = {}, "CANDIDATE_LOT_MISSING">>,
      <<~ContractOf(ws), "EXECUTION_CONTRACT_MISSING">>,
      <<ws.contract.status # "approved", "EXECUTION_CONTRACT_NOT_APPROVED">>,
      <<TRUE, "none">> >>)

\* Mutant: the contract's status is not looked at.
nextActionWithoutContract(ws) ==
    FirstRule(<<
      <<~IntegrityValid(ws), "resolve_integrity_findings">>,
      <<ws.mission.status = "draft", "approve_mission">>,
      <<~ws.mission.defined, "complete_mission_definition">>,
      <<DOMAIN ws.lots = {}, "decompose_lots">>,
      <<ws.evidence.format = 1, "migrate_project_evidence">>,
      <<AllComplete(ws) /\ AcceptanceReady(ws), "review_mission_acceptance">>,
      <<AllComplete(ws), "record_acceptance_evidence">>,
      <<WithStatus(ws, "candidate") = {}, "select_candidate_lot">>,
      <<TRUE, "prepare_approved_lot">> >>)

nextAction(ws) ==
    FirstRule(<<
      <<~IntegrityValid(ws), "resolve_integrity_findings">>,
      <<ws.mission.status = "draft", "approve_mission">>,
      <<ReadinessReason(ws) = "MISSION_UNDEFINED", "complete_mission_definition">>,
      <<DOMAIN ws.lots = {}, "decompose_lots">>,
      <<ReadinessReason(ws) = "LEGACY_EVIDENCE_REQUIRES_MIGRATION", "migrate_project_evidence">>,
      <<AllComplete(ws) /\ AcceptanceReady(ws), "review_mission_acceptance">>,
      <<AllComplete(ws), "record_acceptance_evidence">>,
      <<WithStatus(ws, "candidate") = {}, "select_candidate_lot">>,
      <<~ContractOf(ws), "draft_execution_contract">>,
      <<ws.contract.status # "approved", "approve_execution_contract">>,
      <<ReadinessReason(ws) # "none", "resolve_readiness_blockers">>,
      <<TRUE, "prepare_approved_lot">> >>)

-----------------------------------------------------------------------------
(* What the writer builds. *)

\* An entry of evidence/1 becomes a legacy entry with its artifacts captured.
migrateV1Entry(e, artifacts) ==
    [e EXCEPT !.kind = "legacy", !.resolves = NoLot,
              !.refs = [p \in DOMAIN e.refs |->
                          IF artifacts[p] = "missing" THEN NoLot ELSE artifacts[p]]]

\* The entries of the proposal with their artifacts captured now, after the
\* migrated or existing ones.
CheckpointedEvidence(ws, proposed) ==
    LET existing == IF ws.evidence.format = 2 THEN ws.evidence.entries
                    ELSE [i \in DOMAIN ws.evidence.entries |->
                            migrateV1Entry(ws.evidence.entries[i], ws.artifacts)]
        captured == [i \in DOMAIN proposed |->
                       [proposed[i] EXCEPT !.refs =
                          [p \in DOMAIN proposed[i].refs |-> ws.artifacts[p]]]]
    IN  [format |-> 2, entries |-> existing \o captured]

\* The artifacts a checkpoint digests itself, after the inspection: those of the
\* proposal and of the entries it migrates.
DigestedPaths(ws, proposed) ==
    LET Cited(entries) == UNION {DOMAIN entries[i].refs : i \in DOMAIN entries}
    IN  Cited(proposed) \cup (IF ws.evidence.format = 1 THEN Cited(ws.evidence.entries) ELSE {})

\* A cited artifact can be read; one of a migrated entry may also be missing.
Captured(ws, proposed) ==
    /\ \A i \in DOMAIN proposed : \A p \in DOMAIN proposed[i].refs :
          ws.artifacts[p] \notin {"missing", "unknown"}
    /\ ws.evidence.format = 1 =>
          \A i \in DOMAIN ws.evidence.entries :
             \A p \in DOMAIN ws.evidence.entries[i].refs : ws.artifacts[p] # "unknown"

\* Mutant: open blockers do not hold a transition back.
TransitionDespiteBlockers(ws, l, to) ==
    /\ l \in DOMAIN ws.lots /\ ws.evidence.format = 2
    /\ to = "candidate" =>
          /\ ws.lots[l] = "planned" /\ WithStatus(ws, "candidate") = {}
          /\ \A d \in DependsOn[l] : d \in DOMAIN ws.lots /\ ws.lots[d] = "complete"
    /\ to = "complete" =>
          /\ ws.lots[l] = "candidate"
          /\ Expected[l] # {} /\ Expected[l] \subseteq SupportedIds(ws)

\* transitionDocument's conditions.
TransitionAllowed(ws, l, to) ==
    /\ l \in DOMAIN ws.lots /\ ws.evidence.format = 2
    /\ \A b \in OpenBlockers(ws.evidence.entries) : b.lot # l
    /\ to = "candidate" =>
          /\ ws.lots[l] = "planned" /\ WithStatus(ws, "candidate") = {}
          /\ \A d \in DependsOn[l] : d \in DOMAIN ws.lots /\ ws.lots[d] = "complete"
    /\ to = "complete" =>
          /\ ws.lots[l] = "candidate"
          /\ Expected[l] # {} /\ Expected[l] \subseteq SupportedIds(ws)
=============================================================================
