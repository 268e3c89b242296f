----------------------------- MODULE MemoryViews -----------------------------
(***************************************************************************)
(* What the readers of a memory workspace are told.  Everything here is     *)
(* derived from one snapshot `s` and one observation `o` of the artifacts   *)
(* its checkpoints cite, in modules written apart: the evaluator and its    *)
(* compiler, the facts and the router above them, the lots view, the        *)
(* history, the precedents, the context and the capsule.                    *)
(*                                                                          *)
(* Texts are left out.  What a checkpoint records beside its identifiers    *)
(* never changes once it is published, so it is the constant Content.       *)
(***************************************************************************)
EXTENDS MemoryDocuments, SequencesExt, FiniteSetsExt

CONSTANTS
    Path,          \* artifacts of the project outside `.dubsar/`
    Digest,        \* contents an artifact may have
    Content,       \* what each checkpoint records
    Missing, Unknown

CHECKPOINT_KIND == {"progress", "decision", "blocker", "blocker_resolution", "attempt"}

ASSUME ContentAssumption ==
    /\ DOMAIN Content = CheckpointId
    /\ \A c \in CheckpointId :
          /\ Content[c].kind \in CHECKPOINT_KIND
          /\ (Content[c].kind = "attempt") <=> (Content[c].attempt # NULL)
          /\ DOMAIN Content[c].references \subseteq Path
          /\ \A p \in DOMAIN Content[c].references : Content[c].references[p] \in Digest

ASSUME OutcomeAssumption == {Missing, Unknown} \cap Digest = {}

-----------------------------------------------------------------------------
(* What the journal records about a Work. *)

Recorded(e) == Content[e.checkpoint_id]
EntriesOf(s, w) == SelectSeq(Journal(s), LAMBDA e : e.work_id = w)
SelectedEntries(s) == IF Selected(s) = NULL THEN <<>> ELSE EntriesOf(s, Selected(s))

StatusOf(s, w) == s[WorkFile(w)].status
Incomplete(s) == {w \in Works(s) : StatusOf(s, w) # "complete"}

\* latestCheckpointByWork: every entry overwrites the one before it.
LatestOf(s, w) == Max({i \in 1..Len(Journal(s)) : Journal(s)[i].work_id = w})
RecordedBlockers(s, w) ==
    IF EntriesOf(s, w) = <<>> THEN <<>> ELSE Recorded(Journal(s)[LatestOf(s, w)]).state.blockers

-----------------------------------------------------------------------------
(* compileMemorySnapshot. *)

LinkedKnowledge(s) ==
    IF Selected(s) = NULL THEN {}
    ELSE s[WorkFile(Selected(s))].knowledge_ids \cap ApprovedKnowledge(s)

EligibleWorks(s) ==
    {w \in Works(s) : StatusOf(s, w) = "open" /\ RecordedBlockers(s, w) = <<>>}

RoutingAction(s) ==
    IF Selected(s) = NULL
    THEN IF Works(s) = {} THEN "record_work"
         ELSE IF Incomplete(s) = {} THEN "continuity_complete" ELSE "choose_work"
    ELSE CASE StatusOf(s, Selected(s)) = "complete" -> "finish_recorded"
           [] StatusOf(s, Selected(s)) = "paused" -> "review_paused_work"
           [] StatusOf(s, Selected(s)) = "open" -> "continue_selected_work"

-----------------------------------------------------------------------------
(* evaluateMemorySnapshot. *)

\* latestWorkState: the status is the Work's, not the one recorded.
CurrentStatus(s) ==
    IF Selected(s) = NULL THEN "unknown"
    ELSE CASE StatusOf(s, Selected(s)) = "open" -> "active"
           [] OTHER -> StatusOf(s, Selected(s))

\* Mutant: the blockers of the first entry about the Work, not of the last.
FirstBlockers(s) ==
    IF SelectedEntries(s) = <<>> THEN <<>> ELSE Recorded(SelectedEntries(s)[1]).state.blockers

CurrentBlockers(s) ==
    IF SelectedEntries(s) = <<>> THEN <<>> ELSE Recorded(Last(SelectedEntries(s))).state.blockers

\* Two equal failures in a row, neither of them supported by a reference.
RepeatedAttempt(s) ==
    LET own == SelectedEntries(s)
        n == Len(own)
    IN  /\ n >= 2
        /\ LET a == Recorded(own[n - 1])
               b == Recorded(own[n])
           IN  /\ a.kind = "attempt" /\ b.kind = "attempt" /\ a.attempt = b.attempt
               /\ DOMAIN a.references = {} /\ DOMAIN b.references = {}
               /\ a.state = b.state

NextAction(s) ==
    LET work == Selected(s)
    IN  IF work = NULL THEN RoutingAction(s)
        ELSE IF StatusOf(s, work) = "complete" THEN "finish_recorded"
        ELSE IF RepeatedAttempt(s) THEN "reframe_recommended"
        ELSE IF CurrentBlockers(s) # <<>> THEN "resolve_recorded_blocker"
        ELSE IF StatusOf(s, work) = "paused" THEN "review_paused_work"
        ELSE "continue_selected_work"

Readiness(s) ==
    IF Works(s) = {} THEN "NO_WORK_RECORDED"
    ELSE IF Selected(s) = NULL /\ Incomplete(s) # {} THEN "WORK_SELECTION_REQUIRED"
    ELSE "ready"

-----------------------------------------------------------------------------
(* Freshness.  An observation gives each observed path a digest or Missing;  *)
(* a path it has not resolved is Unknown.                                    *)

CitedPaths(s) == UNION {DOMAIN Recorded(Journal(s)[i]).references : i \in 1..Len(Journal(s))}

ReferenceFreshness(expected, observed) ==
    CASE observed \in {Missing, Unknown} -> observed
      [] observed = expected -> "fresh"
      [] OTHER -> "stale"

CheckpointFreshness(e, o) ==
    LET cited == Recorded(e).references
    IN  [p \in DOMAIN cited |->
            IF p \in DOMAIN o THEN ReferenceFreshness(cited[p], o[p]) ELSE Unknown]

Supported(e, o) ==
    LET freshness == CheckpointFreshness(e, o)
    IN  DOMAIN freshness # {} /\ \A p \in DOMAIN freshness : freshness[p] = "fresh"

-----------------------------------------------------------------------------
(* The facts and the router. *)

\* exactRelationBases: one path, one resulting state, or a resolution.
Related(anchor, e) ==
    \/ DOMAIN Recorded(anchor).references \cap DOMAIN Recorded(e).references # {}
    \/ Recorded(anchor).state = Recorded(e).state
    \/ anchor.resolves = e.checkpoint_id

\* Newest first, the anchor excluded, at most three.
AtMost(n, q) == SubSeq(q, 1, Min({n, Len(q)}))
ExactRelations(s) ==
    LET own == SelectedEntries(s)
    IN  IF own = <<>> THEN <<>>
        ELSE AtMost(3, SelectSeq(Reverse(Front(own)), LAMBDA e : Related(Last(own), e)))

Guidance(s) ==
    LET status == CurrentStatus(s)
        own == SelectedEntries(s)
        matches == ExactRelations(s)
        Say(action, reason) == [action |-> action, reason |-> reason, related |-> NULL]
    IN  IF Selected(s) = NULL /\ Incomplete(s) # {} THEN Say("none", "WORK_SELECTION_REQUIRED")
        ELSE IF status = "complete" THEN Say("finish_recorded", "COMPLETE_STATE_RECORDED")
        ELSE IF status = "unknown" THEN Say("record", "NO_CONTINUITY_RECORD")
        ELSE IF RepeatedAttempt(s)
            THEN Say("reconsider", "EQUIVALENT_UNSUPPORTED_ATTEMPT_REPEATED")
        ELSE IF CurrentBlockers(s) # <<>> THEN Say("pause", "RECORDED_BLOCKER_OPEN")
        ELSE IF status = "paused" /\ matches # <<>>
            THEN [action |-> "resume_candidate", reason |-> "EXACT_RECORDED_RELATION_AVAILABLE",
                  related |-> matches[1].checkpoint_id]
        ELSE IF status = "paused" THEN Say("pause", "PAUSED_WITHOUT_EXACT_REACTIVATION_SIGNAL")
        ELSE IF own = <<>> THEN Say("record", "NO_CONTINUITY_RECORD")
        ELSE Say("continue", "RECORDED_ACTION_AVAILABLE")

MemoryState(s) ==
    LET own == SelectedEntries(s)
        Has(P(_)) == \E i \in 1..Len(own) : P(Recorded(own[i]))
    IN  IF own = <<>> THEN "empty"
        ELSE IF CurrentStatus(s) = "complete" THEN "closed_recorded"
        ELSE IF Recorded(Last(own)).kind = "blocker_resolution" /\ Last(own).resolves # NULL
            THEN "resumed"
        ELSE IF CurrentBlockers(s) # <<>> \/ RepeatedAttempt(s) \/ Has(LAMBDA r : r.limited)
            THEN "limited"
        ELSE IF Has(LAMBDA r : DOMAIN r.references # {}) THEN "referenced"
        ELSE "recorded"

ArtifactLifecycle(s) ==
    IF SelectedEntries(s) = <<>> THEN "empty"
    ELSE IF CurrentStatus(s) = "complete" THEN "closed_recorded"
    ELSE "integrity_checked"

-----------------------------------------------------------------------------
(* The lots view, the history, the precedents. *)

LotCategory(s, w) ==
    CASE StatusOf(s, w) = "complete" -> "complete"
      [] StatusOf(s, w) # "complete" /\ w = Selected(s) -> "active"
      [] OTHER -> IF RecordedBlockers(s, w) # <<>> THEN "blocked"
                  ELSE IF StatusOf(s, w) = "paused" THEN "waiting" ELSE "eligible"

\* The entries of j after the first `low` and up to `high`, newest first.
NewestFirst(j, low, high) == [i \in 1 .. high - low |-> j[high + 1 - i]]

\* One page of the history, newest first: the entries before the cursor, an
\* index from 0, and the cursor of the page that follows, NULL after the last.
\* Mutant: the next page starts before the last entry shown, not at it.
PageSkipping(s, before, limit) ==
    LET first == IF before < limit THEN 0 ELSE before - limit
    IN  [entries |-> NewestFirst(Journal(s), first, before),
         next |-> IF before - first = limit /\ first > 1 THEN first - 1 ELSE NULL]

HistoryPage(s, before, limit) ==
    LET first == IF before < limit THEN 0 ELSE before - limit
    IN  [entries |-> NewestFirst(Journal(s), first, before),
         next |-> IF before - first = limit /\ first > 0 THEN first ELSE NULL]

\* findExactPrecedentRecords, of a Work or of a path: the entries about it, or
\* with a digest recorded for it, and the entries that resolve one of those.
DirectPrecedent(s, selector, e) ==
    LET cited == Recorded(e).references
        digests == {Recorded(d).references[selector.path] :
                        d \in {x \in ToSet(Journal(s)) :
                                  selector.path \in DOMAIN Recorded(x).references}}
    IN  IF selector.kind = "lot" THEN e.work_id = selector.work
        ELSE \/ selector.path \in DOMAIN cited
             \/ \E p \in DOMAIN cited : cited[p] \in digests

Precedents(s, selector) ==
    LET direct == {e \in ToSet(Journal(s)) : DirectPrecedent(s, selector, e)}
        names == {e.checkpoint_id : e \in direct}
    IN  AtMost(3, SelectSeq(Reverse(Journal(s)), LAMBDA e : e \in direct \/ e.resolves \in names))

-----------------------------------------------------------------------------
(* The capsule: eight entries, six items of Knowledge and three blockers at  *)
(* most, fitted into its 8 KiB by giving up entries, oldest first, then      *)
(* Knowledge, then blockers but for one.  `room` is how many items fit; the  *)
(* acceptance criteria and the shortening of texts are left out.             *)

Clamp(n, most) == Max({0, Min({n, most})})

CapsuleParts(s) ==
    [continuity |-> Min({8, Len(SelectedEntries(s))}),
     knowledge |-> Min({6, Cardinality(LinkedKnowledge(s))}),
     blockers |-> Min({3, Len(CurrentBlockers(s))})]

CapsuleFits(s, room) == room >= Min({1, CapsuleParts(s).blockers})

Capsule(s, room) ==
    LET most == CapsuleParts(s)
        own == SelectedEntries(s)
        kept == Clamp(room - most.blockers - most.knowledge, most.continuity)
    IN  [next_action |-> NextAction(s),
         blockers |-> Clamp(room, most.blockers),
         knowledge |-> Clamp(room - most.blockers, most.knowledge),
         recorded_continuity |-> SubSeq(own, Len(own) - kept + 1, Len(own))]
=============================================================================
