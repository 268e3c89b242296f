------------------------------ MODULE AuditCase ------------------------------
(***************************************************************************)
(* The scripts of the audit-readiness skill over one case, while people and *)
(* agents edit its documents: ensure (reuse, or create file by file),        *)
(* record a review receipt, export a bundle, render a summary, and the       *)
(* capture of the operator core.  No script takes a lock; they create files  *)
(* exclusively and read the case again to see whether it changed.            *)
(*                                                                          *)
(* A script is a sequence of phases; a phase that reads the case reads one   *)
(* file per step.                                                            *)
(***************************************************************************)
EXTENDS AuditRules

CONSTANTS
    Clerk,           \* processes that run a script
    AuditScenarios,  \* a sequence: what there is at first, what each clerk runs, how many edits and crashes
    AuditEdits       \* [file, value]: a document or an artifact that people leave

\* A script that has not begun, or a recorder that has confirmed its root.
Waiting == [at |-> "waiting", todo |-> <<>>, read |-> <<>>, since |-> 0, case |-> Absent,
            receipt |-> Absent, written |-> Absent]
RootConfirmed(r, root) ==
    [Waiting EXCEPT !.at = "receipt", !.receipt = r, !.read = With(<<>>, "root", root)]

\* What a scenario says of the past is something the scripts have left.
MomentsOf(s) == Append(s.past, [documents |-> s.documents, evidence |-> s.evidence])
WellRun(run) ==
    /\ run.script = "ensure" => run.case \in CaseId \cup {Absent}
    /\ run.script = "record" => run.receipts \subseteq ReviewReceipt /\ run.name \in ReceiptName
WellBegun(s, p) ==
    s.clerk[p] = Waiting \/
        /\ s.runs[p].script = "record"
        /\ s.clerk[p] = RootConfirmed(s.clerk[p].receipt, s.clerk[p].read["root"])
        /\ Accepted(s.clerk[p].receipt, s.receipts)
        /\ \E i \in DOMAIN MomentsOf(s) : s.clerk[p].read["root"] = MomentsOf(s)[i].documents
WellFormed(s) ==
    /\ s.touches \in Nat /\ s.crashes \in Nat
    /\ s.documents \in Documents /\ \A f \in CaseFiles : s.documents[f] \in OnDisk(f)
    /\ s.evidence \in Evidence /\ AllAccepted(s.receipts)
    /\ s.past \in Seq(CaseMoment)
    /\ s.clerk = [p \in Clerk |-> s.clerk[p]]
    /\ \A p \in Clerk : WellRun(s.runs[p]) /\ WellBegun(s, p)

ASSUME AuditAssumption ==
    /\ IsFiniteSet(Clerk) /\ Clerk \subseteq CaseId
    /\ \A e \in AuditEdits :
          IF e.file \in Artifact THEN e.value \in Content \cup {Absent}
          ELSE e.file \in CaseFiles /\ e.value \in Document(e.file)
    /\ \A i \in DOMAIN AuditScenarios : WellFormed(AuditScenarios[i])

VARIABLES
    chosen,          \* the scenario
    caseDir,         \* does the directory of the case exist
    documents,       \* the five files
    evidence,        \* the content at the path of each artifact, or Absent
    receipts,        \* the files under reviews/, those that exist
    output,          \* the entries of the output directory
    clerk,           \* where each script is
    answered,        \* history: the cases that `ensure` has reported
    writers,         \* history: the scripts that found the output directory empty
    log,             \* history: every state of the documents and the evidence
    touches, auditCrashes

auditVars ==
    <<chosen, caseDir, documents, evidence, receipts, output, clerk, answered, writers, log,
      touches, auditCrashes>>
theCase == <<caseDir, documents, evidence, log, touches>>
\* A definition, so that the sequence is evaluated once.
Planned == AuditScenarios
scenario == Planned[chosen]
theRest == <<chosen, auditCrashes>>

-----------------------------------------------------------------------------
(* Steps of a script.                                                        *)

Asked(p) == scenario.runs[p]
Reached(p, script, phase) ==
    Asked(p).script = script /\ clerk[p].at = phase /\ clerk[p].todo = <<>>

\* What a phase has read.
Got(p, phase) == clerk[p].read[phase]
DocumentsRead(p, phase) == Restrict(Got(p, phase), CaseFiles)

MoveTo(p, phase, todo) ==
    clerk' = [clerk EXCEPT ![p] = [clerk[p] EXCEPT !.at = phase, !.todo = todo,
                                   !.read = With(@, phase, <<>>)]]
Read(p, phase) == MoveTo(p, phase, REQUIRED_FILES)
Begin(p, phase, todo, c, receipt) ==
    clerk' = [clerk EXCEPT ![p] =
        [Waiting EXCEPT !.at = phase, !.todo = todo, !.read = With(<<>>, phase, <<>>),
                        !.since = Len(log), !.case = c, !.receipt = receipt]]
Stop(p) == clerk' = [clerk EXCEPT ![p] = [Waiting EXCEPT !.at = "stopped"]]
Require(condition, next, p) == IF condition THEN next ELSE Stop(p)

Now == [documents |-> documents, evidence |-> evidence]
Logged == log' = Append(log, Now')

Digesting == {"root", "confirm", "final"}
WithArtifacts == {"validate", "capture"}
ReadingPhase == {"case", "load", "again"} \cup Digesting \cup WithArtifacts

\* A digest covers whatever bytes are there; a document that is read must parse.
ReadNext(p) ==
    /\ clerk[p].at \in ReadingPhase /\ clerk[p].todo # <<>>
    /\ LET phase == clerk[p].at
           x == Head(clerk[p].todo)
           v == Lying(Now, x)
           got == With(Got(p, phase), x, v)
           cited == IF x = "review" /\ phase \in WithArtifacts
                    THEN SetToSeq(DOMAIN got["index"].artifacts) ELSE <<>>
       IN  IF x \in CaseFiles /\ (v = Absent \/ (v = Partial /\ phase \notin Digesting))
           THEN Stop(p)
           ELSE clerk' = [clerk EXCEPT ![p] = [clerk[p] EXCEPT !.todo = Tail(@) \o cited,
                                                        !.read = With(@, phase, got)]]
    /\ UNCHANGED <<theCase, receipts, output, answered, writers, theRest>>

Valid(p) == ValidCase(DocumentsRead(p, "validate"), Got(p, "validate"))
Ready(p) == ReadyForHumanReview(DocumentsRead(p, "validate"), Got(p, "validate"))

-----------------------------------------------------------------------------
(* ensureAuditWorkspace.                                                     *)

AskEnsure(p) ==
    /\ Reached(p, "ensure", "waiting")
    /\ IF caseDir
       THEN IF \A f \in CaseFiles : documents[f] = Absent THEN Stop(p)
            ELSE Begin(p, "case", REQUIRED_FILES, Asked(p).case, Absent)
       ELSE Begin(p, "prepare", <<>>, IF Asked(p).case = Absent THEN p ELSE Asked(p).case, Absent)
    /\ UNCHANGED <<theCase, receipts, output, answered, writers, theRest>>

\* Mutant: what is in the directory is removed.
EmptyCase(p) ==
    /\ Reached(p, "ensure", "prepare")
    /\ caseDir' = TRUE /\ documents' = [f \in CaseFiles |-> Absent]
    /\ MoveTo(p, "create", REQUIRED_FILES)
    /\ UNCHANGED <<evidence, log, touches, receipts, output, answered, writers, theRest>>

\* prepareOutputDirectory: a directory with an entry is refused.
PrepareCase(p) ==
    /\ Reached(p, "ensure", "prepare")
    /\ IF \E f \in CaseFiles : documents[f] # Absent
       THEN Stop(p) /\ UNCHANGED caseDir
       ELSE caseDir' = TRUE /\ MoveTo(p, "create", REQUIRED_FILES)
    /\ UNCHANGED <<documents, evidence, log, touches, receipts, output, answered, writers, theRest>>

\* writeJsonExclusive: the file is created, if it is not there, then written.
CreateDocument(p) ==
    /\ clerk[p].at = "create"
    /\ IF documents[Head(clerk[p].todo)] # Absent
       THEN Stop(p) /\ UNCHANGED <<documents, evidence, log>>
       ELSE /\ documents' = [documents EXCEPT ![Head(clerk[p].todo)] = Partial]
            /\ clerk' = [clerk EXCEPT ![p].at = "fill"]
            /\ UNCHANGED evidence
            /\ Logged
    /\ UNCHANGED <<caseDir, touches, receipts, output, answered, writers, theRest>>

WriteDocument(p) ==
    /\ clerk[p].at = "fill"
    /\ LET f == Head(clerk[p].todo)
           left == Tail(clerk[p].todo)
       IN  /\ documents' = [documents EXCEPT ![f] = DraftOf(f, clerk[p].case)]
           /\ IF left = <<>> THEN Read(p, "case") ELSE MoveTo(p, "create", left)
    /\ UNCHANGED evidence
    /\ Logged
    /\ UNCHANGED <<caseDir, touches, receipts, output, answered, writers, theRest>>

\* readCaseId, then assertValidWorkspace.
CheckCase(p) ==
    /\ Reached(p, "ensure", "case")
    /\ Require(SameCase(Got(p, "case")), Read(p, "validate"), p)
    /\ UNCHANGED <<theCase, receipts, output, answered, writers, theRest>>

\* CASE_ID_CONFLICT, CASE_ID_MISMATCH, or the identifier read.
AnswerEnsure(p) ==
    /\ Reached(p, "ensure", "validate")
    /\ LET stored == Got(p, "case")["scope"].case
       IN  answered' = IF Valid(p) /\ clerk[p].case \in {Absent, stored}
                       THEN answered \cup {stored} ELSE answered
    /\ Stop(p)
    /\ UNCHANGED <<theCase, receipts, output, writers, theRest>>

-----------------------------------------------------------------------------
(* recordAuditReviewReceipt.  The reviewer has seen the documents before.    *)

Roots == {log[i].documents : i \in DOMAIN log}

AskRecord(p) ==
    /\ Reached(p, "record", "waiting") /\ caseDir
    /\ \E r \in Asked(p).receipts, input \in Roots, resulting \in Roots :
          Begin(p, "validate", REQUIRED_FILES, Absent,
                [r EXCEPT !.input = input,
                          !.resulting = IF Original(r) THEN Absent ELSE resulting])
    /\ UNCHANGED <<theCase, receipts, output, answered, writers, theRest>>

TakeRoot(p) ==
    /\ Reached(p, "record", "validate")
    /\ Require(Valid(p), Read(p, "root"), p)
    /\ UNCHANGED <<theCase, receipts, output, answered, writers, theRest>>

CheckReceipt(p) ==
    /\ Reached(p, "record", "root")
    /\ LET r == clerk[p].receipt
       IN  Require(RecorderAccepts(r, Got(p, "root")),
                   IF Original(r) THEN Read(p, "confirm")
                   ELSE MoveTo(p, "reviewed", SetToSeq(r.reviewed)), p)
    /\ UNCHANGED <<theCase, receipts, output, answered, writers, theRest>>

CheckReviewed(p) ==
    /\ clerk[p].at = "reviewed"
    /\ LET n == Head(clerk[p].todo)
           left == Tail(clerk[p].todo)
       IN  Require(n \in DOMAIN receipts /\ Reconcilable(clerk[p].receipt, receipts[n]),
                   IF left = <<>> THEN Read(p, "confirm") ELSE MoveTo(p, "reviewed", left), p)
    /\ UNCHANGED <<theCase, receipts, output, answered, writers, theRest>>

ConfirmRoot(p) ==
    /\ Reached(p, "record", "confirm")
    /\ Require(Got(p, "confirm") = Got(p, "root"), MoveTo(p, "receipt", <<>>), p)
    /\ UNCHANGED <<theCase, receipts, output, answered, writers, theRest>>

CreateReceipt(p) ==
    /\ Reached(p, "record", "receipt")
    /\ IF Asked(p).name \in DOMAIN receipts THEN Stop(p) /\ UNCHANGED receipts
       ELSE /\ receipts' = With(receipts, Asked(p).name, Partial)
            /\ MoveTo(p, "body", <<>>)
    /\ UNCHANGED <<theCase, output, answered, writers, theRest>>

WriteReceipt(p) ==
    /\ Reached(p, "record", "body")
    /\ receipts' = [receipts EXCEPT ![Asked(p).name] = clerk[p].receipt]
    /\ clerk' = [clerk EXCEPT ![p] = [clerk[p] EXCEPT !.at = "final", !.todo = REQUIRED_FILES,
                                !.read = With(@, "final", <<>>), !.written = Len(log)]]
    /\ UNCHANGED <<theCase, output, answered, writers, theRest>>

\* Mutant: the root is not computed again after the receipt is written.
RecordedUnread(p) == TRUE

\* "recorded", or "recorded_historical" when the documents have moved on.
Recorded(p) == Got(p, "final") = Got(p, "root")

AnswerRecord(p) ==
    /\ Reached(p, "record", "final")
    /\ clerk' = [clerk EXCEPT ![p].at = IF Recorded(p) THEN "recorded" ELSE "historical"]
    /\ UNCHANGED <<theCase, receipts, output, answered, writers, theRest>>

-----------------------------------------------------------------------------
(* exportAuditBundle and renderAuditSummary: one output directory.           *)

AskExport(p) ==
    /\ Reached(p, "export", "waiting") /\ caseDir
    /\ Begin(p, "validate", REQUIRED_FILES, Absent, Absent)
    /\ UNCHANGED <<theCase, receipts, output, answered, writers, theRest>>

LoadReady(p) ==
    /\ Reached(p, "export", "validate")
    /\ Require(Ready(p), Read(p, "load"), p)
    /\ UNCHANGED <<theCase, receipts, output, answered, writers, theRest>>

\* The paths to copy, sorted: `artifacts/...`, then the documents by file name.
Listed(p) ==
    SetToSeq(Indexed(Got(p, "load"))) \o <<"scope", "inventory", "index", "review", "actions">>
ListedFiles(p) == Range(Listed(p))

\* The directory is empty, or is made.
PrepareOutput(p) ==
    /\ \/ /\ Reached(p, "export", "load")
          /\ Require(output = <<>>, MoveTo(p, "copy", Listed(p)), p)
       \/ /\ Reached(p, "render", "confirm")
          /\ Require(Got(p, "confirm") = Got(p, "root") /\ output = <<>>,
                     MoveTo(p, "summary", <<>>), p)
    /\ writers' = IF output = <<>> THEN writers \cup {p} ELSE writers
    /\ UNCHANGED <<theCase, receipts, output, answered, theRest>>

CopyNext(p) ==
    /\ clerk[p].at = "copy"
    /\ LET x == Head(clerk[p].todo)
           left == Tail(clerk[p].todo)
           v == Lying(Now, x)
       IN  IF v = Absent \/ x \in DOMAIN output THEN Stop(p) /\ UNCHANGED output
           ELSE /\ output' = With(output, x, v)
                /\ MoveTo(p, IF left = <<>> THEN "bundle" ELSE "copy", left)
    /\ UNCHANGED <<theCase, receipts, answered, writers, theRest>>

Bundled == [x \in CaseFiles \cup Artifact |-> IF x \in DOMAIN output THEN output[x] ELSE Absent]

\* Mutant: the copies are not validated.
TrustCopies(p) ==
    /\ Reached(p, "export", "bundle")
    /\ MoveTo(p, "summary", <<>>)
    /\ UNCHANGED <<theCase, receipts, output, answered, writers, theRest>>

\* SOURCE_CHANGED_DURING_EXPORT.  Nobody replaces what a script has created, so
\* the files of the bundle are read in one step.
CheckBundle(p) ==
    /\ Reached(p, "export", "bundle")
    /\ Require(ReadyForHumanReview(Bundled, Bundled), MoveTo(p, "summary", <<>>), p)
    /\ UNCHANGED <<theCase, receipts, output, answered, writers, theRest>>

\* The summary is made from the documents loaded, or from the copies.
SummaryOf(p) ==
    IF Asked(p).script = "export" THEN Restrict(Bundled, CaseFiles) ELSE Got(p, "load")

WriteSummary(p) ==
    /\ clerk[p].at = "summary"
    /\ IF "summary" \in DOMAIN output THEN Stop(p) /\ UNCHANGED output
       ELSE output' = With(output, "summary", SummaryOf(p)) /\ MoveTo(p, "manifest", <<>>)
    /\ UNCHANGED <<theCase, receipts, answered, writers, theRest>>

Manifest(p) ==
    IF Asked(p).script = "export"
    THEN [by |-> p, files |-> Restrict(output, {"summary"} \cup ListedFiles(p))]
    ELSE [by |-> p, files |-> Restrict(output, {"summary"}), source |-> Got(p, "root")]

WriteManifest(p) ==
    /\ clerk[p].at = "manifest"
    /\ IF "manifest" \in DOMAIN output THEN Stop(p) /\ UNCHANGED output
       ELSE /\ output' = With(output, "manifest", Manifest(p))
            /\ clerk' = [clerk EXCEPT ![p].at = "written"]
    /\ UNCHANGED <<theCase, receipts, answered, writers, theRest>>

AskRender(p) ==
    /\ Reached(p, "render", "waiting") /\ caseDir
    /\ Begin(p, "root", REQUIRED_FILES, Absent, Absent)
    /\ UNCHANGED <<theCase, receipts, output, answered, writers, theRest>>

RenderReads(p) ==
    /\ \/ Reached(p, "render", "root") /\ Read(p, "load")
       \/ Reached(p, "render", "load") /\ Read(p, "validate")
       \/ Reached(p, "render", "validate") /\ Require(Valid(p), Read(p, "confirm"), p)
    /\ UNCHANGED <<theCase, receipts, output, answered, writers, theRest>>

-----------------------------------------------------------------------------
(* captureWorkspaceSnapshot: a second pass over what the first one found.     *)

AskCapture(p) ==
    /\ Reached(p, "capture", "waiting") /\ caseDir
    /\ Begin(p, "capture", REQUIRED_FILES, Absent, Absent)
    /\ UNCHANGED <<theCase, receipts, output, answered, writers, theRest>>

Found(p) == {x \in DOMAIN Got(p, "capture") : Got(p, "capture")[x] # Absent}

CaptureAgain(p) ==
    /\ Reached(p, "capture", "capture")
    /\ MoveTo(p, "again", SetToSeq(Found(p)))
    /\ UNCHANGED <<theCase, receipts, output, answered, writers, theRest>>

\* SNAPSHOT_CAPTURE_RACE, or the snapshot.
AnswerCapture(p) ==
    /\ Reached(p, "capture", "again")
    /\ Require(\A x \in Found(p) : Got(p, "again")[x] = Got(p, "capture")[x],
               clerk' = [clerk EXCEPT ![p].at = "captured"], p)
    /\ UNCHANGED <<theCase, receipts, output, answered, writers, theRest>>

-----------------------------------------------------------------------------
(* People.  A document keeps its case; files are read as they are written.    *)

Active == {p \in Clerk : clerk[p].at \notin {"waiting", "stopped"}}

EditCase(e) ==
    /\ touches < scenario.touches /\ Active # {}
    /\ IF e.file \in Artifact
       THEN /\ evidence[e.file] # e.value
            /\ evidence' = [evidence EXCEPT ![e.file] = e.value]
            /\ UNCHANGED documents
       ELSE /\ documents[e.file] \notin {Absent, Partial}
            /\ LET doc == [e.value EXCEPT !.case = documents[e.file].case]
               IN  doc # documents[e.file] /\ documents' = [documents EXCEPT ![e.file] = doc]
            /\ UNCHANGED evidence
    /\ Logged
    /\ touches' = touches + 1
    /\ UNCHANGED <<caseDir, receipts, output, clerk, answered, writers, theRest>>

\* The process dies: what it has created stays, written or not.
CrashClerk(p) ==
    /\ p \in Active /\ auditCrashes < scenario.crashes
    /\ Stop(p)
    /\ auditCrashes' = auditCrashes + 1
    /\ UNCHANGED <<chosen, theCase, receipts, output, answered, writers>>

AuditInit ==
    /\ chosen \in DOMAIN AuditScenarios
    /\ caseDir = (scenario.documents # [f \in CaseFiles |-> Absent])
    /\ documents = scenario.documents /\ evidence = scenario.evidence
    /\ receipts = scenario.receipts
    /\ output = <<>> /\ answered = {} /\ writers = {}
    /\ clerk = scenario.clerk
    /\ log = Append(scenario.past, Now)
    /\ touches = 0 /\ auditCrashes = 0

ScriptStep(p) ==
    \/ ReadNext(p) \/ CrashClerk(p)
    \/ AskEnsure(p) \/ PrepareCase(p) \/ CreateDocument(p) \/ WriteDocument(p)
    \/ CheckCase(p) \/ AnswerEnsure(p)
    \/ AskRecord(p) \/ TakeRoot(p) \/ CheckReceipt(p) \/ CheckReviewed(p) \/ ConfirmRoot(p)
    \/ CreateReceipt(p) \/ WriteReceipt(p) \/ AnswerRecord(p)
    \/ AskExport(p) \/ LoadReady(p) \/ PrepareOutput(p) \/ CopyNext(p) \/ CheckBundle(p)
    \/ WriteSummary(p) \/ WriteManifest(p) \/ AskRender(p) \/ RenderReads(p)
    \/ AskCapture(p) \/ CaptureAgain(p) \/ AnswerCapture(p)

AuditNext == (\E p \in Clerk : ScriptStep(p)) \/ (\E e \in AuditEdits : EditCase(e))

AuditSpec == AuditInit /\ [][AuditNext]_auditVars

-----------------------------------------------------------------------------
(* Properties.                                                               *)

\* Files are there whole, half written or not at all; what a script has read
\* and where it is belong to its run.
AuditTypeOK ==
    /\ \A f \in CaseFiles : documents[f] \notin {Absent, Partial} => documents[f].case # Absent
    /\ DOMAIN evidence = Artifact /\ DOMAIN receipts \subseteq ReceiptName
    /\ DOMAIN output \subseteq CaseFiles \cup Artifact \cup {"summary", "manifest"}
    /\ writers \subseteq Clerk /\ (output # <<>> => writers # {})
    /\ \A p \in Clerk : clerk[p].since \in 0..Len(log)
    /\ touches \in 0..scenario.touches /\ auditCrashes \in 0..scenario.crashes

\* All that `ensure` has ever answered about one directory is one case, and the
\* directory still holds that case, whole and valid in form, although two
\* scripts may create it at once and one may die half way.
OneCase ==
    answered # {} =>
        /\ Parses(documents)
        /\ {documents[f].case : f \in CaseFiles} = answered
        /\ Cardinality(answered) = 1

\* An output with the manifest of an export is a case that is valid and ready
\* for human review, exactly as the manifest lists it; an artifact that its
\* index cites is listed too, unless two scripts found the directory empty.
BundleReady ==
    "manifest" \in DOMAIN output /\ Asked(output["manifest"].by).script = "export" =>
        LET files == output["manifest"].files
        IN  /\ CaseFiles \cup {"summary"} \subseteq DOMAIN files
            /\ \A x \in DOMAIN files : output[x] = files[x]
            /\ ReadyForHumanReview(Bundled, Bundled)
            /\ output["summary"] = Restrict(Bundled, CaseFiles)
            /\ Indexed(Bundled) \subseteq DOMAIN files \/ Cardinality(writers) > 1

\* A content that has come back hides a change from any comparison of digests.
Restored ==
    \E i, j, k \in DOMAIN log : i < j /\ j < k /\
        \/ \E f \in CaseFiles : log[i].documents[f] = log[k].documents[f]
                                /\ log[i].documents[f] # log[j].documents[f]
        \/ \E a \in Artifact : log[i].evidence[a] = log[k].evidence[a]
                               /\ log[i].evidence[a] # log[j].evidence[a]

Moments(p) == {log[i] : i \in clerk[p].since..Len(log)}

\* What a script answers under one digest was in the case at one moment while
\* it ran: the root of a receipt reported as recorded is the one the documents
\* had when it was written; a summary is of the documents its manifest names;
\* a capture's documents and artifacts were there together.
SignedAtOneMoment ==
    ~Restored => \A p \in Clerk :
        /\ clerk[p].at = "recorded" => log[clerk[p].written].documents = Got(p, "root")
        /\ Asked(p).script = "render" /\ clerk[p].at = "written" =>
              /\ output["manifest"].source = output["summary"]
              /\ \E m \in Moments(p) : m.documents = output["summary"]
        /\ clerk[p].at = "captured" =>
              \E m \in Moments(p) : \A x \in Found(p) :
                  Got(p, "capture")[x] = Lying(m, x)
=============================================================================
