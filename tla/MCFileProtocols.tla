---------------------------- MODULE MCFileProtocols ----------------------------
\* Instances of CloseSession (with WorkspaceCreation), LotWorkspace,
\* PersonalMemory, ProjectRegistry and ReviewLedger (with AuditCase) for TLC.
\* The five share no file, so one behaviour runs one of them: the others stay
\* in their initial state.
EXTENDS CloseSession, LotWorkspace, PersonalMemory, ProjectRegistry, ReviewLedger

CONSTANTS l1, l2, a1, a2, k1, k2, d1, t1, t2, r1, r2, r3, i1, i2, i3, e1, e2, e3, f1, v1, v2

CONSTANTS p1, p2, b1, b2, c1, c2, x1, x2

VARIABLE component

-----------------------------------------------------------------------------
MCProcess == {p1, p2}
MCBlocker == {b1, b2}
States == [status : {"active", "unknown"}, blockers : {{}, {b1}}]

-----------------------------------------------------------------------------
MCLot == {l1, l2}
MCDepends == l1 :> {} @@ l2 :> {l1}
MCExpected == l1 :> {e1} @@ l2 :> {e2}
MCAcceptance == {e1}

Entry(id, lot, kind, class, refs, resolves) ==
    [id |-> id, lot |-> lot, kind |-> kind, class |-> class, refs |-> refs,
     validated |-> kind \in {"fact", "legacy"}, resolves |-> resolves]

Cite == f1 :> NoLot
CitedFact(id, lot) == Entry(id, lot, "fact", "observed", f1 :> v1, NoLot)
Fact(id, lot) == Entry(id, lot, "fact", "observed", Cite, NoLot)
MCCheckpoints ==
    {<<Fact(e1, l1)>>, <<Fact(e2, l2)>>,
     <<Entry(e3, l1, "blocker", "reported", <<>>, NoLot)>>,
     <<Entry(e2, l1, "blocker_resolution", "reported", <<>>, e3)>>}

Ws(mission, contract, lots, entries, found) ==
    [mission |-> mission, contract |-> contract, lots |-> lots, evidence |-> entries,
     artifacts |-> f1 :> found]
Draft == [lot |-> NoLot, status |-> "draft"]
Mission(status) == [status |-> status, defined |-> TRUE]
V1(entries) == [format |-> 1, entries |-> entries]
Contract(status) == [lot |-> l1, status |-> status]
MCFirst ==
    {Ws(Mission("approved"), Contract("draft"), l1 :> "planned" @@ l2 :> "planned",
        [format |-> 2, entries |-> <<>>], v1),
     Ws(Mission("draft"), Draft, l1 :> "planned" @@ l2 :> "planned",
        V1(<<Entry(e1, l1, "legacy", "observed", Cite, NoLot)>>), v2),
     Ws(Mission("complete"), Draft, l1 :> "complete" @@ l2 :> "complete",
        [format |-> 2, entries |-> <<CitedFact(e1, l1), CitedFact(e2, l2)>>], v1),
     Ws([status |-> "approved", defined |-> FALSE], Draft, <<>>, V1(<<>>), v1)}

\* The second one changes the artifact of the first workspace and nothing else:
\* the snapshot tells them apart only if the evidence cites it.
EditOf(mission, contract, found) ==
    [mission |-> mission, contract |-> contract, artifacts |-> f1 :> found]
MCEdits ==
    {EditOf(Mission("approved"), Contract("approved"), v1),
     EditOf(Mission("approved"), Contract("draft"), "missing")}

-----------------------------------------------------------------------------
\* An audit case whose index cites x1, and its receipts.
Doc(refs) == [case |-> c1, refs |-> refs, ready |-> TRUE]
IndexOf(artifacts_) == [case |-> c1, artifacts |-> artifacts_]
Review(requested) == [case |-> c1, refs |-> {x1}, ready |-> TRUE, requested |-> requested]
AuditOf(requested) ==
    "scope" :> Doc({x1}) @@ "inventory" :> Doc({x1}) @@ "actions" :> Doc({})
      @@ "index" :> IndexOf(x1 :> v1) @@ "review" :> Review(requested)
ReadyCase == AuditOf(TRUE)

Receipt(type, by, reviewed, flaws) ==
    [type |-> type, by |-> by, input |-> Absent, resulting |-> Absent, reviewed |-> reviewed,
     flaws |-> flaws]
ByHuman == Receipt("domain-review", "human", {}, {})
Challenge == Receipt("challenge", "agent", {}, {})
Flawed(flaw) == Receipt("challenge", "agent", {}, {flaw})
Reconciles(names) == Receipt("reconciliation", "human", names, {})
Sealed(r, root) ==
    [r EXCEPT !.input = root, !.resulting = IF Original(r) THEN Absent ELSE root]
Name(decision, id) == <<decision, id>>
MCReceiptName == {Name(decision, id) : decision \in 1..2, id \in 1..3}

Scenario(D, found, one, two, edits_) ==
    [documents |-> D, evidence |-> x1 :> v1 @@ x2 :> v1, receipts |-> found,
     runs |-> c1 :> one @@ c2 :> two, clerk |-> [p \in Clerk |-> Waiting],
     past |-> <<>>, touches |-> edits_, crashes |-> 1, ledger |-> FALSE]
Alone == [script |-> "none"]
Do(script) == [script |-> script]
Ensure(c) == [script |-> "ensure", case |-> c]
Record(rs, name) == [script |-> "record", receipts |-> rs, name |-> name]

\* Either two recorders are about to create their receipts, of two decisions,
\* when the ledger is read.  Somebody has removed the scope since they confirmed
\* the root, so that they stop once they have written.
\* Or there are receipts that the ledger refuses or does not open, what
\* reconciles them, one more being written, and a name that is taken.
ReadWhileRecording ==
    LET first == Sealed(Challenge, ReadyCase)
        second == Sealed(Reconciles({Name(2, 1)}), ReadyCase)
    IN  [Scenario([ReadyCase EXCEPT !["scope"] = Absent],
                  Name(1, 1) :> Sealed(ByHuman, ReadyCase) @@ Name(2, 1) :> first,
                  Record({first}, Name(1, 2)), Record({second}, Name(2, 2)), 0)
           EXCEPT !.clerk = c1 :> RootConfirmed(first, ReadyCase) @@ c2 :> RootConfirmed(second, ReadyCase),
                  !.past = <<[documents |-> ReadyCase, evidence |-> x1 :> v1 @@ x2 :> v1]>>,
                  !.crashes = 0, !.ledger = TRUE]
ReadRefused ==
    [Scenario(ReadyCase,
              Name(1, 1) :> Sealed(Flawed("twice"), ReadyCase)
                @@ Name(1, 2) :> Sealed(Reconciles({Name(1, 1)}), ReadyCase)
                @@ Name(1, 3) :> Sealed(Challenge, ReadyCase)
                @@ Name(2, 1) :> Sealed(Flawed("size"), ReadyCase)
                @@ Name(2, 3) :> Sealed(Reconciles({Name(2, 1)}), ReadyCase),
              Record({}, Name(1, 3)), Record({}, Name(2, 2)), 0)
       EXCEPT !.clerk = c1 :> RootConfirmed(Sealed(Challenge, ReadyCase), ReadyCase)
                @@ c2 :> RootConfirmed(Sealed(Flawed("reference"), ReadyCase), ReadyCase),
              !.ledger = TRUE]

NoFiles == [f \in CaseFiles |-> Absent]
MCAuditScenarios ==
    <<ReadWhileRecording, ReadRefused,
      Scenario(NoFiles, <<>>, Ensure(Absent), Ensure(Absent), 0),
      Scenario(NoFiles, <<>>, Ensure(Absent), Ensure(c1), 0),
      Scenario([f \in CaseFiles |-> DraftOf(f, c1)], <<>>, Ensure(c1), Ensure(c2), 0),
      Scenario(ReadyCase, Name(1, 1) :> Sealed(Challenge, ReadyCase),
               Record({ByHuman, Challenge}, Name(1, 2)),
               Record({Reconciles({Name(1, 1), Name(1, 2)})}, Name(1, 3)), 1),
      Scenario(ReadyCase, <<>>, Do("export"), Do("export"), 1),
      Scenario(ReadyCase, <<>>, Do("export"), Do("render"), 0),
      Scenario(ReadyCase, <<>>, Do("export"), Alone, 2),
      Scenario(AuditOf(FALSE), <<>>, Do("render"), Alone, 2),
      Scenario(ReadyCase, <<>>, Do("capture"), Alone, 2)>>

AuditEdit(file, value) == [file |-> file, value |-> value]
MCAuditEdits ==
    {AuditEdit(x1, v2), AuditEdit(x1, v1), AuditEdit(x1, Absent),
     AuditEdit("index", IndexOf(x1 :> v2)), AuditEdit("index", IndexOf(x1 :> v1)),
     AuditEdit("index", IndexOf(x2 :> v1)), AuditEdit("scope", Doc({x2})),
     AuditEdit("review", Review(FALSE))}

-----------------------------------------------------------------------------
MCUnder == {<<r2, r1>>}

ProtocolSymmetry == Permutations(Author) \cup Permutations(Process)

theAudit == <<auditVars, ledgerVars>>
protocolVars == <<homeVars, lotVars, personalVars, registryVars, theAudit, component>>

NoCase ==
    /\ chosen = 1 /\ caseDir = FALSE /\ documents = <<>> /\ evidence = <<>> /\ receipts = <<>>
    /\ output = <<>> /\ clerk = [p \in Clerk |-> Waiting] /\ answered = {} /\ writers = {}
    /\ log = <<>> /\ touches = 0 /\ auditCrashes = 0 /\ ledger = NotReading /\ trees = {}

FilesInit ==
    /\ component \in {"home", "lots", "personal", "registry", "audit"}
    /\ CreationInit /\ PersonalInit /\ RegistryInit
    /\ LotInit
    /\ component # "lots" => ws = CHOOSE w \in FirstWorkspaces : DOMAIN w.lots = {}
    /\ IF component = "audit" THEN LedgerInit ELSE NoCase

FilesNext ==
    /\ UNCHANGED component
    /\ \/ /\ component = "home" /\ HomeNext
          /\ UNCHANGED <<lotVars, personalVars, registryVars, theAudit>>
       \/ /\ component = "lots" /\ LotNext
          /\ UNCHANGED <<homeVars, personalVars, registryVars, theAudit>>
       \/ /\ component = "personal" /\ PersonalNext
          /\ UNCHANGED <<homeVars, lotVars, registryVars, theAudit>>
       \/ /\ component = "registry" /\ RegistryNext
          /\ UNCHANGED <<homeVars, lotVars, personalVars, theAudit>>
       \/ /\ component = "audit" /\ LedgerNext
          /\ UNCHANGED <<homeVars, lotVars, personalVars, registryVars>>

FilesSpec == FilesInit /\ [][FilesNext]_protocolVars

\* The documents, entries, locks and processes of the components have their
\* types.
FilesTypeOK ==
    /\ HomeTypeOK /\ LotTypeOK /\ PersonalTypeOK
    /\ component = "audit" => AuditTypeOK
=============================================================================
