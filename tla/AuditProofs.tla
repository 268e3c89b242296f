------------------------------ MODULE AuditProofs ------------------------------
(***************************************************************************)
(* What holds of the audit scripts for every set of scripts, documents,     *)
(* artifacts and edits (AuditCase), and of the Review Ledger that reads the *)
(* receipts beside them (ReviewLedger).                                     *)
(*                                                                          *)
(* CaseInv: where each script is, what it has read and what is on disk.     *)
(* BundleInv: the copies of an output, between two scripts that may both    *)
(* have found it empty.  Timed: the moments at which what a script has read *)
(* was there.  ReceiptInv: what a recorder has checked stays so.  LedgerInv: *)
(* the moment that the ledger is going to show.                             *)
(***************************************************************************)
EXTENDS ReviewLedger, FiniteSetTheorems, SequenceTheorems, TLAPS

-----------------------------------------------------------------------------
(* What a script has still to do, and what it has read.                       *)

\* What is there of a function with one more value.
LEMMA WithGives ==
  ASSUME NEW f, NEW x, NEW v
  PROVE  /\ DOMAIN With(f, x, v) = DOMAIN f \cup {x} /\ With(f, x, v)[x] = v
         /\ \A y \in DOMAIN f : y # x => With(f, x, v)[y] = f[y]
         /\ With(f, x, v) = [y \in DOMAIN With(f, x, v) |-> With(f, x, v)[y]]
  BY DEF With

\* A finite set in an order: each of its members is in the sequence.
LEMMA SequenceOfSet ==
  ASSUME NEW S, IsFiniteSet(S)
  PROVE  SetToSeq(S) \in Seq(S) /\ Range(SetToSeq(S)) = S
  <1>1. ExistsBijection(1..Cardinality(S), S) /\ Cardinality(S) \in Nat
    BY FS_CardinalityType
  <1>2. PICK f \in Bijection(1..Cardinality(S), S) : TRUE
    BY <1>1 DEF ExistsBijection
  <1>3. f \in [1..Cardinality(S) -> S] /\ IsInjective(f)
    BY <1>2 DEF Bijection, Injection, IsInjective
  <1> DEFINE s == SetToSeq(S)
  <1>4. s \in [1..Cardinality(S) -> S] /\ IsInjective(s)
    BY <1>3 DEF SetToSeq
  <1> HIDE DEF s
  <1>5. s \in Injection(1..Cardinality(S), S)
    BY <1>4 DEF Injection, IsInjective
  <1>6. s \in Surjection(1..Cardinality(S), S)
    BY <1>1, <1>5, FS_Injection, FS_Interval, FS_CountingElements
  <1>7. s \in Seq(S) /\ DOMAIN s = 1..Cardinality(S)
    BY <1>1, <1>4
  <1>8. Range(s) = S
    BY <1>4, <1>6 DEF Surjection, Range
  <1> QED
    BY <1>7, <1>8 DEF s

\* The first of what is left, and the rest.
LEMMA FirstAndRest ==
  ASSUME NEW S, NEW t \in Seq(S), t # <<>>
  PROVE  /\ Head(t) \in S /\ Tail(t) \in Seq(S)
         /\ Range(t) = {Head(t)} \cup Range(Tail(t))
  <1>1. Len(t) \in Nat \ {0} /\ Head(t) = t[1] /\ Head(t) \in S /\ Tail(t) \in Seq(S)
        /\ DOMAIN t = 1..Len(t)
    OBVIOUS
  <1>2. /\ Len(Tail(t)) = Len(t) - 1 /\ \A i \in 1..(Len(t) - 1) : Tail(t)[i] = t[i + 1]
        /\ DOMAIN Tail(t) = 1..(Len(t) - 1)
    BY <1>1
  <1>3. Range(t) \subseteq {Head(t)} \cup Range(Tail(t))
    <2> SUFFICES ASSUME NEW i \in 1..Len(t), i # 1 PROVE t[i] \in Range(Tail(t))
      BY <1>1 DEF Range
    <2>1. i - 1 \in 1..(Len(t) - 1) /\ Tail(t)[i - 1] = t[i]
      BY <1>1, <1>2
    <2> QED
      BY <1>2, <2>1 DEF Range
  <1>4. Range(Tail(t)) \subseteq Range(t)
    <2> SUFFICES ASSUME NEW i \in 1..(Len(t) - 1) PROVE Tail(t)[i] \in Range(t)
      BY <1>2 DEF Range
    <2>1. i + 1 \in 1..Len(t) /\ Tail(t)[i] = t[i + 1]
      BY <1>1, <1>2
    <2> QED
      BY <1>1, <2>1 DEF Range
  <1>5. Head(t) \in Range(t)
    BY <1>1 DEF Range
  <1> QED
    BY <1>1, <1>3, <1>4, <1>5

\* One sequence after another.
LEMMA RangeOfBoth ==
  ASSUME NEW S, NEW s \in Seq(S), NEW t \in Seq(S)
  PROVE  s \o t \in Seq(S) /\ Range(s \o t) = Range(s) \cup Range(t)
  <1>1. /\ s \o t \in Seq(S) /\ Len(s \o t) = Len(s) + Len(t)
        /\ \A i \in 1..Len(s) : (s \o t)[i] = s[i]
        /\ \A i \in 1..Len(t) : (s \o t)[Len(s) + i] = t[i]
    OBVIOUS
  <1>0. DOMAIN (s \o t) = 1..Len(s \o t) /\ DOMAIN s = 1..Len(s) /\ DOMAIN t = 1..Len(t)
    BY <1>1
  <1>2. Range(s \o t) \subseteq Range(s) \cup Range(t)
    <2> SUFFICES ASSUME NEW i \in 1..Len(s \o t) PROVE (s \o t)[i] \in Range(s) \cup Range(t)
      BY <1>0 DEF Range
    <2>1. CASE i \in 1..Len(s)
      BY <1>0, <1>1, <2>1 DEF Range
    <2>2. CASE i \notin 1..Len(s)
      <3>1. i - Len(s) \in 1..Len(t) /\ (s \o t)[i] = t[i - Len(s)]
        BY <1>1, <2>2
      <3> QED
        BY <1>0, <3>1 DEF Range
    <2> QED
      BY <2>1, <2>2
  <1>3. Range(s) \subseteq Range(s \o t)
    BY <1>0, <1>1 DEF Range
  <1>4. Range(t) \subseteq Range(s \o t)
    <2> SUFFICES ASSUME NEW i \in 1..Len(t) PROVE t[i] \in Range(s \o t)
      BY <1>0 DEF Range
    <2>1. Len(s) + i \in 1..Len(s \o t)
      BY <1>1
    <2> QED
      BY <1>0, <1>1, <2>1 DEF Range
  <1> QED
    BY <1>1, <1>2, <1>3, <1>4

\* The documents a phase has still to read when it has come to the k-th.
From(k) == [i \in 1..(6 - k) |-> REQUIRED_FILES[k + i - 1]]

LEMMA TheFiles ==
  /\ CaseFiles = {"scope", "inventory", "actions", "index", "review"}
  /\ REQUIRED_FILES = From(1) /\ REQUIRED_FILES \in Seq(CaseFiles) /\ REQUIRED_FILES # <<>>
  /\ From(6) = <<>>
  /\ \A k \in 1..5 : /\ From(k) \in Seq(CaseFiles) /\ From(k) # <<>>
                     /\ Head(From(k)) = REQUIRED_FILES[k] /\ Tail(From(k)) = From(k + 1)
  <1>1. CaseFiles = {"scope", "inventory", "actions", "index", "review"}
    BY DEF CaseFiles, REQUIRED_FILES
  <1>2. REQUIRED_FILES \in Seq(CaseFiles) /\ Len(REQUIRED_FILES) = 5 /\ REQUIRED_FILES # <<>>
    BY <1>1 DEF REQUIRED_FILES
  <1>3. REQUIRED_FILES = From(1)
    BY <1>2 DEF From, REQUIRED_FILES
  <1>4. From(6) = <<>>
    BY DEF From
  <1>5. ASSUME NEW k \in 1..5
        PROVE  /\ From(k) \in Seq(CaseFiles) /\ From(k) # <<>>
               /\ Head(From(k)) = REQUIRED_FILES[k] /\ Tail(From(k)) = From(k + 1)
    <2>1. \A i \in 1..5 : REQUIRED_FILES[i] \in CaseFiles
      BY <1>2
    <2>2. From(k) \in Seq(CaseFiles) /\ Len(From(k)) = 6 - k
      BY <2>1 DEF From
    <2>3. Head(From(k)) = REQUIRED_FILES[k] /\ From(k) # <<>>
      BY <2>2 DEF From
    <2>4. Tail(From(k)) = From(k + 1)
      <3>1. Tail(From(k)) \in Seq(CaseFiles) /\ Len(Tail(From(k))) = 5 - k
        BY <2>2
      <3>2. From(k + 1) \in Seq(CaseFiles) /\ Len(From(k + 1)) = 5 - k
        BY <2>1 DEF From
      <3>3. \A i \in 1..(5 - k) : Tail(From(k))[i] = From(k)[i + 1]
        BY <2>2
      <3>4. \A i \in 1..(5 - k) : From(k)[i + 1] = From(k + 1)[i]
        BY DEF From
      <3> QED
        BY <3>1, <3>2, <3>3, <3>4, SeqEqual
    <2> QED
      BY <2>2, <2>3, <2>4
  <1> QED
    BY <1>1, <1>2, <1>3, <1>4, <1>5

LEMMA FilesFinite == IsFiniteSet(CaseFiles)
  <1>1. CaseFiles = {"scope"} \cup ({"inventory"} \cup ({"actions"} \cup ({"index"} \cup {"review"})))
    BY TheFiles
  <1>2. \A f : IsFiniteSet({f})
    BY FS_Singleton
  <1>3. IsFiniteSet({"index"} \cup {"review"})
    BY <1>2, FS_Union
  <1>4. IsFiniteSet({"actions"} \cup ({"index"} \cup {"review"}))
    BY <1>2, <1>3, FS_Union
  <1>5. IsFiniteSet({"inventory"} \cup ({"actions"} \cup ({"index"} \cup {"review"})))
    BY <1>2, <1>4, FS_Union
  <1> QED
    BY <1>1, <1>2, <1>5, FS_Union

-----------------------------------------------------------------------------
(* How a script moves.                                                        *)

\* Each script keeps its fields.
Fields == {"at", "todo", "read", "since", "case", "receipt", "written"}
Shaped ==
    /\ clerk = [p \in Clerk |-> clerk[p]]
    /\ \A p \in Clerk : DOMAIN clerk[p] = Fields

\* Only script p moves.
Alone(p) == Shaped' /\ \A q \in Clerk : q # p => clerk'[q] = clerk[q]

\* It takes a step, and remembers what it was asked.
Steps(p, at, todo, read) ==
    /\ clerk'[p].at = at /\ clerk'[p].todo = todo /\ clerk'[p].read = read
    /\ clerk'[p].since = clerk[p].since /\ clerk'[p].case = clerk[p].case
    /\ clerk'[p].receipt = clerk[p].receipt

\* A new value of one script with all the fields leaves the others alone.
LEMMA Turned ==
  ASSUME Shaped, NEW p \in Clerk, NEW c, clerk' = [clerk EXCEPT ![p] = c], DOMAIN c = Fields
  PROVE  Alone(p) /\ clerk'[p] = c
  <1>1. clerk'[p] = c /\ \A q \in Clerk : q # p => clerk'[q] = clerk[q]
    BY DEF Shaped
  <1>2. clerk' = [q \in Clerk |-> clerk'[q]]
    BY <1>1 DEF Shaped
  <1> QED
    BY <1>1, <1>2 DEF Shaped, Alone

\* A script that has not begun.
LEMMA WaitingIs ==
  /\ DOMAIN Waiting = Fields
  /\ Waiting.at = "waiting" /\ Waiting.todo = <<>> /\ Waiting.read = <<>> /\ Waiting.since = 0
  BY DEF Waiting, Fields

LEMMA StopGives ==
  ASSUME Shaped, NEW p \in Clerk, Stop(p)
  PROVE  /\ Alone(p) /\ clerk'[p].at = "stopped" /\ clerk'[p].todo = <<>> /\ clerk'[p].read = <<>>
         /\ clerk'[p].since = 0
  <1> DEFINE c == [Waiting EXCEPT !.at = "stopped"]
  <1>1. /\ DOMAIN c = Fields /\ c.at = "stopped" /\ c.todo = <<>> /\ c.read = <<>> /\ c.since = 0
    BY WaitingIs DEF Fields
  <1>2. clerk' = [clerk EXCEPT ![p] = c]
    BY DEF Stop
  <1> HIDE DEF c
  <1> QED
    BY <1>1, <1>2, Turned

LEMMA MoveGives ==
  ASSUME Shaped, NEW p \in Clerk, NEW phase, NEW todo, MoveTo(p, phase, todo)
  PROVE  /\ Alone(p) /\ Steps(p, phase, todo, With(clerk[p].read, phase, <<>>))
         /\ clerk'[p].written = clerk[p].written
  <1> DEFINE c == clerk[p]
             d == [c EXCEPT !.at = phase, !.todo = todo, !.read = With(@, phase, <<>>)]
  <1>1. clerk' = [clerk EXCEPT ![p] = d]
    BY DEF MoveTo, Shaped
  <1>2. /\ DOMAIN d = Fields /\ d.at = phase /\ d.todo = todo /\ d.read = With(c.read, phase, <<>>)
        /\ d.since = c.since /\ d.case = c.case /\ d.receipt = c.receipt /\ d.written = c.written
    BY DEF Shaped, Fields
  <1> HIDE DEF d
  <1> QED
    BY <1>1, <1>2, Turned DEF Steps

LEMMA ReadGives ==
  ASSUME Shaped, NEW p \in Clerk, NEW phase, Read(p, phase)
  PROVE  /\ Alone(p) /\ Steps(p, phase, REQUIRED_FILES, With(clerk[p].read, phase, <<>>))
         /\ clerk'[p].written = clerk[p].written
  BY MoveGives DEF Read

LEMMA BeginGives ==
  ASSUME Shaped, NEW p \in Clerk, NEW phase, NEW todo, NEW c, NEW r, Begin(p, phase, todo, c, r)
  PROVE  /\ Alone(p) /\ clerk'[p].at = phase /\ clerk'[p].todo = todo
         /\ clerk'[p].read = With(<<>>, phase, <<>>) /\ clerk'[p].since = Len(log)
         /\ clerk'[p].case = c /\ clerk'[p].receipt = r
  <1> DEFINE d == [Waiting EXCEPT !.at = phase, !.todo = todo, !.read = With(<<>>, phase, <<>>),
                                  !.since = Len(log), !.case = c, !.receipt = r]
  <1>1. clerk' = [clerk EXCEPT ![p] = d]
    BY DEF Begin
  <1>2. /\ DOMAIN d = Fields /\ d.at = phase /\ d.todo = todo /\ d.read = With(<<>>, phase, <<>>)
        /\ d.since = Len(log) /\ d.case = c /\ d.receipt = r
    BY WaitingIs DEF Fields
  <1> HIDE DEF d
  <1> QED
    BY <1>1, <1>2, Turned

\* A script whose label alone changes.
LEMMA LabelGives ==
  ASSUME Shaped, NEW p \in Clerk, NEW label, clerk' = [clerk EXCEPT ![p].at = label]
  PROVE  /\ Alone(p) /\ Steps(p, label, clerk[p].todo, clerk[p].read)
         /\ clerk'[p].written = clerk[p].written
  <1> DEFINE c == clerk[p]
             d == [c EXCEPT !.at = label]
  <1>1. clerk' = [clerk EXCEPT ![p] = d]
    BY DEF Shaped
  <1>2. /\ DOMAIN d = Fields /\ d.at = label /\ d.todo = c.todo /\ d.read = c.read
        /\ d.since = c.since /\ d.case = c.case /\ d.receipt = c.receipt /\ d.written = c.written
    BY DEF Shaped, Fields
  <1> HIDE DEF d
  <1> QED
    BY <1>1, <1>2, Turned DEF Steps

\* A script that takes in what lies at the next path.
LEMMA TakesIn ==
  ASSUME Shaped, NEW p \in Clerk, ReadNext(p)
  PROVE  LET c == clerk[p]
             x == Head(c.todo)
             v == Lying(Now, x)
             got == With(Got(p, c.at), x, v)
             cited == IF x = "review" /\ c.at \in WithArtifacts
                      THEN SetToSeq(DOMAIN got["index"].artifacts) ELSE <<>>
         IN  \/ Stop(p)
             \/ /\ x \in CaseFiles => v # Absent /\ (v = Partial => c.at \in Digesting)
                /\ Alone(p) /\ Steps(p, c.at, Tail(c.todo) \o cited, With(c.read, c.at, got))
                /\ clerk'[p].written = c.written
  <1> DEFINE c == clerk[p]
             x == Head(c.todo)
             v == Lying(Now, x)
             got == With(Got(p, c.at), x, v)
             cited == IF x = "review" /\ c.at \in WithArtifacts
                      THEN SetToSeq(DOMAIN got["index"].artifacts) ELSE <<>>
             d == [c EXCEPT !.todo = Tail(@) \o cited, !.read = With(@, c.at, got)]
  <1>1. CASE x \in CaseFiles /\ (v = Absent \/ (v = Partial /\ c.at \notin Digesting))
    BY <1>1 DEF ReadNext
  <1>2. CASE ~(x \in CaseFiles /\ (v = Absent \/ (v = Partial /\ c.at \notin Digesting)))
    <2>1. clerk' = [clerk EXCEPT ![p] = d]
      BY <1>2 DEF ReadNext
    <2>2. /\ DOMAIN d = Fields /\ d.at = c.at /\ d.todo = Tail(c.todo) \o cited
          /\ d.read = With(c.read, c.at, got)
          /\ d.since = c.since /\ d.case = c.case /\ d.receipt = c.receipt /\ d.written = c.written
      BY DEF Shaped, Fields
    <2>3. Alone(p) /\ clerk'[p] = d
      <3> HIDE DEF d
      <3> QED
        BY <2>1, <2>2, Turned
    <2>4. Steps(p, c.at, Tail(c.todo) \o cited, With(c.read, c.at, got)) /\ clerk'[p].written = c.written
      <3> HIDE DEF d, cited, got
      <3> QED
        BY <2>2, <2>3 DEF Steps
    <2> HIDE DEF d, cited, got
    <2> QED
      BY <1>2, <2>3, <2>4 DEF cited, got
  <1> QED
    BY <1>1, <1>2

\* A recorder that has written its receipt.
LEMMA WrittenGives ==
  ASSUME Shaped, NEW p \in Clerk, WriteReceipt(p)
  PROVE  /\ Alone(p) /\ Steps(p, "final", REQUIRED_FILES, With(clerk[p].read, "final", <<>>))
         /\ clerk'[p].written = Len(log)
  <1> DEFINE c == clerk[p]
             d == [c EXCEPT !.at = "final", !.todo = REQUIRED_FILES,
                            !.read = With(@, "final", <<>>), !.written = Len(log)]
  <1>1. clerk' = [clerk EXCEPT ![p] = d]
    BY DEF WriteReceipt
  <1>2. /\ DOMAIN d = Fields /\ d.at = "final" /\ d.todo = REQUIRED_FILES
        /\ d.read = With(c.read, "final", <<>>)
        /\ d.since = c.since /\ d.case = c.case /\ d.receipt = c.receipt /\ d.written = Len(log)
    BY DEF Shaped, Fields
  <1> HIDE DEF d
  <1> QED
    BY <1>1, <1>2, Turned DEF Steps

-----------------------------------------------------------------------------
(* The invariant of the documents and of the scripts.                         *)

\* The documents and the artifacts have their types, and so has every moment;
\* the last one is now.
CaseTyped ==
    /\ documents = [f \in CaseFiles |-> documents[f]]
    /\ \A f \in CaseFiles : documents[f] \in OnDisk(f)
    /\ evidence \in Evidence
    /\ log \in Seq(CaseMoment) /\ log # <<>> /\ log[Len(log)] = Now

\* Where the script that p was asked to run may be.
Stage(p) ==
    LET s == Asked(p).script
        at == clerk[p].at
    IN  \/ at \in {"waiting", "stopped"}
        \/ s = "ensure" /\ at \in {"prepare", "create", "fill", "case", "validate"}
        \/ s = "record" /\ at \in {"validate", "root", "reviewed", "confirm", "receipt", "body",
                                   "final", "recorded", "historical"}
        \/ s = "export" /\ at \in {"validate", "load", "copy", "bundle", "summary", "manifest",
                                   "written"}
        \/ s = "render" /\ at \in {"root", "load", "validate", "confirm", "summary", "manifest",
                                   "written"}
        \/ s = "capture" /\ at \in {"capture", "again", "captured"}

\* What a phase has read of its documents, and what it has still to read.
Reading(p) ==
    LET c == clerk[p]
    IN  /\ c.at \in ReadingPhase \ {"again"} =>
             /\ c.at \in DOMAIN c.read
             /\ \/ \E k \in 1..5 : /\ c.todo = From(k)
                                   /\ DOMAIN c.read[c.at] = {REQUIRED_FILES[j] : j \in 1..(k - 1)}
                \/ /\ c.todo \in Seq(Artifact) /\ CaseFiles \subseteq DOMAIN c.read[c.at]
                   /\ DOMAIN c.read[c.at] \subseteq CaseFiles \cup Artifact
                   /\ c.at \notin WithArtifacts =>
                         c.todo = <<>> /\ DOMAIN c.read[c.at] = CaseFiles
        /\ c.at = "again" =>
             /\ "again" \in DOMAIN c.read /\ c.todo \in Seq(CaseFiles \cup Artifact)
             /\ Found(p) \subseteq DOMAIN c.read["again"] \cup Range(c.todo)

\* The phases that are complete, of those whose result a script still uses.
Complete(p, phase) == phase \in DOMAIN clerk[p].read /\ DOMAIN clerk[p].read[phase] = CaseFiles
HasRead(p) ==
    LET s == Asked(p).script
        at == clerk[p].at
    IN  /\ s = "ensure" /\ at = "validate" => Complete(p, "case")
        /\ s = "record" /\ at \in {"reviewed", "confirm", "receipt", "body", "final", "recorded"} =>
              Complete(p, "root")
        /\ s = "export" /\ at \in {"copy", "bundle", "summary", "manifest"} => Complete(p, "load")
        /\ s = "render" /\ at \in {"load", "validate", "confirm", "summary", "manifest", "written"} =>
              Complete(p, "root")
        /\ s = "render" /\ at \in {"validate", "confirm", "summary", "manifest", "written"} =>
              Complete(p, "load")
        /\ at \in {"again", "captured"} =>
              /\ "capture" \in DOMAIN clerk[p].read
              /\ DOMAIN clerk[p].read["capture"] \subseteq CaseFiles \cup Artifact
        /\ at = "captured" => "again" \in DOMAIN clerk[p].read

\* What it is to create.
Creating(p) ==
    /\ clerk[p].at \in {"prepare", "create", "fill"} => clerk[p].case \in CaseId
    /\ clerk[p].at \in {"create", "fill"} =>
          clerk[p].todo \in Seq(CaseFiles) /\ clerk[p].todo # <<>>

ScriptOK(p) == Stage(p) /\ Reading(p) /\ HasRead(p) /\ Creating(p)

\* What a phase other than a digest has read of a document is a document of the
\* case that the file still has.
Kept(v, f) == v \in Document(f) /\ documents[f] \in Document(f) /\ documents[f].case = v.case
ReadsKept(p) ==
    \A phase \in DOMAIN clerk[p].read \ Digesting : \A f \in DOMAIN clerk[p].read[phase] \cap CaseFiles :
        Kept(clerk[p].read[phase][f], f)

\* A file being filled is there and empty, and only one script fills it.
Filled(p) == clerk[p].at = "fill" => documents[Head(clerk[p].todo)] = Partial
FilledOnce ==
    \A p, q \in Clerk : p # q /\ clerk[p].at = "fill" /\ clerk[q].at = "fill" =>
        Head(clerk[p].todo) # Head(clerk[q].todo)

CaseInv ==
    /\ chosen \in DOMAIN AuditScenarios /\ answered \subseteq CaseId
    /\ Shaped /\ CaseTyped /\ FilledOnce
    /\ \A p \in Clerk : ScriptOK(p) /\ ReadsKept(p) /\ Filled(p)
    /\ OneCase

\* A document read is one of its type.
LEMMA DocumentTyped ==
  /\ \A v \in Document("index") : v.case \in CaseId /\ DOMAIN v.artifacts \subseteq Artifact
                                  /\ \A a \in DOMAIN v.artifacts : v.artifacts[a] \in Content
  /\ \A f \in CaseFiles : \A v \in Document(f) : v.case \in CaseId /\ v # Absent /\ v # Partial
  /\ \A f \in CaseFiles : \A v \in Document(f) : \A c \in CaseId :
        [v EXCEPT !.case = c] \in Document(f) /\ [v EXCEPT !.case = c].case = c
  /\ \A f \in CaseFiles : \A c \in CaseId : DraftOf(f, c) \in Document(f)
  /\ \A f \in CaseFiles : f \notin Artifact
  <1> DEFINE Citations == UNION {[A -> Content] : A \in SUBSET Artifact}
  <1>1. \A g \in Citations : DOMAIN g \subseteq Artifact /\ \A a \in DOMAIN g : g[a] \in Content
    OBVIOUS
  <1>2. <<>> \in Citations
    <2>1. <<>> \in [{} -> Content]
      OBVIOUS
    <2> QED
      BY <2>1
  <1> HIDE DEF Citations
  <1>3. Document("index") = [case : CaseId, artifacts : Citations]
    BY DEF Document, Citations
  <1>4. Document("review") = [case : CaseId, refs : SUBSET Artifact, ready : BOOLEAN, requested : BOOLEAN]
    BY DEF Document
  <1>5. \A f \in CaseFiles \ {"index", "review"} :
           Document(f) = [case : CaseId, refs : SUBSET Artifact, ready : BOOLEAN]
    BY DEF Document
  <1>6. ASSUME NEW v \in Document("index"), NEW c \in CaseId
        PROVE  /\ v.case \in CaseId /\ DOMAIN v.artifacts \subseteq Artifact
               /\ \A a \in DOMAIN v.artifacts : v.artifacts[a] \in Content
               /\ [v EXCEPT !.case = c] \in Document("index") /\ [v EXCEPT !.case = c].case = c
    <2>1. v \in [case : CaseId, artifacts : Citations]
      BY <1>3
    <2>2. v.case \in CaseId /\ v.artifacts \in Citations
      BY <2>1
    <2>3. [v EXCEPT !.case = c] \in [case : CaseId, artifacts : Citations] /\ [v EXCEPT !.case = c].case = c
      BY <2>1
    <2> QED
      BY <1>1, <1>3, <2>2, <2>3
  <1>7. ASSUME NEW v \in Document("review"), NEW c \in CaseId
        PROVE  /\ v.case \in CaseId
               /\ [v EXCEPT !.case = c] \in Document("review") /\ [v EXCEPT !.case = c].case = c
    <2> DEFINE Reviews == [case : CaseId, refs : SUBSET Artifact, ready : BOOLEAN, requested : BOOLEAN]
    <2>1. v \in Reviews
      BY <1>4
    <2>2. v.case \in CaseId /\ [v EXCEPT !.case = c] \in Reviews /\ [v EXCEPT !.case = c].case = c
      BY <2>1
    <2> QED
      BY <1>4, <2>2
  <1>8. ASSUME NEW f \in CaseFiles \ {"index", "review"}, NEW v \in Document(f), NEW c \in CaseId
        PROVE  /\ v.case \in CaseId
               /\ [v EXCEPT !.case = c] \in Document(f) /\ [v EXCEPT !.case = c].case = c
    <2> DEFINE Others == [case : CaseId, refs : SUBSET Artifact, ready : BOOLEAN]
    <2>1. v \in Others
      BY <1>5
    <2>2. v.case \in CaseId /\ [v EXCEPT !.case = c] \in Others /\ [v EXCEPT !.case = c].case = c
      BY <2>1
    <2> QED
      BY <1>5, <2>2
  <1>9. ASSUME NEW f \in CaseFiles, NEW c \in CaseId PROVE DraftOf(f, c) \in Document(f)
    <2>1. CASE f = "index"
      BY <1>2, <1>3, <2>1 DEF DraftOf
    <2>2. CASE f = "review"
      BY <1>4, <2>2 DEF DraftOf
    <2>3. CASE f \notin {"index", "review"}
      BY <1>5, <2>3 DEF DraftOf
    <2> QED
      BY <2>1, <2>2, <2>3
  <1>10. \A f \in CaseFiles : \A v \in Document(f) : \A c \in CaseId :
           /\ v.case \in CaseId
           /\ [v EXCEPT !.case = c] \in Document(f) /\ [v EXCEPT !.case = c].case = c
    BY <1>6, <1>7, <1>8
  <1>12. \A v \in Document("index") : v.case \in CaseId
    <2> SUFFICES ASSUME NEW v \in Document("index") PROVE v.case \in CaseId
      OBVIOUS
    <2>1. v \in [case : CaseId, artifacts : Citations]
      BY <1>3
    <2> QED
      BY <2>1
  <1>13. \A f \in CaseFiles : \A v \in Document(f) : v.case \in CaseId
    <2> SUFFICES ASSUME NEW f \in CaseFiles, NEW v \in Document(f) PROVE v.case \in CaseId
      OBVIOUS
    <2>1. CASE f = "review"
      <3>1. v \in [case : CaseId, refs : SUBSET Artifact, ready : BOOLEAN, requested : BOOLEAN]
        BY <1>4, <2>1
      <3> QED
        BY <3>1
    <2>2. CASE f \notin {"index", "review"}
      <3>1. v \in [case : CaseId, refs : SUBSET Artifact, ready : BOOLEAN]
        BY <1>5, <2>2
      <3> QED
        BY <3>1
    <2> QED
      BY <1>12, <2>1, <2>2
  <1>14. \A v \in Document("index") : DOMAIN v.artifacts \subseteq Artifact
                                  /\ \A a \in DOMAIN v.artifacts : v.artifacts[a] \in Content
    <2> SUFFICES ASSUME NEW v \in Document("index")
                 PROVE  DOMAIN v.artifacts \subseteq Artifact
                        /\ \A a \in DOMAIN v.artifacts : v.artifacts[a] \in Content
      OBVIOUS
    <2> QED
      BY <1>6, <1>12
  <1>15. \A f \in CaseFiles : \A v \in Document(f) : v # Absent /\ v # Partial
    BY CaseAssumption
  <1>16. \A f \in CaseFiles : f \notin Artifact
    BY CaseAssumption
  <1> QED
    BY <1>9, <1>10, <1>12, <1>13, <1>14, <1>15, <1>16

-----------------------------------------------------------------------------
(* Every step of a script leaves it in order.                                 *)

\* A phase that has read nothing yet.
Fresh(p) ==
    /\ clerk[p].at \in ReadingPhase \ {"again"} /\ clerk[p].todo = REQUIRED_FILES
    /\ clerk[p].at \in DOMAIN clerk[p].read /\ clerk[p].read[clerk[p].at] = <<>>

FreshRead == \A q \in Clerk : Fresh(q) => Reading(q)

LEMMA AtStart == FreshRead
  <1> SUFFICES ASSUME NEW p \in Clerk, clerk[p].at \in ReadingPhase \ {"again"},
                      clerk[p].todo = REQUIRED_FILES, clerk[p].at \in DOMAIN clerk[p].read,
                      clerk[p].read[clerk[p].at] = <<>>
               PROVE  Reading(p)
    BY DEF Fresh, FreshRead
  <1>1. {REQUIRED_FILES[j] : j \in 1..(1 - 1)} = {}
    OBVIOUS
  <1>2. DOMAIN clerk[p].read[clerk[p].at] = {}
    OBVIOUS
  <1>3. clerk[p].todo = From(1)
    BY TheFiles
  <1> QED
    BY <1>1, <1>2, <1>3 DEF Reading

\* A phase that has read everything.
LEMMA PhaseComplete ==
  ASSUME NEW p \in Clerk, Reading(p), clerk[p].at \in ReadingPhase \ {"again"}, clerk[p].todo = <<>>
  PROVE  /\ clerk[p].at \in DOMAIN clerk[p].read
         /\ CaseFiles \subseteq DOMAIN clerk[p].read[clerk[p].at]
         /\ DOMAIN clerk[p].read[clerk[p].at] \subseteq CaseFiles \cup Artifact
         /\ clerk[p].at \notin WithArtifacts => Complete(p, clerk[p].at)
  <1>1. \A k \in 1..5 : clerk[p].todo # From(k)
    BY TheFiles
  <1> QED
    BY <1>1 DEF Reading, Complete

\* What is complete stays so when another phase begins.
LEMMA StaysComplete ==
  ASSUME NEW p \in Clerk, NEW phase, NEW x, clerk'[p].read = With(clerk[p].read, phase, x),
         NEW other, other # phase, Complete(p, other)
  PROVE  Complete(p, other)'
  <1>1. /\ other \in DOMAIN With(clerk[p].read, phase, x)
        /\ With(clerk[p].read, phase, x)[other] = clerk[p].read[other]
    <2>1. other \in DOMAIN clerk[p].read
      BY DEF Complete
    <2> QED
      BY <2>1 DEF With
  <1> QED
    BY <1>1 DEF Complete

\* No script is asked for something else.
LEMMA AskedKept ==
  ASSUME NEW p \in Clerk, ScriptStep(p)
  PROVE  chosen' = chosen /\ \A q \in Clerk : Asked(q)' = Asked(q)
  <1>1. chosen' = chosen
    BY DEF ScriptStep, ReadNext, CrashClerk, AskEnsure, PrepareCase, CreateDocument, WriteDocument,
       CheckCase, AnswerEnsure, AskRecord, TakeRoot, CheckReceipt, CheckReviewed, ConfirmRoot,
       CreateReceipt, WriteReceipt, AnswerRecord, AskExport, LoadReady, PrepareOutput, CopyNext,
       CheckBundle, WriteSummary, WriteManifest, AskRender, RenderReads, AskCapture, CaptureAgain,
       AnswerCapture, theRest
  <1> QED
    BY <1>1 DEF Asked, scenario, Planned

\* The phases of a script, of one kind or another.
LEMMA Phases ==
  /\ ReadingPhase = {"case", "load", "again", "root", "confirm", "final", "validate", "capture"}
  /\ WithArtifacts = {"validate", "capture"} /\ Digesting = {"root", "confirm", "final"}
  BY DEF ReadingPhase, WithArtifacts, Digesting

LEMMA StoppedOK ==
  \A p \in Clerk : clerk[p].at = "stopped" => ScriptOK(p)
  <1> SUFFICES ASSUME NEW p \in Clerk, clerk[p].at = "stopped" PROVE ScriptOK(p)
    OBVIOUS
  <1>1. Reading(p)
    BY Phases DEF Reading
  <1>2. HasRead(p)
    BY DEF HasRead
  <1> QED
    BY <1>1, <1>2 DEF ScriptOK, Stage, Creating

\* The request of a script is one of a scenario.
LEMMA RequestOf ==
  ASSUME chosen \in DOMAIN AuditScenarios, NEW p \in Clerk
  PROVE  WellRun(Asked(p)) /\ scenario.touches \in Nat /\ scenario.crashes \in Nat
  BY AuditAssumption DEF WellFormed, Asked, scenario, Planned

\* A script that has just begun a phase in which it reads the documents.
LEMMA BeginsReading ==
  ASSUME NEW p \in Clerk, NEW phase \in ReadingPhase \ {"again"}, NEW read,
         clerk'[p].at = phase, clerk'[p].todo = REQUIRED_FILES,
         clerk'[p].read = With(read, phase, <<>>)
  PROVE  Reading(p)' /\ Creating(p)'
  <1>1. phase \in DOMAIN clerk'[p].read /\ clerk'[p].read[phase] = <<>>
    BY DEF With
  <1>2. FreshRead'
    BY AtStart, PTL
  <1>3. Reading(p)'
    BY <1>1, <1>2 DEF Fresh, FreshRead
  <1> QED
    BY <1>3, Phases DEF Creating

\* A script that is told to stop stops in order.
LEMMA Stops ==
  ASSUME Shaped, NEW p \in Clerk, Stop(p)
  PROVE  Alone(p) /\ ScriptOK(p)' /\ clerk'[p].at = "stopped" /\ clerk'[p].read = <<>>
  <1>1. Alone(p) /\ clerk'[p].at = "stopped" /\ clerk'[p].todo = <<>> /\ clerk'[p].read = <<>>
    BY StopGives
  <1>2. Reading(p)'
    BY <1>1, Phases DEF Reading
  <1>3. HasRead(p)'
    BY <1>1 DEF HasRead
  <1> QED
    BY <1>1, <1>2, <1>3 DEF ScriptOK, Stage, Creating

\* The steps of ensureAuditWorkspace.
LEMMA EnsureInOrder ==
  ASSUME CaseInv, NEW p \in Clerk, ScriptStep(p),
         \/ AskEnsure(p) \/ PrepareCase(p) \/ CreateDocument(p) \/ WriteDocument(p)
         \/ CheckCase(p) \/ AnswerEnsure(p)
  PROVE  Alone(p) /\ ScriptOK(p)'
  <1>0. /\ Shaped /\ chosen \in DOMAIN AuditScenarios
        /\ Stage(p) /\ Reading(p) /\ HasRead(p) /\ Creating(p)
        /\ Asked(p)' = Asked(p) /\ WellRun(Asked(p)) /\ Clerk \subseteq CaseId
    BY AskedKept, RequestOf, AuditAssumption DEF CaseInv, ScriptOK
  <1>1. CASE Stop(p)
    BY <1>0, <1>1, Stops
  <1>2. ASSUME AskEnsure(p), ~Stop(p) PROVE Alone(p) /\ ScriptOK(p)'
    <2>1. Asked(p).script = "ensure" /\ Asked(p).case \in CaseId \cup {Absent}
      BY <1>0, <1>2 DEF AskEnsure, Reached, WellRun
    <2>2. CASE caseDir
      <3>1. Begin(p, "case", REQUIRED_FILES, Asked(p).case, Absent)
        BY <1>2, <2>2 DEF AskEnsure
      <3>2. Alone(p) /\ clerk'[p].at = "case" /\ clerk'[p].todo = REQUIRED_FILES
            /\ clerk'[p].read = With(<<>>, "case", <<>>)
        BY <1>0, <3>1, BeginGives
      <3>3. Reading(p)' /\ Creating(p)'
        BY <3>2, BeginsReading, Phases
      <3> QED
        BY <1>0, <2>1, <3>2, <3>3 DEF ScriptOK, Stage, HasRead
    <2>3. CASE ~caseDir
      <3> DEFINE c == IF Asked(p).case = Absent THEN p ELSE Asked(p).case
      <3>1. Begin(p, "prepare", <<>>, c, Absent) /\ c \in CaseId
        BY <1>0, <1>2, <2>1, <2>3 DEF AskEnsure
      <3> HIDE DEF c
      <3>2. Alone(p) /\ clerk'[p].at = "prepare" /\ clerk'[p].case = c
        BY <1>0, <3>1, BeginGives
      <3> QED
        BY <1>0, <2>1, <3>1, <3>2, Phases DEF ScriptOK, Stage, HasRead, Creating, Reading
    <2> QED
      BY <2>2, <2>3
  <1>3. ASSUME PrepareCase(p), ~Stop(p) PROVE Alone(p) /\ ScriptOK(p)'
    <2>1. MoveTo(p, "create", REQUIRED_FILES) /\ clerk[p].at = "prepare" /\ Asked(p).script = "ensure"
      BY <1>3 DEF PrepareCase, Reached
    <2>2. Alone(p) /\ Steps(p, "create", REQUIRED_FILES, With(clerk[p].read, "create", <<>>))
      BY <1>0, <2>1, MoveGives
    <2>3. Creating(p)'
      BY <1>0, <2>1, <2>2, TheFiles DEF Creating, Steps
    <2> QED
      BY <1>0, <2>1, <2>2, <2>3, Phases DEF ScriptOK, Stage, HasRead, Reading, Steps
  <1>4. ASSUME CreateDocument(p), ~Stop(p) PROVE Alone(p) /\ ScriptOK(p)'
    <2>1. clerk' = [clerk EXCEPT ![p].at = "fill"] /\ clerk[p].at = "create"
      BY <1>4 DEF CreateDocument
    <2>2. Alone(p) /\ Steps(p, "fill", clerk[p].todo, clerk[p].read)
      BY <1>0, <2>1, LabelGives
    <2>3. Creating(p)'
      BY <1>0, <2>1, <2>2 DEF Creating, Steps
    <2> QED
      BY <1>0, <2>1, <2>2, <2>3, Phases DEF ScriptOK, Stage, HasRead, Reading, Steps
  <1>5. ASSUME WriteDocument(p) PROVE Alone(p) /\ ScriptOK(p)'
    <2>0. /\ clerk[p].at = "fill" /\ Asked(p).script = "ensure" /\ clerk[p].case \in CaseId
          /\ clerk[p].todo \in Seq(CaseFiles) /\ clerk[p].todo # <<>>
      BY <1>0, <1>5 DEF WriteDocument, Stage, Creating
    <2>1. CASE Tail(clerk[p].todo) = <<>>
      <3>1. Read(p, "case")
        BY <1>5, <2>1 DEF WriteDocument
      <3>2. Alone(p) /\ Steps(p, "case", REQUIRED_FILES, With(clerk[p].read, "case", <<>>))
        BY <1>0, <3>1, ReadGives
      <3>3. Reading(p)' /\ Creating(p)'
        BY <3>2, BeginsReading, Phases DEF Steps
      <3> QED
        BY <1>0, <2>0, <3>2, <3>3 DEF ScriptOK, Stage, HasRead, Steps
    <2>2. CASE Tail(clerk[p].todo) # <<>>
      <3>1. MoveTo(p, "create", Tail(clerk[p].todo))
        BY <1>5, <2>2 DEF WriteDocument
      <3>2. Alone(p) /\ Steps(p, "create", Tail(clerk[p].todo), With(clerk[p].read, "create", <<>>))
        BY <1>0, <3>1, MoveGives
      <3>3. Tail(clerk[p].todo) \in Seq(CaseFiles)
        BY <2>0, FirstAndRest
      <3>4. Creating(p)'
        BY <2>0, <2>2, <3>2, <3>3 DEF Creating, Steps
      <3> QED
        BY <1>0, <2>0, <3>2, <3>4, Phases DEF ScriptOK, Stage, HasRead, Reading, Steps
    <2> QED
      BY <2>1, <2>2
  <1>6. ASSUME CheckCase(p), ~Stop(p) PROVE Alone(p) /\ ScriptOK(p)'
    <2>1. Read(p, "validate") /\ clerk[p].at = "case" /\ clerk[p].todo = <<>> /\ Asked(p).script = "ensure"
      BY <1>6 DEF CheckCase, Require, Reached
    <2>2. Alone(p) /\ Steps(p, "validate", REQUIRED_FILES, With(clerk[p].read, "validate", <<>>))
      BY <1>0, <2>1, ReadGives
    <2>3. Reading(p)' /\ Creating(p)'
      BY <2>2, BeginsReading, Phases DEF Steps
    <2>4. Complete(p, "case")
      BY <1>0, <2>1, PhaseComplete, Phases
    <2>5. Complete(p, "case")'
      BY <2>2, <2>4, StaysComplete DEF Steps
    <2> QED
      BY <1>0, <2>1, <2>2, <2>3, <2>5 DEF ScriptOK, Stage, HasRead, Steps
  <1>7. AnswerEnsure(p) => Stop(p)
    BY DEF AnswerEnsure
  <1> QED
    BY <1>1, <1>2, <1>3, <1>4, <1>5, <1>6, <1>7

\* The steps of recordAuditReviewReceipt.
LEMMA RecordInOrder ==
  ASSUME CaseInv, NEW p \in Clerk, ScriptStep(p),
         \/ AskRecord(p) \/ TakeRoot(p) \/ CheckReceipt(p) \/ CheckReviewed(p) \/ ConfirmRoot(p)
         \/ CreateReceipt(p) \/ WriteReceipt(p) \/ AnswerRecord(p)
  PROVE  Alone(p) /\ ScriptOK(p)'
  <1>0. /\ Shaped /\ Stage(p) /\ Reading(p) /\ HasRead(p) /\ Asked(p)' = Asked(p)
    BY AskedKept DEF CaseInv, ScriptOK
  <1>1. CASE Stop(p)
    BY <1>0, <1>1, Stops
  <1>2. ASSUME AskRecord(p) PROVE Alone(p) /\ ScriptOK(p)'
    <2>1. Asked(p).script = "record"
      BY <1>2 DEF AskRecord, Reached
    <2>2. PICK r : Begin(p, "validate", REQUIRED_FILES, Absent, r)
      BY <1>2 DEF AskRecord
    <2>3. Alone(p) /\ clerk'[p].at = "validate" /\ clerk'[p].todo = REQUIRED_FILES
          /\ clerk'[p].read = With(<<>>, "validate", <<>>)
      BY <1>0, <2>2, BeginGives
    <2>4. Reading(p)' /\ Creating(p)'
      BY <2>3, BeginsReading, Phases
    <2> QED
      BY <1>0, <2>1, <2>3, <2>4 DEF ScriptOK, Stage, HasRead
  <1>3. ASSUME TakeRoot(p), ~Stop(p) PROVE Alone(p) /\ ScriptOK(p)'
    <2>1. Read(p, "root") /\ Asked(p).script = "record"
      BY <1>3 DEF TakeRoot, Require, Reached
    <2>2. Alone(p) /\ Steps(p, "root", REQUIRED_FILES, With(clerk[p].read, "root", <<>>))
      BY <1>0, <2>1, ReadGives
    <2>3. Reading(p)' /\ Creating(p)'
      BY <2>2, BeginsReading, Phases DEF Steps
    <2> QED
      BY <1>0, <2>1, <2>2, <2>3 DEF ScriptOK, Stage, HasRead, Steps
  \* The root stays read while the receipts and the documents are read again.
  <1>4. ASSUME Asked(p).script = "record", Complete(p, "root"),
               \/ Read(p, "confirm")
               \/ \E todo : MoveTo(p, "reviewed", todo)
               \/ MoveTo(p, "receipt", <<>>) \/ MoveTo(p, "body", <<>>)
        PROVE  Alone(p) /\ ScriptOK(p)'
    <2>1. CASE Read(p, "confirm")
      <3>1. Alone(p) /\ Steps(p, "confirm", REQUIRED_FILES, With(clerk[p].read, "confirm", <<>>))
        BY <1>0, <2>1, ReadGives
      <3>2. Reading(p)' /\ Creating(p)'
        BY <3>1, BeginsReading, Phases DEF Steps
      <3>3. Complete(p, "root")'
        BY <1>4, <3>1, StaysComplete DEF Steps
      <3> QED
        BY <1>0, <1>4, <3>1, <3>2, <3>3 DEF ScriptOK, Stage, HasRead, Steps
    <2>2. ASSUME NEW phase \in {"reviewed", "receipt", "body"}, NEW todo, MoveTo(p, phase, todo)
          PROVE  Alone(p) /\ ScriptOK(p)'
      <3>1. Alone(p) /\ Steps(p, phase, todo, With(clerk[p].read, phase, <<>>))
        BY <1>0, <2>2, MoveGives
      <3>2. Complete(p, "root")'
        BY <1>4, <3>1, StaysComplete DEF Steps
      <3>3. Reading(p)' /\ Creating(p)'
        BY <3>1, Phases DEF Reading, Creating, Steps
      <3> QED
        BY <1>0, <1>4, <3>1, <3>2, <3>3 DEF ScriptOK, Stage, HasRead, Steps
    <2> QED
      BY <1>4, <2>1, <2>2
  <1>5. ASSUME CheckReceipt(p), ~Stop(p) PROVE Alone(p) /\ ScriptOK(p)'
    <2>1. clerk[p].at = "root" /\ clerk[p].todo = <<>> /\ Asked(p).script = "record"
      BY <1>5 DEF CheckReceipt, Reached
    <2>2. Complete(p, "root")
      BY <1>0, <2>1, PhaseComplete, Phases
    <2>3. Read(p, "confirm") \/ \E todo : MoveTo(p, "reviewed", todo)
      BY <1>5 DEF CheckReceipt, Require
    <2> QED
      BY <1>4, <2>1, <2>2, <2>3
  <1>6. ASSUME CheckReviewed(p), ~Stop(p) PROVE Alone(p) /\ ScriptOK(p)'
    <2>1. Asked(p).script = "record" /\ Complete(p, "root")
      BY <1>0, <1>6 DEF CheckReviewed, Stage, HasRead
    <2>2. Read(p, "confirm") \/ \E todo : MoveTo(p, "reviewed", todo)
      BY <1>6 DEF CheckReviewed, Require
    <2> QED
      BY <1>4, <2>1, <2>2
  <1>7. ASSUME ConfirmRoot(p) \/ CreateReceipt(p), ~Stop(p) PROVE Alone(p) /\ ScriptOK(p)'
    <2>1. Asked(p).script = "record" /\ Complete(p, "root")
      BY <1>0, <1>7 DEF ConfirmRoot, CreateReceipt, Reached, HasRead
    <2>2. MoveTo(p, "receipt", <<>>) \/ MoveTo(p, "body", <<>>)
      BY <1>7 DEF ConfirmRoot, CreateReceipt, Require
    <2> QED
      BY <1>4, <2>1, <2>2
  <1>8. ASSUME WriteReceipt(p) PROVE Alone(p) /\ ScriptOK(p)'
    <2>1. Asked(p).script = "record" /\ Complete(p, "root")
      BY <1>0, <1>8 DEF WriteReceipt, Reached, HasRead
    <2>2. Alone(p) /\ Steps(p, "final", REQUIRED_FILES, With(clerk[p].read, "final", <<>>))
      BY <1>0, <1>8, WrittenGives
    <2>3. Reading(p)' /\ Creating(p)'
      BY <2>2, BeginsReading, Phases DEF Steps
    <2>4. Complete(p, "root")'
      BY <2>1, <2>2, StaysComplete DEF Steps
    <2> QED
      BY <1>0, <2>1, <2>2, <2>3, <2>4 DEF ScriptOK, Stage, HasRead, Steps
  <1>9. ASSUME AnswerRecord(p) PROVE Alone(p) /\ ScriptOK(p)'
    <2>1. Asked(p).script = "record" /\ Complete(p, "root")
      BY <1>0, <1>9 DEF AnswerRecord, Reached, HasRead
    <2> DEFINE label == IF Recorded(p) THEN "recorded" ELSE "historical"
    <2>2. clerk' = [clerk EXCEPT ![p].at = label] /\ label \in {"recorded", "historical"}
      BY <1>9 DEF AnswerRecord
    <2> HIDE DEF label
    <2>3. Alone(p) /\ Steps(p, label, clerk[p].todo, clerk[p].read)
      BY <1>0, <2>2, LabelGives
    <2>4. Complete(p, "root")'
      BY <2>1, <2>3 DEF Complete, Steps
    <2>5. Reading(p)' /\ Creating(p)'
      BY <2>2, <2>3, Phases DEF Reading, Creating, Steps
    <2> QED
      BY <1>0, <2>1, <2>2, <2>3, <2>4, <2>5 DEF ScriptOK, Stage, HasRead, Steps
  <1> QED
    BY <1>1, <1>2, <1>3, <1>5, <1>6, <1>7, <1>8, <1>9

\* The steps of exportAuditBundle and renderAuditSummary.
LEMMA BundleInOrder ==
  ASSUME CaseInv, NEW p \in Clerk, ScriptStep(p),
         \/ AskExport(p) \/ LoadReady(p) \/ PrepareOutput(p) \/ CopyNext(p) \/ CheckBundle(p)
         \/ WriteSummary(p) \/ WriteManifest(p) \/ AskRender(p) \/ RenderReads(p)
  PROVE  Alone(p) /\ ScriptOK(p)'
  <1>0. /\ Shaped /\ Stage(p) /\ Reading(p) /\ HasRead(p) /\ Asked(p)' = Asked(p)
    BY AskedKept DEF CaseInv, ScriptOK
  <1>1. CASE Stop(p)
    BY <1>0, <1>1, Stops
  <1>2. ASSUME AskExport(p) \/ AskRender(p) PROVE Alone(p) /\ ScriptOK(p)'
    <2>1. PICK phase \in {"validate", "root"} :
            /\ Begin(p, phase, REQUIRED_FILES, Absent, Absent)
            /\ \/ Asked(p).script = "export" /\ phase = "validate"
               \/ Asked(p).script = "render" /\ phase = "root"
      BY <1>2 DEF AskExport, AskRender, Reached
    <2>2. Alone(p) /\ clerk'[p].at = phase /\ clerk'[p].todo = REQUIRED_FILES
          /\ clerk'[p].read = With(<<>>, phase, <<>>)
      BY <1>0, <2>1, BeginGives
    <2>3. Reading(p)' /\ Creating(p)'
      BY <2>2, BeginsReading, Phases
    <2> QED
      BY <1>0, <2>1, <2>2, <2>3 DEF ScriptOK, Stage, HasRead
  <1>3. ASSUME LoadReady(p), ~Stop(p) PROVE Alone(p) /\ ScriptOK(p)'
    <2>1. Read(p, "load") /\ Asked(p).script = "export"
      BY <1>3 DEF LoadReady, Require, Reached
    <2>2. Alone(p) /\ Steps(p, "load", REQUIRED_FILES, With(clerk[p].read, "load", <<>>))
      BY <1>0, <2>1, ReadGives
    <2>3. Reading(p)' /\ Creating(p)'
      BY <2>2, BeginsReading, Phases DEF Steps
    <2> QED
      BY <1>0, <2>1, <2>2, <2>3 DEF ScriptOK, Stage, HasRead, Steps
  <1>4. ASSUME Asked(p).script = "render", RenderReads(p), ~Stop(p) PROVE Alone(p) /\ ScriptOK(p)'
    <2>1. PICK phase \in {"load", "validate", "confirm"} :
            /\ Read(p, phase) /\ clerk[p].todo = <<>>
            /\ \/ clerk[p].at = "root" /\ phase = "load"
               \/ clerk[p].at = "load" /\ phase = "validate"
               \/ clerk[p].at = "validate" /\ phase = "confirm"
      BY <1>4 DEF RenderReads, Reached, Require
    <2>2. Alone(p) /\ Steps(p, phase, REQUIRED_FILES, With(clerk[p].read, phase, <<>>))
      BY <1>0, <2>1, ReadGives
    <2>3. Reading(p)' /\ Creating(p)'
      BY <2>2, BeginsReading, Phases DEF Steps
    <2>4. Complete(p, "root") /\ (phase # "load" => Complete(p, "load"))
      <3>1. clerk[p].at \in {"root", "load"} => Complete(p, clerk[p].at)
        BY <1>0, <2>1, PhaseComplete, Phases
      <3> QED
        BY <1>0, <1>4, <2>1, <3>1 DEF HasRead
    <2>5. Complete(p, "root")' /\ (phase # "load" => Complete(p, "load")')
      BY <2>1, <2>2, <2>4, StaysComplete DEF Steps
    <2> QED
      BY <1>0, <1>4, <2>1, <2>2, <2>3, <2>5 DEF ScriptOK, Stage, HasRead, Steps
  <1>5. RenderReads(p) => Asked(p).script = "render"
    BY DEF RenderReads, Reached
  \* What is read stays complete while the bundle is written.
  <1>6. ASSUME NEW phase \in {"copy", "bundle", "summary", "manifest"}, NEW todo, MoveTo(p, phase, todo),
               \/ Asked(p).script = "export" /\ Complete(p, "load")
               \/ Asked(p).script = "render" /\ Complete(p, "load") /\ Complete(p, "root")
                  /\ phase \in {"summary", "manifest"}
        PROVE  Alone(p) /\ ScriptOK(p)'
    <2>1. Alone(p) /\ Steps(p, phase, todo, With(clerk[p].read, phase, <<>>))
      BY <1>0, <1>6, MoveGives
    <2>2. Complete(p, "load")' /\ (Asked(p).script = "render" => Complete(p, "root")')
      BY <1>6, <2>1, StaysComplete DEF Steps
    <2>3. Reading(p)' /\ Creating(p)'
      BY <2>1, Phases DEF Reading, Creating, Steps
    <2> QED
      BY <1>0, <1>6, <2>1, <2>2, <2>3 DEF ScriptOK, Stage, HasRead, Steps
  <1>7. ASSUME PrepareOutput(p), ~Stop(p) PROVE Alone(p) /\ ScriptOK(p)'
    <2>1. CASE clerk[p].at = "load" /\ clerk[p].todo = <<>> /\ Asked(p).script = "export"
      <3>1. MoveTo(p, "copy", Listed(p))
        BY <1>7, <2>1 DEF PrepareOutput, Reached, Require
      <3>2. Complete(p, "load")
        BY <1>0, <2>1, PhaseComplete, Phases
      <3> QED
        BY <1>6, <2>1, <3>1, <3>2
    <2>2. CASE clerk[p].at = "confirm" /\ Asked(p).script = "render"
      <3>1. MoveTo(p, "summary", <<>>)
        BY <1>7, <2>2 DEF PrepareOutput, Reached, Require
      <3>2. Complete(p, "load") /\ Complete(p, "root")
        BY <1>0, <2>2 DEF HasRead
      <3> QED
        BY <1>6, <2>2, <3>1, <3>2
    <2> QED
      BY <1>7, <2>1, <2>2 DEF PrepareOutput, Reached
  <1>8. ASSUME CopyNext(p) \/ CheckBundle(p), ~Stop(p) PROVE Alone(p) /\ ScriptOK(p)'
    <2>1. Asked(p).script = "export" /\ Complete(p, "load")
      BY <1>0, <1>8 DEF CopyNext, CheckBundle, Reached, Stage, HasRead
    <2>2. \E phase \in {"copy", "bundle", "summary", "manifest"} : \E todo : MoveTo(p, phase, todo)
      <3>1. CASE CopyNext(p)
        <4> DEFINE phase == IF Tail(clerk[p].todo) = <<>> THEN "bundle" ELSE "copy"
        <4>1. MoveTo(p, phase, Tail(clerk[p].todo)) /\ phase \in {"copy", "bundle"}
          BY <1>8, <3>1 DEF CopyNext
        <4> QED
          BY <4>1
      <3>2. CASE CheckBundle(p)
        BY <1>8, <3>2 DEF CheckBundle, Require
      <3> QED
        BY <1>8, <3>1, <3>2
    <2> QED
      BY <1>6, <2>1, <2>2
  <1>9. ASSUME WriteSummary(p), ~Stop(p) PROVE Alone(p) /\ ScriptOK(p)'
    <2>1. MoveTo(p, "manifest", <<>>)
      BY <1>9 DEF WriteSummary
    <2>2. \/ Asked(p).script = "export" /\ Complete(p, "load")
          \/ Asked(p).script = "render" /\ Complete(p, "load") /\ Complete(p, "root")
      BY <1>0, <1>9 DEF WriteSummary, Stage, HasRead
    <2> QED
      BY <1>6, <2>1, <2>2
  <1>10. ASSUME WriteManifest(p), ~Stop(p) PROVE Alone(p) /\ ScriptOK(p)'
    <2>1. clerk' = [clerk EXCEPT ![p].at = "written"] /\ clerk[p].at = "manifest"
      BY <1>10 DEF WriteManifest
    <2>2. \/ Asked(p).script = "export"
          \/ Asked(p).script = "render" /\ Complete(p, "load") /\ Complete(p, "root")
      BY <1>0, <2>1 DEF Stage, HasRead
    <2>3. Alone(p) /\ Steps(p, "written", clerk[p].todo, clerk[p].read)
      BY <1>0, <2>1, LabelGives
    <2>4. Asked(p).script = "render" => Complete(p, "load")' /\ Complete(p, "root")'
      BY <2>2, <2>3 DEF Complete, Steps
    <2>5. Reading(p)' /\ Creating(p)'
      BY <2>3, Phases DEF Reading, Creating, Steps
    <2> QED
      BY <1>0, <2>2, <2>3, <2>4, <2>5 DEF ScriptOK, Stage, HasRead, Steps
  <1> QED
    BY <1>1, <1>2, <1>3, <1>4, <1>5, <1>7, <1>8, <1>9, <1>10

\* The steps of captureWorkspaceSnapshot.
LEMMA CaptureInOrder ==
  ASSUME CaseInv, NEW p \in Clerk, ScriptStep(p), AskCapture(p) \/ CaptureAgain(p) \/ AnswerCapture(p)
  PROVE  Alone(p) /\ ScriptOK(p)'
  <1>0. /\ Shaped /\ Stage(p) /\ Reading(p) /\ HasRead(p) /\ Asked(p)' = Asked(p)
    BY AskedKept DEF CaseInv, ScriptOK
  <1>1. CASE Stop(p)
    BY <1>0, <1>1, Stops
  <1>2. ASSUME AskCapture(p) PROVE Alone(p) /\ ScriptOK(p)'
    <2>1. Begin(p, "capture", REQUIRED_FILES, Absent, Absent) /\ Asked(p).script = "capture"
      BY <1>2 DEF AskCapture, Reached
    <2>2. Alone(p) /\ clerk'[p].at = "capture" /\ clerk'[p].todo = REQUIRED_FILES
          /\ clerk'[p].read = With(<<>>, "capture", <<>>)
      BY <1>0, <2>1, BeginGives
    <2>3. Reading(p)' /\ Creating(p)'
      BY <2>2, BeginsReading, Phases
    <2> QED
      BY <1>0, <2>1, <2>2, <2>3 DEF ScriptOK, Stage, HasRead
  <1>3. ASSUME CaptureAgain(p) PROVE Alone(p) /\ ScriptOK(p)'
    <2>1. /\ MoveTo(p, "again", SetToSeq(Found(p))) /\ Asked(p).script = "capture"
          /\ clerk[p].at = "capture" /\ clerk[p].todo = <<>>
      BY <1>3 DEF CaptureAgain, Reached
    <2>2. Alone(p) /\ Steps(p, "again", SetToSeq(Found(p)), With(clerk[p].read, "again", <<>>))
      BY <1>0, <2>1, MoveGives
    <2>3. "capture" \in DOMAIN clerk[p].read
          /\ DOMAIN clerk[p].read["capture"] \subseteq CaseFiles \cup Artifact
      BY <1>0, <2>1, PhaseComplete, Phases
    <2>4. /\ "capture" \in DOMAIN clerk'[p].read /\ "again" \in DOMAIN clerk'[p].read
          /\ clerk'[p].read["capture"] = clerk[p].read["capture"]
      BY <2>2, <2>3 DEF Steps, With
    <2>5. Found(p) \subseteq CaseFiles \cup Artifact /\ IsFiniteSet(Found(p))
      <3>1. Found(p) \subseteq CaseFiles \cup Artifact
        BY <2>3 DEF Found, Got
      <3>3. IsFiniteSet(CaseFiles \cup Artifact)
        BY FilesFinite, FS_Union, CaseAssumption
      <3> QED
        BY <3>1, <3>3, FS_Subset
    <2>6. SetToSeq(Found(p)) \in Seq(CaseFiles \cup Artifact) /\ Range(SetToSeq(Found(p))) = Found(p)
      <3>1. SetToSeq(Found(p)) \in Seq(Found(p)) /\ Range(SetToSeq(Found(p))) = Found(p)
        BY <2>5, SequenceOfSet
      <3> QED
        BY <2>5, <3>1
    <2>7. Found(p)' = Found(p)
      BY <2>4 DEF Found, Got
    <2>8. Reading(p)' /\ Creating(p)'
      BY <2>2, <2>4, <2>6, <2>7, Phases DEF Reading, Creating, Steps
    <2> QED
      BY <1>0, <2>1, <2>2, <2>3, <2>4, <2>8 DEF ScriptOK, Stage, HasRead, Steps
  <1>4. ASSUME AnswerCapture(p), ~Stop(p) PROVE Alone(p) /\ ScriptOK(p)'
    <2>1. /\ clerk' = [clerk EXCEPT ![p].at = "captured"] /\ Asked(p).script = "capture"
          /\ clerk[p].at = "again"
      BY <1>4 DEF AnswerCapture, Require, Reached
    <2>2. Alone(p) /\ Steps(p, "captured", clerk[p].todo, clerk[p].read)
      BY <1>0, <2>1, LabelGives
    <2>3. Reading(p)' /\ Creating(p)'
      BY <2>2, Phases DEF Reading, Creating, Steps
    <2> QED
      BY <1>0, <2>1, <2>2, <2>3, Phases DEF ScriptOK, Stage, HasRead, Reading, Steps
  <1> QED
    BY <1>1, <1>2, <1>3, <1>4

\* What is cited by the index a phase has read, when it comes to the review.
Cited(p) ==
    IF Head(clerk[p].todo) = "review" /\ clerk[p].at \in WithArtifacts
    THEN SetToSeq(DOMAIN With(Got(p, clerk[p].at), Head(clerk[p].todo),
                              Lying(Now, Head(clerk[p].todo)))["index"].artifacts)
    ELSE <<>>

LEMMA CitedTyped ==
  ASSUME NEW p \in Clerk, Reading(p), ReadsKept(p), clerk[p].at \in ReadingPhase, clerk[p].todo # <<>>
  PROVE  /\ Cited(p) \in Seq(Artifact)
         /\ Head(clerk[p].todo) # "review" \/ clerk[p].at \notin WithArtifacts => Cited(p) = <<>>
  <1> DEFINE c == clerk[p]
             g == Got(p, c.at)
             x == Head(c.todo)
  <1>1. CASE x # "review" \/ c.at \notin WithArtifacts
    BY <1>1 DEF Cited
  <1>2. CASE x = "review" /\ c.at \in WithArtifacts
    <2>1. c.at \in ReadingPhase \ {"again"} /\ c.at \notin Digesting
      BY <1>2, Phases
    <2>2. c.at \in DOMAIN c.read /\ "index" \in DOMAIN c.read[c.at]
      <3>1. CASE \E k \in 1..5 : /\ c.todo = From(k)
                                 /\ DOMAIN c.read[c.at] = {REQUIRED_FILES[j] : j \in 1..(k - 1)}
        <4>1. PICK k \in 1..5 : c.todo = From(k) /\ DOMAIN c.read[c.at] = {REQUIRED_FILES[j] : j \in 1..(k - 1)}
          BY <3>1
        <4>2. REQUIRED_FILES[k] = "review"
          BY <1>2, <4>1, TheFiles
        <4>3. k = 5
          BY <4>2 DEF REQUIRED_FILES
        <4>4. REQUIRED_FILES[4] = "index" /\ 4 \in 1..(k - 1)
          BY <4>3 DEF REQUIRED_FILES
        <4>5. "index" \in DOMAIN c.read[c.at]
          BY <4>1, <4>4
        <4> QED
          BY <2>1, <4>5 DEF Reading
      <3>2. CASE CaseFiles \subseteq DOMAIN c.read[c.at]
        BY <2>1, <3>2, TheFiles DEF Reading
      <3> QED
        BY <2>1, <3>1, <3>2 DEF Reading
    <2>3. g["index"] \in Document("index")
      BY <2>1, <2>2, TheFiles DEF ReadsKept, Kept, Got
    <2>4. With(g, x, Lying(Now, x))["index"] = g["index"]
      BY <1>2, <2>2 DEF With, Got
    <2>5. DOMAIN g["index"].artifacts \subseteq Artifact
      BY <2>3, DocumentTyped
    <2>6. IsFiniteSet(DOMAIN g["index"].artifacts)
      BY <2>5, FS_Subset, CaseAssumption
    <2>7. SetToSeq(DOMAIN g["index"].artifacts) \in Seq(DOMAIN g["index"].artifacts)
      BY <2>6, SequenceOfSet
    <2>8. Cited(p) = SetToSeq(DOMAIN g["index"].artifacts)
      BY <1>2, <2>4 DEF Cited
    <2> QED
      BY <1>2, <2>5, <2>7, <2>8
  <1> QED
    BY <1>1, <1>2

\* A phase that reads the next path.
LEMMA ReadingGoesOn ==
  ASSUME NEW p \in Clerk, Reading(p), HasRead(p), ReadsKept(p), clerk[p].at \in ReadingPhase,
         clerk[p].todo # <<>>,
         NEW v, Steps(p, clerk[p].at, Tail(clerk[p].todo) \o Cited(p),
                      With(clerk[p].read, clerk[p].at, With(Got(p, clerk[p].at), Head(clerk[p].todo), v)))
  PROVE  Reading(p)'
  <1> DEFINE c == clerk[p]
             d == clerk'[p]
             x == Head(c.todo)
  <1>1. /\ d.at = c.at /\ d.todo = Tail(c.todo) \o Cited(p) /\ c.at \in DOMAIN d.read
        /\ DOMAIN d.read[c.at] = DOMAIN c.read[c.at] \cup {x}
    BY DEF Steps, With, Got
  <1>2. Cited(p) \in Seq(Artifact) /\ (x # "review" \/ c.at \notin WithArtifacts => Cited(p) = <<>>)
    BY CitedTyped
  <1> HIDE DEF d
  <1>3. CASE c.at = "again"
    <2>1. /\ "again" \in DOMAIN c.read /\ c.todo \in Seq(CaseFiles \cup Artifact)
          /\ Found(p) \subseteq DOMAIN c.read["again"] \cup Range(c.todo)
      BY <1>3 DEF Reading
    <2>2. Tail(c.todo) \in Seq(CaseFiles \cup Artifact) /\ Range(c.todo) = {x} \cup Range(Tail(c.todo))
      BY <2>1, FirstAndRest
    <2>3. Cited(p) = <<>>
      BY <1>2, <1>3, Phases
    <2>4. d.todo = Tail(c.todo)
      BY <1>1, <2>2, <2>3
    <2>5. Found(p)' = Found(p)
      <3>1. "capture" \in DOMAIN c.read
        BY <1>3 DEF HasRead
      <3>2. d.read["capture"] = c.read["capture"]
        BY <1>3, <3>1 DEF Steps, With, d
      <3> QED
        BY <3>2 DEF Found, Got, d
    <2> QED
      BY <1>1, <1>3, <2>1, <2>2, <2>4, <2>5 DEF Reading, d
  <1>4. CASE c.at # "again"
    <2>0. c.at \in ReadingPhase \ {"again"} /\ c.at \in DOMAIN c.read
      BY <1>4 DEF Reading
    <2>1. CASE \E k \in 1..5 : /\ c.todo = From(k)
                               /\ DOMAIN c.read[c.at] = {REQUIRED_FILES[j] : j \in 1..(k - 1)}
      <3>1. PICK k \in 1..5 : c.todo = From(k) /\ DOMAIN c.read[c.at] = {REQUIRED_FILES[j] : j \in 1..(k - 1)}
        BY <2>1
      <3>2. x = REQUIRED_FILES[k] /\ Tail(c.todo) = From(k + 1)
        BY <3>1, TheFiles
      <3>3. DOMAIN d.read[c.at] = {REQUIRED_FILES[j] : j \in 1..k}
        <4>1. \A j \in 1..k : j \in 1..(k - 1) \/ j = k
          OBVIOUS
        <4> QED
          BY <1>1, <3>1, <3>2, <4>1
      <3>4. CASE k \in 1..4
        <4>1. x # "review"
          BY <3>2, <3>4 DEF REQUIRED_FILES
        <4>2. d.todo = From(k + 1)
          <5>1. k + 1 \in 1..5
            BY <3>4
          <5> DEFINE left == From(k + 1)
          <5>2. left \in Seq(CaseFiles)
            BY <5>1, TheFiles
          <5>3. d.todo = left \o <<>>
            BY <1>1, <1>2, <3>2, <4>1
          <5> HIDE DEF left
          <5>4. left \o <<>> = left
            BY <5>2
          <5> QED
            BY <5>3, <5>4 DEF left
        <4>3. k + 1 \in 1..5 /\ 1..k = 1..((k + 1) - 1)
          BY <3>4
        <4>4. DOMAIN d.read[c.at] = {REQUIRED_FILES[j] : j \in 1..((k + 1) - 1)}
          BY <3>3, <4>3
        <4> QED
          BY <1>1, <1>4, <4>2, <4>3, <4>4 DEF Reading, d
      <3>5. CASE k = 5
        <4>1. d.todo = Cited(p)
          <5>1. Tail(c.todo) = <<>>
            <6>1. k + 1 = 6
              BY <3>5
            <6> QED
              BY <3>2, <6>1, TheFiles
          <5>2. \A s \in Seq(Artifact) : <<>> \o s = s
            OBVIOUS
          <5>3. <<>> \o Cited(p) = Cited(p)
            BY <1>2, <5>2
          <5> QED
            BY <1>1, <5>1, <5>3
        <4>2. DOMAIN d.read[c.at] = CaseFiles
          <5>1. DOMAIN REQUIRED_FILES = 1..5
            BY DEF REQUIRED_FILES
          <5> QED
            BY <3>3, <3>5, <5>1 DEF CaseFiles
        <4> QED
          BY <1>1, <1>2, <1>4, <4>1, <4>2 DEF Reading, d
      <3> QED
        BY <3>4, <3>5
    <2>2. CASE /\ c.todo \in Seq(Artifact) /\ CaseFiles \subseteq DOMAIN c.read[c.at]
               /\ DOMAIN c.read[c.at] \subseteq CaseFiles \cup Artifact
               /\ c.at \notin WithArtifacts =>
                     c.todo = <<>> /\ DOMAIN c.read[c.at] = CaseFiles
      <3>1. x \in Artifact /\ Tail(c.todo) \in Seq(Artifact) /\ c.at \in WithArtifacts
        BY <2>2, FirstAndRest
      <3>2. x # "review"
        BY <3>1, TheFiles, CaseAssumption
      <3>3. d.todo = Tail(c.todo)
        BY <1>1, <1>2, <3>1, <3>2
      <3> QED
        BY <1>1, <1>4, <2>2, <3>1, <3>3 DEF Reading, d
    <2> QED
      BY <2>0, <2>1, <2>2 DEF Reading
  <1> QED
    BY <1>3, <1>4

\* Every step of a script leaves the script in order and the others alone.
LEMMA ScriptsInOrder ==
  ASSUME CaseInv, NEW p \in Clerk, ScriptStep(p)
  PROVE  Alone(p) /\ ScriptOK(p)'
  <1>0. /\ Shaped /\ Stage(p) /\ Reading(p) /\ HasRead(p) /\ Creating(p) /\ ReadsKept(p)
        /\ Asked(p)' = Asked(p)
    BY AskedKept DEF CaseInv, ScriptOK
  <1>1. ASSUME Stop(p) PROVE Alone(p) /\ ScriptOK(p)'
    BY <1>0, <1>1, Stops
  <1>2. ASSUME ReadNext(p), ~Stop(p) PROVE Alone(p) /\ ScriptOK(p)'
    <2> DEFINE c == clerk[p]
               got == With(Got(p, c.at), Head(c.todo), Lying(Now, Head(c.todo)))
    <2>1. c.at \in ReadingPhase /\ c.todo # <<>>
      BY <1>2 DEF ReadNext
    <2>2. Alone(p) /\ Steps(p, c.at, Tail(c.todo) \o Cited(p), With(c.read, c.at, got))
      BY <1>0, <1>2, TakesIn DEF Cited
    <2>3. Reading(p)'
      BY <1>0, <2>1, <2>2, ReadingGoesOn
    <2>4. \A other : other # c.at /\ Complete(p, other) => Complete(p, other)'
      <3> SUFFICES ASSUME NEW other, other # c.at, Complete(p, other) PROVE Complete(p, other)'
        OBVIOUS
      <3> QED
        BY <2>2, StaysComplete DEF Steps
    <2>5. HasRead(p)'
      <3>1. c.at = "again" => "capture" \in DOMAIN clerk'[p].read
                              /\ clerk'[p].read["capture"] = c.read["capture"]
        BY <1>0, <2>2 DEF Steps, With, HasRead
      <3>2. clerk'[p].at = c.at /\ c.at \notin {"captured", "recorded", "written"}
        BY <2>1, <2>2, Phases DEF Steps
      <3> QED
        BY <1>0, <2>1, <2>4, <3>1, <3>2, Phases DEF HasRead
    <2> QED
      BY <1>0, <2>1, <2>2, <2>3, <2>5, Phases DEF ScriptOK, Stage, Creating, Steps
  <1>3. CrashClerk(p) => Stop(p)
    BY DEF CrashClerk
  <1> QED
    BY <1>1, <1>2, <1>3, EnsureInOrder, RecordInOrder, BundleInOrder, CaptureInOrder DEF ScriptStep

-----------------------------------------------------------------------------
(* What happens to the documents.                                             *)

\* The log only grows, and what was read of the documents stays what they hold.
LogGrows ==
    /\ Len(log) \in Nat \ {0} /\ Len(log') \in Nat /\ Len(log) <= Len(log')
    /\ \A i \in 1..Len(log) : log'[i] = log[i]
KeepsRead == \A f \in CaseFiles : \A v : Kept(v, f) => Kept(v, f)'

\* Nothing but the creation of the drafts and the edits touches the case.
LEMMA CaseUntouched ==
  ASSUME NEW p \in Clerk, ScriptStep(p), ~CreateDocument(p), ~WriteDocument(p)
  PROVE  documents' = documents /\ evidence' = evidence /\ log' = log
  BY DEF ScriptStep, ReadNext, CrashClerk, AskEnsure, PrepareCase,
     CheckCase, AnswerEnsure, AskRecord, TakeRoot, CheckReceipt, CheckReviewed, ConfirmRoot,
     CreateReceipt, WriteReceipt, AnswerRecord, AskExport, LoadReady, PrepareOutput, CopyNext,
     CheckBundle, WriteSummary, WriteManifest, AskRender, RenderReads, AskCapture, CaptureAgain,
     AnswerCapture, theCase

\* A case that nobody touches.
LEMMA UntouchedKeeps ==
  ASSUME CaseTyped, documents' = documents, evidence' = evidence, log' = log
  PROVE  CaseTyped' /\ LogGrows /\ KeepsRead
  <1>1. Now' = Now
    BY DEF Now
  <1>2. Len(log) \in Nat \ {0}
    BY DEF CaseTyped
  <1>3. CaseTyped'
    BY <1>1 DEF CaseTyped
  <1> QED
    BY <1>2, <1>3 DEF LogGrows, KeepsRead, Kept

\* One more moment in the log.
LEMMA LoggedGrows ==
  ASSUME CaseTyped, Logged,
         documents' = [f \in CaseFiles |-> documents'[f]], \A f \in CaseFiles : documents'[f] \in OnDisk(f),
         evidence' \in Evidence
  PROVE  CaseTyped' /\ LogGrows
  <1>1. documents' \in Documents
    <2>1. \A f \in CaseFiles : documents'[f] \in UNION {OnDisk(g) : g \in CaseFiles}
      OBVIOUS
    <2> QED
      BY <2>1 DEF Documents
  <1>2. Now' \in CaseMoment
    BY <1>1 DEF Now, CaseMoment
  <1> DEFINE m == Now'
  <1>3. log \in Seq(CaseMoment) /\ log # <<>> /\ log' = Append(log, m)
    BY DEF CaseTyped, Logged
  <1> HIDE DEF m
  <1>4. /\ log' \in Seq(CaseMoment) /\ Len(log') = Len(log) + 1 /\ log'[Len(log) + 1] = m
        /\ Len(log) \in Nat \ {0} /\ \A i \in 1..Len(log) : log'[i] = log[i]
    BY <1>2, <1>3 DEF m
  <1>5. log' # <<>> /\ log'[Len(log')] = Now'
    BY <1>4 DEF m
  <1>6. CaseTyped'
    BY <1>4, <1>5 DEF CaseTyped
  <1> QED
    BY <1>4, <1>6 DEF LogGrows

\* One document changes: one that was not a document becomes another thing,
\* or one that was stays in its case.
LEMMA DocumentChanges ==
  ASSUME CaseTyped, NEW f \in CaseFiles, NEW v \in OnDisk(f), documents' = [documents EXCEPT ![f] = v],
         documents[f] \notin Document(f) \/ (v \in Document(f) /\ v.case = documents[f].case)
  PROVE  /\ documents' = [g \in CaseFiles |-> documents'[g]]
         /\ \A g \in CaseFiles : documents'[g] \in OnDisk(g)
         /\ documents'[f] = v /\ \A g \in CaseFiles : g # f => documents'[g] = documents[g]
         /\ KeepsRead
  <1>1. documents'[f] = v /\ \A g \in CaseFiles : g # f => documents'[g] = documents[g]
    BY DEF CaseTyped
  <1>2. documents' = [g \in CaseFiles |-> documents'[g]]
    BY <1>1 DEF CaseTyped
  <1>3. KeepsRead
    BY <1>1 DEF KeepsRead, Kept
  <1> QED
    BY <1>1, <1>2, <1>3 DEF CaseTyped

\* What a step does to the documents.
LEMMA CaseMoves ==
  ASSUME CaseInv, AuditNext
  PROVE  CaseTyped' /\ LogGrows /\ KeepsRead
  <1>0. CaseTyped /\ \A p \in Clerk : ScriptOK(p) /\ Filled(p)
    BY DEF CaseInv
  <1>1. ASSUME NEW p \in Clerk, ScriptStep(p), ~CreateDocument(p), ~WriteDocument(p)
        PROVE  CaseTyped' /\ LogGrows /\ KeepsRead
    BY <1>0, <1>1, CaseUntouched, UntouchedKeeps
  <1>2. ASSUME NEW p \in Clerk, CreateDocument(p) PROVE CaseTyped' /\ LogGrows /\ KeepsRead
    <2> DEFINE f == Head(clerk[p].todo)
    <2>1. f \in CaseFiles
      BY <1>0, <1>2, FirstAndRest DEF CreateDocument, ScriptOK, Creating
    <2>2. CASE documents[f] # Absent
      BY <1>0, <1>2, <2>2, UntouchedKeeps DEF CreateDocument
    <2>3. CASE documents[f] = Absent
      <3>1. documents' = [documents EXCEPT ![f] = Partial] /\ Logged /\ evidence' = evidence
        BY <1>2, <2>3 DEF CreateDocument
      <3>2. Partial \in OnDisk(f) /\ documents[f] \notin Document(f)
        BY <2>1, <2>3, CaseAssumption DEF OnDisk
      <3> HIDE DEF f
      <3>3. /\ documents' = [g \in CaseFiles |-> documents'[g]]
            /\ \A g \in CaseFiles : documents'[g] \in OnDisk(g)
            /\ KeepsRead
        BY <1>0, <2>1, <3>1, <3>2, DocumentChanges
      <3>4. evidence' \in Evidence
        BY <1>0, <3>1 DEF CaseTyped
      <3> QED
        BY <1>0, <3>1, <3>3, <3>4, LoggedGrows
    <2> QED
      BY <2>2, <2>3
  <1>3. ASSUME NEW p \in Clerk, WriteDocument(p) PROVE CaseTyped' /\ LogGrows /\ KeepsRead
    <2> DEFINE f == Head(clerk[p].todo)
               v == DraftOf(f, clerk[p].case)
    <2>1. f \in CaseFiles /\ clerk[p].case \in CaseId /\ documents[f] = Partial
      BY <1>0, <1>3, FirstAndRest DEF WriteDocument, ScriptOK, Creating, Filled
    <2>2. documents' = [documents EXCEPT ![f] = v] /\ Logged /\ evidence' = evidence
      BY <1>3 DEF WriteDocument
    <2>3. v \in OnDisk(f) /\ documents[f] \notin Document(f)
      BY <2>1, DocumentTyped DEF OnDisk
    <2> HIDE DEF f, v
    <2>4. /\ documents' = [g \in CaseFiles |-> documents'[g]]
          /\ \A g \in CaseFiles : documents'[g] \in OnDisk(g)
          /\ KeepsRead
      BY <1>0, <2>1, <2>2, <2>3, DocumentChanges
    <2>5. evidence' \in Evidence
      BY <1>0, <2>2 DEF CaseTyped
    <2> QED
      BY <1>0, <2>2, <2>4, <2>5, LoggedGrows
  <1>4. ASSUME NEW e \in AuditEdits, EditCase(e) PROVE CaseTyped' /\ LogGrows /\ KeepsRead
    <2>1. CASE e.file \in Artifact
      <3>1. evidence' = [evidence EXCEPT ![e.file] = e.value] /\ documents' = documents /\ Logged
        BY <1>4, <2>1 DEF EditCase
      <3>2. e.value \in Content \cup {Absent}
        BY <2>1, AuditAssumption
      <3>3. evidence' \in Evidence
        BY <1>0, <3>1, <3>2 DEF CaseTyped, Evidence
      <3>4. KeepsRead
        BY <3>1 DEF KeepsRead, Kept
      <3>5. documents' = [f \in CaseFiles |-> documents'[f]] /\ \A f \in CaseFiles : documents'[f] \in OnDisk(f)
        BY <1>0, <3>1 DEF CaseTyped
      <3> QED
        BY <1>0, <3>1, <3>3, <3>4, <3>5, LoggedGrows
    <2>2. CASE e.file \notin Artifact
      <3> DEFINE f == e.file
                 v == [e.value EXCEPT !.case = documents[f].case]
      <3>1. f \in CaseFiles /\ e.value \in Document(f)
        BY <2>2, AuditAssumption
      <3>2. documents[f] \in Document(f)
        BY <1>0, <1>4, <2>2, <3>1 DEF EditCase, CaseTyped, OnDisk
      <3>3. documents[f].case \in CaseId
        BY <3>1, <3>2, DocumentTyped
      <3>4. v \in Document(f) /\ v.case = documents[f].case
        BY <3>1, <3>3, DocumentTyped
      <3>5. documents' = [documents EXCEPT ![f] = v] /\ Logged /\ evidence' = evidence
        BY <1>4, <2>2 DEF EditCase
      <3>6. v \in OnDisk(f)
        BY <3>4 DEF OnDisk
      <3> HIDE DEF f, v
      <3>7. /\ documents' = [g \in CaseFiles |-> documents'[g]]
            /\ \A g \in CaseFiles : documents'[g] \in OnDisk(g)
            /\ KeepsRead
        BY <1>0, <3>1, <3>4, <3>5, <3>6, DocumentChanges
      <3>8. evidence' \in Evidence
        BY <1>0, <3>5 DEF CaseTyped
      <3> QED
        BY <1>0, <3>5, <3>7, <3>8, LoggedGrows
    <2> QED
      BY <2>1, <2>2
  <1> QED
    BY <1>1, <1>2, <1>3, <1>4 DEF AuditNext

-----------------------------------------------------------------------------
(* What has been read stays true, and one script fills a file.                *)

\* The ways in which a script moves when it does not read.
BundlePhases == {"copy", "bundle", "summary", "manifest", "written"}
BundleStep(p) ==
    PrepareOutput(p) \/ CopyNext(p) \/ CheckBundle(p) \/ WriteSummary(p) \/ WriteManifest(p)
Due(p, phase) ==
    /\ phase = "fill" => CreateDocument(p)
    /\ phase \in BundlePhases => BundleStep(p)
    /\ phase = "recorded" => AnswerRecord(p)
    /\ phase = "captured" => AnswerCapture(p)
Begins(p) == \E phase, todo, c, r : Due(p, phase) /\ Begin(p, phase, todo, c, r)
Enters(p) == \E phase, todo : Due(p, phase) /\ MoveTo(p, phase, todo)
Labels(p) == \E label : Due(p, label) /\ clerk' = [clerk EXCEPT ![p].at = label]

LEMMA Ways ==
  ASSUME NEW p \in Clerk, ScriptStep(p), ~ReadNext(p), ~WriteReceipt(p)
  PROVE  Stop(p) \/ Begins(p) \/ Enters(p) \/ Labels(p)
  <1>0. \A phase \in {"waiting", "prepare", "create", "case", "validate", "root", "reviewed", "confirm",
                      "receipt", "body", "load", "capture", "again", "historical"} : Due(p, phase)
    BY DEF Due, BundlePhases
  <1>1. AskEnsure(p) => Stop(p) \/ Begins(p)
    BY <1>0 DEF AskEnsure, Begins
  <1>2. PrepareCase(p) => Stop(p) \/ Enters(p)
    BY <1>0 DEF PrepareCase, Enters
  <1>3. CreateDocument(p) => Stop(p) \/ Labels(p)
    BY DEF CreateDocument, Labels, Due, BundlePhases
  <1>4. WriteDocument(p) => Enters(p)
    BY <1>0 DEF WriteDocument, Enters, Read
  <1>5. CheckCase(p) => Stop(p) \/ Enters(p)
    BY <1>0 DEF CheckCase, Enters, Read, Require
  <1>6. AnswerEnsure(p) \/ CrashClerk(p) => Stop(p)
    BY DEF AnswerEnsure, CrashClerk
  <1>7. AskRecord(p) \/ AskExport(p) \/ AskRender(p) \/ AskCapture(p) => Begins(p)
    BY <1>0 DEF AskRecord, AskExport, AskRender, AskCapture, Begins
  <1>8. TakeRoot(p) \/ CheckReceipt(p) \/ CheckReviewed(p) \/ ConfirmRoot(p) \/ CreateReceipt(p)
          \/ LoadReady(p) \/ RenderReads(p) \/ CaptureAgain(p) => Stop(p) \/ Enters(p)
    <2>1. TakeRoot(p) => Stop(p) \/ Enters(p)
      BY <1>0 DEF TakeRoot, Enters, Read, Require
    <2>2. CheckReceipt(p) => Stop(p) \/ Enters(p)
      BY <1>0 DEF CheckReceipt, Enters, Read, Require
    <2>3. CheckReviewed(p) => Stop(p) \/ Enters(p)
      BY <1>0 DEF CheckReviewed, Enters, Read, Require
    <2>4. ConfirmRoot(p) \/ CreateReceipt(p) => Stop(p) \/ Enters(p)
      BY <1>0 DEF ConfirmRoot, CreateReceipt, Enters, Require
    <2>5. LoadReady(p) \/ RenderReads(p) => Stop(p) \/ Enters(p)
      BY <1>0 DEF LoadReady, RenderReads, Enters, Read, Require
    <2>6. CaptureAgain(p) => Enters(p)
      BY <1>0 DEF CaptureAgain, Enters
    <2> QED
      BY <2>1, <2>2, <2>3, <2>4, <2>5, <2>6
  <1>9. BundleStep(p) => Stop(p) \/ Enters(p) \/ Labels(p)
    <2> SUFFICES ASSUME BundleStep(p) PROVE Stop(p) \/ Enters(p) \/ Labels(p)
      OBVIOUS
    <2>1. \A phase \in BundlePhases : Due(p, phase)
      BY DEF Due, BundlePhases
    <2>2. PrepareOutput(p) => Stop(p) \/ Enters(p)
      BY <2>1 DEF PrepareOutput, Enters, Require, BundlePhases
    <2>3. CopyNext(p) => Stop(p) \/ Enters(p)
      BY <2>1 DEF CopyNext, Enters, BundlePhases
    <2>4. CheckBundle(p) \/ WriteSummary(p) => Stop(p) \/ Enters(p)
      BY <2>1 DEF CheckBundle, WriteSummary, Enters, Require, BundlePhases
    <2>5. WriteManifest(p) => Stop(p) \/ Labels(p)
      BY <2>1 DEF WriteManifest, Labels, BundlePhases
    <2> QED
      BY <2>2, <2>3, <2>4, <2>5 DEF BundleStep
  <1>10. AnswerRecord(p) => Labels(p)
    BY <1>0 DEF AnswerRecord, Labels, Due, BundlePhases
  <1>11. AnswerCapture(p) => Stop(p) \/ Labels(p)
    BY DEF AnswerCapture, Labels, Due, BundlePhases, Require
  <1> QED
    BY <1>1, <1>2, <1>3, <1>4, <1>5, <1>6, <1>7, <1>8, <1>9, <1>10, <1>11 DEF ScriptStep, BundleStep

\* A script comes to a phase by the step that is due.
LEMMA ComesByItsStep ==
  ASSUME Shaped, NEW p \in Clerk, ScriptStep(p)
  PROVE  Due(p, clerk'[p].at)
  <1>0. \A phase \in ReadingPhase \cup {"stopped"} : Due(p, phase)
    BY Phases DEF Due, BundlePhases
  <1>1. CASE Stop(p)
    BY <1>0, <1>1, StopGives
  <1>2. CASE Begins(p)
    BY <1>2, BeginGives DEF Begins
  <1>3. CASE Enters(p)
    BY <1>3, MoveGives DEF Enters, Steps
  <1>4. CASE Labels(p)
    BY <1>4, LabelGives DEF Labels, Steps
  <1>5. CASE WriteReceipt(p)
    BY <1>0, <1>5, WrittenGives, Phases DEF Steps
  <1>6. CASE ReadNext(p) /\ ~Stop(p)
    <2>1. clerk'[p].at = clerk[p].at
      BY <1>6, TakesIn DEF Steps
    <2> QED
      BY <1>0, <1>6, <2>1 DEF ReadNext
  <1> QED
    BY <1>1, <1>2, <1>3, <1>4, <1>5, <1>6, Ways

\* A script that does not read keeps what it has read, and has read nothing new.
LEMMA NothingNewRead ==
  ASSUME Shaped, NEW p \in Clerk, ScriptStep(p), ~ReadNext(p)
  PROVE  \A phase \in DOMAIN clerk'[p].read :
            \/ clerk'[p].read[phase] = <<>>
            \/ phase \in DOMAIN clerk[p].read /\ clerk'[p].read[phase] = clerk[p].read[phase]
  <1>1. CASE Stop(p)
    BY <1>1, StopGives
  <1>2. CASE Begins(p)
    <2>1. PICK phase, todo, c, r : Begin(p, phase, todo, c, r)
      BY <1>2 DEF Begins
    <2>2. clerk'[p].read = With(<<>>, phase, <<>>)
      BY <2>1, BeginGives
    <2> QED
      BY <2>2 DEF With
  <1>3. CASE Enters(p) \/ WriteReceipt(p)
    <2>1. \E phase : clerk'[p].read = With(clerk[p].read, phase, <<>>)
      <3>1. CASE Enters(p)
        <4>1. PICK phase, todo : MoveTo(p, phase, todo)
          BY <3>1 DEF Enters
        <4> QED
          BY <4>1, MoveGives DEF Steps
      <3>2. CASE WriteReceipt(p)
        BY <3>2, WrittenGives DEF Steps
      <3> QED
        BY <1>3, <3>1, <3>2
    <2> QED
      BY <2>1 DEF With
  <1>4. CASE Labels(p)
    <2>1. PICK label : clerk' = [clerk EXCEPT ![p].at = label]
      BY <1>4 DEF Labels
    <2>2. clerk'[p].read = clerk[p].read
      BY <2>1, LabelGives DEF Steps
    <2> QED
      BY <2>2
  <1> QED
    BY <1>1, <1>2, <1>3, <1>4, Ways

\* What a script has read by now is kept when it was kept before the step.
LEMMA KeptNext ==
  ASSUME NEW p \in Clerk, KeepsRead,
         \A phase \in DOMAIN clerk'[p].read \ Digesting :
            \A f \in DOMAIN clerk'[p].read[phase] \cap CaseFiles : Kept(clerk'[p].read[phase][f], f)
  PROVE  ReadsKept(p)'
  <1>1. \A phase \in DOMAIN clerk'[p].read \ Digesting :
           \A f \in DOMAIN clerk'[p].read[phase] \cap CaseFiles :
              LET v == clerk'[p].read[phase][f]
              IN  v \in Document(f) /\ documents'[f] \in Document(f) /\ documents'[f].case = v.case
    BY DEF KeepsRead, Kept
  <1> QED
    BY <1>1 DEF ReadsKept, Kept

\* What a script has read of the documents is kept.
LEMMA ReadsStayKept ==
  ASSUME CaseInv, NEW p \in Clerk, ScriptStep(p), KeepsRead
  PROVE  ReadsKept(p)'
  <1>0. Shaped /\ CaseTyped /\ Stage(p) /\ Reading(p) /\ ReadsKept(p)
    BY DEF CaseInv, ScriptOK
  <1>1. CASE ~ReadNext(p)
    <2>1. ASSUME NEW phase \in DOMAIN clerk'[p].read \ Digesting,
                 NEW f \in DOMAIN clerk'[p].read[phase] \cap CaseFiles
          PROVE  Kept(clerk'[p].read[phase][f], f)
      <3>1. clerk'[p].read[phase] # <<>>
        <4>1. DOMAIN <<>> = {}
          OBVIOUS
        <4> QED
          BY <2>1, <4>1
      <3>2. phase \in DOMAIN clerk[p].read /\ clerk'[p].read[phase] = clerk[p].read[phase]
        BY <1>0, <1>1, <3>1, NothingNewRead
      <3> QED
        BY <1>0, <3>2 DEF ReadsKept
    <2> QED
      BY <2>1, KeptNext
  <1>2. CASE ReadNext(p) /\ Stop(p)
    <2>1. clerk'[p].read = <<>>
      BY <1>0, <1>2, Stops
    <2> QED
      BY <2>1 DEF ReadsKept
  <1>3. CASE ReadNext(p) /\ ~Stop(p)
    <2> DEFINE c == clerk[p]
               x == Head(c.todo)
               v == Lying(Now, x)
               got == With(Got(p, c.at), x, v)
    <2>1. /\ x \in CaseFiles => v # Absent /\ (v = Partial => c.at \in Digesting)
          /\ clerk'[p].read = With(c.read, c.at, got)
      BY <1>0, <1>3, TakesIn DEF Steps
    <2>2. ASSUME NEW phase \in DOMAIN clerk'[p].read \ Digesting,
                 NEW f \in DOMAIN clerk'[p].read[phase] \cap CaseFiles
          PROVE  Kept(clerk'[p].read[phase][f], f)
      <3>1. CASE phase = c.at /\ f = x
        <4>1. v = documents[f] /\ documents[f] \in Document(f)
          BY <1>0, <2>1, <2>2, <3>1, DocumentTyped DEF Lying, Now, CaseTyped, OnDisk
        <4>2. clerk'[p].read[phase][f] = documents[f]
          BY <2>1, <3>1, <4>1 DEF With
        <4> QED
          BY <4>1, <4>2 DEF Kept
      <3>2. CASE phase = c.at /\ f # x
        <4>1. f \in DOMAIN c.read[phase] /\ clerk'[p].read[phase][f] = c.read[phase][f]
          BY <2>1, <2>2, <3>2 DEF With, Got
        <4>2. phase \in DOMAIN c.read
          BY <1>0, <1>3, <3>2 DEF Reading, ReadNext
        <4> QED
          BY <1>0, <2>2, <4>1, <4>2 DEF ReadsKept
      <3>3. CASE phase # c.at
        <4>1. phase \in DOMAIN c.read /\ clerk'[p].read[phase] = c.read[phase]
          BY <2>1, <2>2, <3>3 DEF With
        <4> QED
          BY <1>0, <2>2, <4>1 DEF ReadsKept
      <3> QED
        BY <3>1, <3>2, <3>3
    <2> QED
      BY <2>2, KeptNext
  <1> QED
    BY <1>1, <1>2, <1>3

-----------------------------------------------------------------------------
(* One script fills a file.                                                   *)

\* A file stays with the script that has created it.
LEMMA FilesStayFilledOnce ==
  ASSUME CaseInv, NEW p \in Clerk, ScriptStep(p), Alone(p)
  PROVE  FilledOnce' /\ \A q \in Clerk : Filled(q)'
  <1>0. /\ Shaped /\ FilledOnce /\ CaseTyped /\ Absent # Partial
        /\ \A q \in Clerk : Filled(q) /\ Creating(q)
        /\ \A q \in Clerk : q # p => clerk'[q] = clerk[q]
    BY CaseAssumption DEF CaseInv, ScriptOK, Alone
  <1>1. CASE CreateDocument(p) /\ documents[Head(clerk[p].todo)] = Absent
    <2> DEFINE f == Head(clerk[p].todo)
    <2>1. /\ f \in CaseFiles /\ documents' = [documents EXCEPT ![f] = Partial]
          /\ clerk' = [clerk EXCEPT ![p].at = "fill"]
      BY <1>0, <1>1, FirstAndRest DEF CreateDocument, Creating
    <2>2. clerk'[p].at = "fill" /\ clerk'[p].todo = clerk[p].todo
      BY <1>0, <2>1, LabelGives DEF Steps
    <2>3. documents'[f] = Partial /\ \A g \in CaseFiles : g # f => documents'[g] = documents[g]
      BY <1>0, <2>1 DEF CaseTyped
    <2>4. \A q \in Clerk : clerk[q].at = "fill" => Head(clerk[q].todo) \in CaseFiles
      BY <1>0, FirstAndRest DEF Creating
    <2>5. \A q \in Clerk : q # p /\ clerk'[q].at = "fill" =>
             Head(clerk'[q].todo) # f /\ documents'[Head(clerk'[q].todo)] = Partial
      BY <1>0, <1>1, <2>3, <2>4 DEF Filled
    <2> HIDE DEF f
    <2>6. FilledOnce'
      BY <1>0, <2>2, <2>5 DEF FilledOnce, f
    <2>7. \A q \in Clerk : Filled(q)'
      BY <2>2, <2>3, <2>5 DEF Filled, f
    <2> QED
      BY <2>6, <2>7
  <1>2. CASE ~(CreateDocument(p) /\ documents[Head(clerk[p].todo)] = Absent)
    <2>1. clerk'[p].at # "fill"
      <3>1. CASE CreateDocument(p)
        <4>1. Stop(p)
          BY <1>2, <3>1 DEF CreateDocument
        <4> QED
          BY <1>0, <4>1, StopGives
      <3>2. CASE ~CreateDocument(p)
        BY <1>0, <3>2, ComesByItsStep DEF Due
      <3> QED
        BY <3>1, <3>2
    <2>2. \A q \in Clerk : q # p /\ clerk[q].at = "fill" =>
             documents'[Head(clerk[q].todo)] = documents[Head(clerk[q].todo)]
      <3>1. CASE WriteDocument(p)
        <4> DEFINE f == Head(clerk[p].todo)
                   v == DraftOf(f, clerk[p].case)
        <4>1. clerk[p].at = "fill" /\ documents' = [documents EXCEPT ![f] = v]
          BY <3>1 DEF WriteDocument
        <4>2. \A q \in Clerk : q # p /\ clerk[q].at = "fill" =>
                 Head(clerk[q].todo) # f /\ Head(clerk[q].todo) \in CaseFiles
          BY <1>0, <4>1, FirstAndRest DEF FilledOnce, Creating
        <4> HIDE DEF f, v
        <4> QED
          BY <1>0, <4>1, <4>2 DEF CaseTyped
      <3>2. CASE ~WriteDocument(p)
        <4>1. documents' = documents
          <5>1. CASE CreateDocument(p)
            BY <1>2, <5>1 DEF CreateDocument
          <5>2. CASE ~CreateDocument(p)
            BY <3>2, <5>2, CaseUntouched
          <5> QED
            BY <5>1, <5>2
        <4> QED
          BY <4>1
      <3> QED
        BY <3>1, <3>2
    <2>3. FilledOnce'
      BY <1>0, <2>1 DEF FilledOnce
    <2>4. \A q \in Clerk : Filled(q)'
      BY <1>0, <2>1, <2>2 DEF Filled
    <2> QED
      BY <2>3, <2>4
  <1> QED
    BY <1>1, <1>2

-----------------------------------------------------------------------------
(* One case.                                                                  *)

\* The cases of the documents, when the documents are all there.
CasesAre(S) ==
    /\ \A f \in CaseFiles : documents[f] \in Document(f)
    /\ {documents[f].case : f \in CaseFiles} = S

LEMMA OneCaseIs ==
  ASSUME CaseTyped
  PROVE  OneCase <=> answered = {} \/ \E c \in CaseId : answered = {c} /\ CasesAre({c})
  <1>1. Parses(documents) <=> \A f \in CaseFiles : documents[f] \in Document(f)
    BY DocumentTyped DEF Parses, CaseTyped, OnDisk
  <1>2. ASSUME NEW c \in CaseId, answered = {c}, CasesAre({c}) PROVE OneCase
    <2>1. Cardinality({c}) = 1
      BY FS_Singleton
    <2> QED
      BY <1>1, <1>2, <2>1 DEF OneCase, CasesAre
  <1>3. ASSUME OneCase, answered # {} PROVE \E c \in CaseId : answered = {c} /\ CasesAre({c})
    <2>1. /\ \A f \in CaseFiles : documents[f] \in Document(f)
          /\ {documents[f].case : f \in CaseFiles} = answered /\ Cardinality(answered) = 1
      BY <1>1, <1>3 DEF OneCase
    <2>2. "scope" \in CaseFiles
      BY TheFiles
    <2>3. IsFiniteSet(answered)
      <3> DEFINE Case(f) == documents[f].case
      <3>1. \A f : IsFiniteSet({Case(f)})
        BY FS_Singleton
      <3>2. answered = {Case("scope")} \cup ({Case("inventory")} \cup ({Case("actions")}
                          \cup ({Case("index")} \cup {Case("review")})))
        BY <2>1, TheFiles
      <3> HIDE DEF Case
      <3>3. IsFiniteSet({Case("index")} \cup {Case("review")})
        BY <3>1, FS_Union
      <3>4. IsFiniteSet({Case("actions")} \cup ({Case("index")} \cup {Case("review")}))
        BY <3>1, <3>3, FS_Union
      <3>5. IsFiniteSet({Case("inventory")} \cup ({Case("actions")}
                          \cup ({Case("index")} \cup {Case("review")})))
        BY <3>1, <3>4, FS_Union
      <3> QED
        BY <3>1, <3>2, <3>5, FS_Union
    <2>4. PICK c : answered = {c}
      BY <2>1, <2>3, FS_Singleton
    <2>5. documents["scope"].case \in CaseId /\ documents["scope"].case \in answered
      BY <2>1, <2>2, DocumentTyped
    <2> QED
      BY <2>1, <2>4, <2>5 DEF CasesAre
  <1> QED
    BY <1>2, <1>3 DEF OneCase

\* What the documents hold stays of one case.
LEMMA CasesKept ==
  ASSUME NEW S, CasesAre(S), KeepsRead
  PROVE  CasesAre(S)'
  <1>1. \A f \in CaseFiles : documents[f] \in Document(f)
    BY DEF CasesAre
  <1>2. \A f \in CaseFiles : documents'[f] \in Document(f) /\ documents'[f].case = documents[f].case
    <2> SUFFICES ASSUME NEW f \in CaseFiles, NEW v, v = documents[f]
                 PROVE  documents'[f] \in Document(f) /\ documents'[f].case = v.case
      OBVIOUS
    <2>1. Kept(v, f)
      BY <1>1 DEF Kept
    <2>2. Kept(v, f)'
      BY <2>1 DEF KeepsRead
    <2> QED
      BY <2>2 DEF Kept
  <1> QED
    BY <1>2 DEF CasesAre

\* A step that answers nothing.
LEMMA OneCaseStays ==
  ASSUME OneCase, CaseTyped, CaseTyped', KeepsRead, answered' = answered
  PROVE  OneCase'
  <1>1. (OneCase <=> answered = {} \/ \E c \in CaseId : answered = {c} /\ CasesAre({c}))'
    BY OneCaseIs, PTL
  <1>2. CASE answered = {}
    BY <1>1, <1>2
  <1>3. CASE answered # {}
    <2>1. PICK c \in CaseId : answered = {c} /\ CasesAre({c})
      BY <1>3, OneCaseIs
    <2>2. CasesAre({c})'
      BY <2>1, CasesKept
    <2> QED
      BY <1>1, <2>1, <2>2
  <1> QED
    BY <1>2, <1>3

\* What ensure answers is what the documents hold, all of them.
LEMMA EnsureAnswers ==
  ASSUME CaseInv, NEW p \in Clerk, AnswerEnsure(p)
  PROVE  OneCase' /\ answered' \subseteq CaseId
  <1>0. /\ CaseTyped /\ Shaped /\ OneCase /\ answered \subseteq CaseId
        /\ Reading(p) /\ HasRead(p) /\ ReadsKept(p)
    BY DEF CaseInv, ScriptOK
  <1> DEFINE stored == Got(p, "case")["scope"].case
  <1>1. /\ clerk[p].at = "validate" /\ clerk[p].todo = <<>> /\ Asked(p).script = "ensure"
        /\ documents' = documents /\ evidence' = evidence /\ log' = log
    BY DEF AnswerEnsure, Reached, theCase
  <1>2. CaseTyped' /\ KeepsRead
    BY <1>0, <1>1, UntouchedKeeps
  <1>3. CASE answered' = answered
    BY <1>0, <1>2, <1>3, OneCaseStays
  <1>4. (OneCase <=> answered = {} \/ \E c \in CaseId : answered = {c} /\ CasesAre({c}))'
    BY <1>2, OneCaseIs, PTL
  <1>5. CASE Valid(p) /\ answered' = answered \cup {stored}
    <2>1. "scope" \in CaseFiles /\ "validate" \notin Digesting /\ "case" \notin Digesting
      BY TheFiles, Phases
    <2>2. Kept(Got(p, "case")["scope"], "scope")
      BY <1>0, <1>1, <2>1 DEF HasRead, Complete, ReadsKept, Got
    <2>3. "validate" \in DOMAIN clerk[p].read /\ CaseFiles \subseteq DOMAIN clerk[p].read["validate"]
      BY <1>0, <1>1, PhaseComplete, Phases
    <2>4. \A f \in CaseFiles : Kept(Got(p, "validate")[f], f)
      BY <1>0, <2>1, <2>3 DEF ReadsKept, Got
    <2>5. \A f \in CaseFiles : Got(p, "validate")[f].case = Got(p, "validate")["scope"].case
      <3>1. \A f \in CaseFiles : DocumentsRead(p, "validate")[f] = Got(p, "validate")[f]
        BY <2>3 DEF DocumentsRead, Restrict, Got
      <3>2. SameCase(DocumentsRead(p, "validate"))
        BY <1>5 DEF Valid, ValidCase
      <3> QED
        BY <2>1, <3>1, <3>2 DEF SameCase
    <2>6. \A f \in CaseFiles : documents[f] \in Document(f) /\ documents[f].case = stored
      BY <2>1, <2>2, <2>4, <2>5 DEF Kept
    <2>7. stored \in CaseId
      BY <2>1, <2>6, DocumentTyped
    <2> HIDE DEF stored
    <2>8. PICK k \in CaseId : k = stored
      BY <2>7
    <2>9. CasesAre({k})
      BY <2>1, <2>6, <2>8 DEF CasesAre
    <2>10. answered \subseteq {k}
      <3>1. \A d \in CaseId : CasesAre({d}) => d = stored
        BY <2>1, <2>6 DEF CasesAre
      <3> QED
        BY <1>0, <2>8, <3>1, OneCaseIs
    <2>11. CasesAre({k})'
      BY <1>2, <2>9, CasesKept
    <2> QED
      BY <1>0, <1>4, <1>5, <2>10, <2>11, <2>8
  <1> QED
    BY <1>3, <1>5 DEF AnswerEnsure

\* Only ensure answers.
LEMMA AnswersKept ==
  ASSUME NEW p \in Clerk, ScriptStep(p), ~AnswerEnsure(p)
  PROVE  answered' = answered
  BY DEF ScriptStep, ReadNext, CrashClerk, AskEnsure, PrepareCase, CreateDocument, WriteDocument,
     CheckCase, AskRecord, TakeRoot, CheckReceipt, CheckReviewed, ConfirmRoot,
     CreateReceipt, WriteReceipt, AnswerRecord, AskExport, LoadReady, PrepareOutput, CopyNext,
     CheckBundle, WriteSummary, WriteManifest, AskRender, RenderReads, AskCapture, CaptureAgain,
     AnswerCapture

-----------------------------------------------------------------------------
(* The invariant holds.                                                       *)

\* A scenario begins in order.
LEMMA CaseBegins == AuditInit => CaseInv
  <1> SUFFICES ASSUME AuditInit PROVE CaseInv
    OBVIOUS
  <1>1. chosen \in DOMAIN AuditScenarios /\ WellFormed(scenario) /\ answered = {}
    BY AuditAssumption DEF AuditInit, scenario, Planned
  <1>2. /\ documents \in Documents /\ \A f \in CaseFiles : documents[f] \in OnDisk(f)
        /\ evidence \in Evidence
    BY <1>1 DEF WellFormed, AuditInit
  <1>3. documents = [f \in CaseFiles |-> documents[f]]
    BY <1>2 DEF Documents
  <1>4. Now \in CaseMoment
    BY <1>2 DEF Now, CaseMoment
  <1>5. log \in Seq(CaseMoment) /\ log # <<>> /\ log[Len(log)] = Now
    <2> DEFINE m == Now
               past == scenario.past
    <2>1. log = Append(past, m) /\ past \in Seq(CaseMoment) /\ m \in CaseMoment
      BY <1>1, <1>4 DEF AuditInit, WellFormed
    <2> HIDE DEF m, past
    <2>2. log \in Seq(CaseMoment) /\ log # <<>> /\ log[Len(log)] = m
      BY <2>1
    <2> QED
      BY <2>2 DEF m
  <1>6. CaseTyped
    BY <1>2, <1>3, <1>5 DEF CaseTyped
  <1>7. clerk = [p \in Clerk |-> clerk[p]] /\ \A p \in Clerk : WellBegun(scenario, p)
    BY <1>1 DEF AuditInit, WellFormed
  \* What a script that has begun has.
  <1>8. ASSUME NEW p \in Clerk
        PROVE  /\ DOMAIN clerk[p] = Fields
               /\ \/ clerk[p] = Waiting
                  \/ /\ Asked(p).script = "record" /\ clerk[p].at = "receipt"
                     /\ clerk[p].read = With(<<>>, "root", clerk[p].read["root"])
                     /\ clerk[p].read["root"] \in Documents
    <2>1. CASE clerk[p] = Waiting
      BY <2>1, WaitingIs
    <2>2. CASE clerk[p] # Waiting
      <3> DEFINE r == clerk[p].receipt
                 root == clerk[p].read["root"]
                 w == RootConfirmed(r, root)
      <3>1. /\ Asked(p).script = "record" /\ clerk[p] = w
            /\ \E i \in DOMAIN MomentsOf(scenario) : root = MomentsOf(scenario)[i].documents
        BY <1>7, <2>2 DEF WellBegun, AuditInit, Asked
      <3>2. DOMAIN w = Fields /\ w.at = "receipt" /\ w.read = With(<<>>, "root", root)
        BY WaitingIs DEF RootConfirmed, Fields
      <3>3. root \in Documents
        <4>1. MomentsOf(scenario) \in Seq(CaseMoment)
          <5> DEFINE m == [documents |-> scenario.documents, evidence |-> scenario.evidence]
          <5>1. m \in CaseMoment /\ scenario.past \in Seq(CaseMoment)
            BY <1>1 DEF WellFormed, CaseMoment
          <5> HIDE DEF m
          <5>2. Append(scenario.past, m) \in Seq(CaseMoment)
            BY <5>1
          <5> QED
            BY <5>2 DEF MomentsOf, m
        <4>2. PICK i \in DOMAIN MomentsOf(scenario) : root = MomentsOf(scenario)[i].documents
          BY <3>1
        <4>3. MomentsOf(scenario)[i] \in CaseMoment
          BY <4>1
        <4> QED
          BY <4>2, <4>3 DEF CaseMoment
      <3> HIDE DEF w
      <3> QED
        BY <3>1, <3>2, <3>3
    <2> QED
      BY <2>1, <2>2
  <1>9. Shaped
    BY <1>7, <1>8 DEF Shaped
  <1>10. ASSUME NEW p \in Clerk PROVE ScriptOK(p) /\ ReadsKept(p) /\ clerk[p].at # "fill"
    <2>1. CASE clerk[p] = Waiting
      <3>1. clerk[p].at = "waiting" /\ clerk[p].read = <<>>
        BY <2>1, WaitingIs
      <3>2. Reading(p) /\ HasRead(p) /\ ReadsKept(p)
        BY <3>1, Phases DEF Reading, HasRead, ReadsKept
      <3> QED
        BY <3>1, <3>2 DEF ScriptOK, Stage, Creating
    <2>2. CASE clerk[p] # Waiting
      <3>1. /\ Asked(p).script = "record" /\ clerk[p].at = "receipt"
            /\ DOMAIN clerk[p].read = {"root"} /\ clerk[p].read["root"] \in Documents
        <4>1. \A root : DOMAIN With(<<>>, "root", root) = {"root"}
          BY DEF With
        <4> QED
          BY <1>8, <2>2, <4>1
      <3>2. Reading(p) /\ ReadsKept(p)
        BY <3>1, Phases DEF Reading, ReadsKept
      <3>3. HasRead(p)
        BY <3>1 DEF HasRead, Complete, Documents
      <3> QED
        BY <3>1, <3>2, <3>3 DEF ScriptOK, Stage, Creating
    <2> QED
      BY <2>1, <2>2
  <1>11. FilledOnce /\ \A p \in Clerk : Filled(p)
    BY <1>10 DEF FilledOnce, Filled
  <1> QED
    BY <1>1, <1>6, <1>9, <1>10, <1>11 DEF CaseInv, OneCase

LEMMA CaseStays == CaseInv /\ [AuditNext]_auditVars => CaseInv'
  <1>1. ASSUME CaseInv, AuditNext PROVE CaseInv'
    <2>0. /\ CaseTyped /\ OneCase /\ answered \subseteq CaseId /\ chosen \in DOMAIN AuditScenarios
          /\ Shaped /\ FilledOnce /\ \A p \in Clerk : ScriptOK(p) /\ ReadsKept(p) /\ Filled(p)
      BY <1>1 DEF CaseInv
    <2>1. CaseTyped' /\ KeepsRead
      BY <1>1, CaseMoves
    <2>2. ASSUME NEW p \in Clerk, ScriptStep(p) PROVE CaseInv'
      <3>1. Alone(p) /\ ScriptOK(p)' /\ chosen' = chosen /\ \A q \in Clerk : Asked(q)' = Asked(q)
        BY <1>1, <2>2, ScriptsInOrder, AskedKept
      <3>2. ReadsKept(p)'
        BY <1>1, <2>1, <2>2, ReadsStayKept
      <3>3. ASSUME NEW q \in Clerk, q # p PROVE ScriptOK(q)' /\ ReadsKept(q)'
        <4>1. clerk'[q] = clerk[q] /\ Asked(q)' = Asked(q) /\ ScriptOK(q) /\ ReadsKept(q)
          BY <2>0, <3>1, <3>3 DEF Alone
        <4>2. ScriptOK(q)'
          BY <4>1 DEF ScriptOK, Stage, Reading, HasRead, Creating, Complete, Found, Got
        <4>3. ReadsKept(q)'
          BY <2>1, <4>1, KeptNext DEF ReadsKept
        <4> QED
          BY <4>2, <4>3
      <3>4. FilledOnce' /\ \A q \in Clerk : Filled(q)'
        BY <1>1, <2>2, <3>1, FilesStayFilledOnce
      <3>5. OneCase' /\ answered' \subseteq CaseId
        <4>1. CASE AnswerEnsure(p)
          BY <1>1, <4>1, EnsureAnswers
        <4>2. CASE ~AnswerEnsure(p)
          BY <2>0, <2>1, <2>2, <4>2, AnswersKept, OneCaseStays
        <4> QED
          BY <4>1, <4>2
      <3>6. \A q \in Clerk : ScriptOK(q)' /\ ReadsKept(q)'
        BY <3>1, <3>2, <3>3
      <3> QED
        BY <2>0, <2>1, <3>1, <3>4, <3>5, <3>6 DEF CaseInv, Alone
    <2>3. ASSUME NEW e \in AuditEdits, EditCase(e) PROVE CaseInv'
      <3>1. clerk' = clerk /\ answered' = answered /\ chosen' = chosen
        BY <2>3 DEF EditCase, theRest
      <3>2. \A q \in Clerk : ScriptOK(q)'
        BY <2>0, <3>1 DEF ScriptOK, Stage, Reading, HasRead, Creating, Complete, Found, Got, Asked,
           scenario, Planned
      <3>3. \A q \in Clerk : ReadsKept(q)'
        BY <2>0, <2>1, <3>1, KeptNext DEF ReadsKept
      <3>4. Shaped' /\ FilledOnce'
        BY <2>0, <3>1 DEF Shaped, FilledOnce
      <3>5. \A q \in Clerk : Filled(q)'
        <4> SUFFICES ASSUME NEW q \in Clerk, clerk[q].at = "fill"
                     PROVE  documents'[Head(clerk[q].todo)] = Partial
          BY <3>1 DEF Filled
        <4> DEFINE f == Head(clerk[q].todo)
        <4>1. documents[f] = Partial /\ f \in CaseFiles
          BY <2>0, FirstAndRest DEF Filled, ScriptOK, Creating
        <4> HIDE DEF f
        <4>2. documents'[f] = documents[f]
          BY <2>0, <2>3, <4>1 DEF EditCase, CaseTyped
        <4> QED
          BY <4>1, <4>2 DEF f
      <3>6. OneCase'
        BY <2>0, <2>1, <3>1, OneCaseStays
      <3> QED
        BY <2>0, <2>1, <3>1, <3>2, <3>3, <3>4, <3>5, <3>6 DEF CaseInv
    <2> QED
      BY <1>1, <2>2, <2>3 DEF AuditNext
  <1>2. ASSUME CaseInv, UNCHANGED auditVars PROVE CaseInv'
    BY <1>2 DEF CaseInv, auditVars, Shaped, CaseTyped, Now, FilledOnce, ScriptOK, Stage, Reading, HasRead,
       Creating, Complete, Found, Got, ReadsKept, Kept, Filled, OneCase, Parses, Asked, scenario, Planned
  <1> QED
    BY <1>1, <1>2

\* Every state of the scripts over a case satisfies the invariant.
THEOREM CaseInvariant == AuditSpec => []CaseInv
  BY CaseBegins, CaseStays, PTL DEF AuditSpec

\* Whatever the scripts and the edits do, and wherever a script dies, all that
\* ensure has answered about a directory is one case, which the directory holds.
THEOREM EnsureAnswersOneCase == AuditSpec => []OneCase
  <1>1. CaseInv => OneCase
    BY DEF CaseInv
  <1> QED
    BY <1>1, CaseInvariant, PTL

-----------------------------------------------------------------------------
(* The bundle.                                                                *)

\* The output directory holds what the scripts put there.
Outputs == CaseFiles \cup Artifact \cup {"summary", "manifest"}
OutputTyped ==
    /\ DOMAIN output \subseteq Outputs /\ writers \subseteq Clerk
    /\ \A f \in DOMAIN output \cap CaseFiles : output[f] \in Document(f) \cup {Partial}
    /\ \A a \in DOMAIN output \cap Artifact : output[a] \in Content

\* A script that writes there, and how far it is.
Writing(p) == clerk[p].at \in {"copy", "bundle", "summary", "manifest"}
Copying(p) ==
    clerk[p].at = "copy" =>
        /\ clerk[p].todo \in Seq(CaseFiles \cup Artifact) /\ clerk[p].todo # <<>>
        /\ Range(clerk[p].todo) \subseteq ListedFiles(p)
        /\ ListedFiles(p) \subseteq DOMAIN output \cup Range(clerk[p].todo)
Exported(p) ==
    Asked(p).script = "export" =>
        /\ Writing(p) /\ writers = {p} => DOMAIN output \subseteq ListedFiles(p) \cup {"summary"}
        /\ clerk[p].at \in {"bundle", "summary", "manifest"} => ListedFiles(p) \subseteq DOMAIN output
        /\ clerk[p].at \in {"summary", "manifest"} => ReadyForHumanReview(Bundled, Bundled)
Summed(p) ==
    clerk[p].at = "manifest" => "summary" \in DOMAIN output /\ output["summary"] = SummaryOf(p)
Rendered(p) ==
    Asked(p).script = "render" /\ clerk[p].at = "written" =>
        /\ {"summary", "manifest"} \subseteq DOMAIN output
        /\ output["manifest"].source = Got(p, "root") /\ output["summary"] = Got(p, "load")
BundleOK(p) ==
    (Writing(p) => p \in writers) /\ Copying(p) /\ Exported(p) /\ Summed(p) /\ Rendered(p)

\* The manifest of an export, once it is written.
ManifestOK ==
    "manifest" \in DOMAIN output /\ Asked(output["manifest"].by).script = "export" =>
        LET m == output["manifest"]
        IN  /\ m.by \in writers
            /\ CaseFiles \cup {"summary"} \subseteq DOMAIN m.files
            /\ DOMAIN m.files \subseteq DOMAIN output
            /\ \A x \in DOMAIN m.files : output[x] = m.files[x]
            /\ ReadyForHumanReview(Bundled, Bundled)
            /\ output["summary"] = Restrict(Bundled, CaseFiles)
            /\ Indexed(Bundled) \subseteq DOMAIN m.files \/ writers # {m.by}

BundleInv == OutputTyped /\ ManifestOK /\ \A p \in Clerk : BundleOK(p)

\* What is in the output directory stays as it is.
OutputGrows ==
    /\ DOMAIN output \subseteq DOMAIN output' /\ writers \subseteq writers'
    /\ \A x \in DOMAIN output : output'[x] = output[x]

\* The entries have names of their own.
LEMMA OutputNames ==
  /\ "summary" \notin CaseFiles \cup Artifact /\ "manifest" \notin CaseFiles \cup Artifact
  /\ \A f \in CaseFiles : f \notin Artifact
  BY TheFiles, CaseAssumption

\* The paths of an export are those of the documents, and of artifacts.
LEMMA ListIs ==
  ASSUME CaseInv, NEW p \in Clerk, Complete(p, "load")
  PROVE  /\ Listed(p) \in Seq(CaseFiles \cup Artifact) /\ Listed(p) # <<>>
         /\ CaseFiles \subseteq ListedFiles(p) /\ ListedFiles(p) \subseteq CaseFiles \cup Artifact
         /\ ListedFiles(p) = Indexed(Got(p, "load")) \cup CaseFiles
  <1> DEFINE S == Indexed(Got(p, "load"))
             t == <<"scope", "inventory", "index", "review", "actions">>
  <1>1. Got(p, "load")["index"] \in Document("index")
    BY TheFiles, Phases DEF CaseInv, ReadsKept, Kept, Complete, Got
  <1>2. S \subseteq Artifact /\ IsFiniteSet(S)
    BY <1>1, DocumentTyped, FS_Subset, CaseAssumption DEF Indexed
  <1> HIDE DEF S
  <1>3. SetToSeq(S) \in Seq(S) /\ Range(SetToSeq(S)) = S
    BY <1>2, SequenceOfSet
  <1>4. t \in Seq(CaseFiles) /\ Range(t) = CaseFiles
    <2>1. t \in Seq(CaseFiles) /\ Len(t) = 5 /\ DOMAIN t = 1..5
      BY TheFiles
    <2>2. /\ t[1] = "scope" /\ t[2] = "inventory" /\ t[3] = "index" /\ t[4] = "review"
          /\ t[5] = "actions"
      OBVIOUS
    <2>3. 1 \in 1..5 /\ 2 \in 1..5 /\ 3 \in 1..5 /\ 4 \in 1..5 /\ 5 \in 1..5
      OBVIOUS
    <2>4. Range(t) \subseteq CaseFiles
      BY <2>1 DEF Range
    <2> HIDE DEF t
    <2>5. CaseFiles \subseteq Range(t)
      BY <2>1, <2>2, <2>3, TheFiles DEF Range
    <2> QED
      BY <2>1, <2>4, <2>5
  <1> HIDE DEF t
  <1>5. Listed(p) = SetToSeq(S) \o t
    BY DEF Listed, S, t
  <1>6. SetToSeq(S) \in Seq(CaseFiles \cup Artifact) /\ t \in Seq(CaseFiles \cup Artifact)
    BY <1>2, <1>3, <1>4
  <1>7. Listed(p) \in Seq(CaseFiles \cup Artifact) /\ Range(Listed(p)) = S \cup CaseFiles
    BY <1>3, <1>4, <1>5, <1>6, RangeOfBoth
  <1>8. Listed(p) # <<>>
    <2>1. Range(<<>>) = {}
      BY DEF Range
    <2> QED
      BY <1>7, <2>1, TheFiles
  <1> QED
    BY <1>2, <1>7, <1>8 DEF ListedFiles, S

\* A bundle that is ready stays so, and nothing of it changes.
LEMMA ReadyStays ==
  ASSUME OutputTyped, OutputGrows, ReadyForHumanReview(Bundled, Bundled)
  PROVE  /\ ReadyForHumanReview(Bundled, Bundled)'
         /\ CaseFiles \subseteq DOMAIN output /\ Indexed(Bundled) \subseteq DOMAIN output
         /\ (Indexed(Bundled))' = Indexed(Bundled)
         /\ Restrict(Bundled, CaseFiles)' = Restrict(Bundled, CaseFiles)
  <1>1. \A f \in CaseFiles : Bundled[f] \notin {Absent, Partial}
    BY DEF ReadyForHumanReview, ValidCase, Parses
  <1>2. \A x \in CaseFiles \cup Artifact : Bundled[x] # Absent => x \in DOMAIN output /\ Bundled[x] = output[x]
    BY DEF Bundled
  <1>3. \A x \in DOMAIN output \cap (CaseFiles \cup Artifact) : Bundled'[x] = Bundled[x]
    BY DEF OutputGrows, Bundled
  <1>4. CaseFiles \subseteq DOMAIN output /\ \A f \in CaseFiles : Bundled'[f] = Bundled[f]
    BY <1>1, <1>2, <1>3
  <1>5. Bundled["index"] \in Document("index")
    BY <1>1, <1>2, <1>4, TheFiles DEF OutputTyped
  <1>6. \A a \in Indexed(Bundled) : a \in Artifact /\ Bundled[a] = Bundled["index"].artifacts[a]
                                    /\ Bundled[a] # Absent
    <2>1. \A a \in Indexed(Bundled) : a \in Artifact /\ Bundled["index"].artifacts[a] \in Content
      BY <1>5, DocumentTyped DEF Indexed
    <2>2. \A a \in Indexed(Bundled) : Bundled[a] = Bundled["index"].artifacts[a]
      BY DEF ReadyForHumanReview, ValidCase
    <2> QED
      BY <2>1, <2>2, CaseAssumption
  <1>7. Indexed(Bundled) \subseteq DOMAIN output /\ \A a \in Indexed(Bundled) : Bundled'[a] = Bundled[a]
    BY <1>2, <1>3, <1>6
  <1>8. (Indexed(Bundled))' = Indexed(Bundled)
    BY <1>4, TheFiles DEF Indexed
  <1>9. Restrict(Bundled, CaseFiles)' = Restrict(Bundled, CaseFiles)
    BY <1>4 DEF Restrict
  <1>10. ReadyForHumanReview(Bundled, Bundled)'
    <2>1. /\ Parses(Bundled) /\ SameCase(Bundled)
          /\ \A f \in CaseFiles \ {"index"} : Bundled[f].refs \subseteq Indexed(Bundled)
          /\ Indexed(Bundled) \subseteq Bundled["scope"].refs
          /\ \A a \in Indexed(Bundled) : Bundled[a] = Bundled["index"].artifacts[a]
          /\ Bundled["review"].requested /\ InternallyReady(Bundled)
      BY DEF ReadyForHumanReview, ValidCase
    <2>2. {"scope", "index", "review"} \subseteq CaseFiles
      BY TheFiles
    <2>3. Parses(Bundled)' /\ SameCase(Bundled)'
      BY <1>4, <2>1, <2>2 DEF Parses, SameCase
    <2>4. InternallyReady(Bundled)'
      BY <1>4, <1>8, <2>1, <2>2 DEF InternallyReady
    <2> QED
      BY <1>4, <1>7, <1>8, <2>1, <2>2, <2>3, <2>4 DEF ReadyForHumanReview, ValidCase
  <1> QED
    BY <1>4, <1>7, <1>8, <1>9, <1>10

\* Only the scripts that write there touch the output directory.
LEMMA OutputUntouched ==
  ASSUME NEW p \in Clerk, ScriptStep(p), ~BundleStep(p)
  PROVE  output' = output /\ writers' = writers
  BY DEF BundleStep, ScriptStep, ReadNext, CrashClerk, AskEnsure, PrepareCase, CreateDocument,
     WriteDocument, CheckCase, AnswerEnsure, AskRecord, TakeRoot, CheckReceipt, CheckReviewed,
     ConfirmRoot, CreateReceipt, WriteReceipt, AnswerRecord, AskExport, LoadReady, AskRender,
     RenderReads, AskCapture, CaptureAgain, AnswerCapture

\* One more entry.
LEMMA OutputWith ==
  ASSUME OutputTyped, NEW x \in Outputs, x \notin DOMAIN output, NEW v, output' = With(output, x, v),
         x \in CaseFiles => v \in Document(x) \cup {Partial}, x \in Artifact => v \in Content,
         writers' = writers
  PROVE  /\ OutputTyped' /\ OutputGrows
         /\ DOMAIN output' = DOMAIN output \cup {x} /\ output'[x] = v
  <1>1. /\ DOMAIN output' = DOMAIN output \cup {x} /\ output'[x] = v
        /\ \A y \in DOMAIN output : output'[y] = output[y]
    BY DEF With
  <1> QED
    BY <1>1 DEF OutputTyped, OutputGrows

\* What a script that writes there does to the output directory: it adds at most
\* one entry, and nobody's but those who found it empty.
Adds(p, x) ==
    /\ p \in writers /\ writers' = writers /\ x \in Outputs \ DOMAIN output
    /\ DOMAIN output' = DOMAIN output \cup {x}
Prepares(p) == output = <<>> /\ output' = output /\ writers' = writers \cup {p}

LEMMA OutputMoves ==
  ASSUME CaseInv, BundleInv, NEW p \in Clerk, ScriptStep(p)
  PROVE  /\ OutputTyped' /\ OutputGrows
         /\ \/ output' = output /\ writers' = writers
            \/ Prepares(p)
            \/ \E x : Adds(p, x)
  <1>0. /\ OutputTyped /\ BundleOK(p) /\ CaseTyped
    BY DEF BundleInv, CaseInv
  <1>1. CASE output' = output /\ (writers' = writers \/ Prepares(p))
    <2>1. writers' \subseteq Clerk /\ writers \subseteq writers'
      BY <1>0, <1>1 DEF OutputTyped, Prepares
    <2> QED
      BY <1>0, <1>1, <2>1 DEF OutputTyped, OutputGrows
  <1>2. CASE ~BundleStep(p)
    BY <1>1, <1>2, OutputUntouched
  <1>3. CASE PrepareOutput(p)
    BY <1>1, <1>3 DEF PrepareOutput, Prepares
  <1>4. CASE CheckBundle(p)
    BY <1>1, <1>4 DEF CheckBundle
  <1>5. CASE CopyNext(p)
    <2> DEFINE x == Head(clerk[p].todo)
               v == Lying(Now, x)
    <2>1. CASE output' = output
      BY <1>1, <1>5, <2>1 DEF CopyNext
    <2>2. CASE output' # output
      <3>1. /\ v # Absent /\ x \notin DOMAIN output /\ output' = With(output, x, v)
            /\ writers' = writers /\ clerk[p].at = "copy"
        BY <1>5, <2>2 DEF CopyNext
      <3>2. p \in writers /\ x \in CaseFiles \cup Artifact
        BY <1>0, <3>1, FirstAndRest DEF BundleOK, Writing, Copying
      <3>3. x \in CaseFiles => v \in Document(x) \cup {Partial}
        BY <1>0, <3>1, OutputNames DEF CaseTyped, OnDisk, Lying, Now
      <3>4. x \in Artifact => v \in Content
        BY <1>0, <3>1 DEF CaseTyped, Evidence, Lying, Now
      <3> HIDE DEF x, v
      <3>5. /\ OutputTyped' /\ OutputGrows
            /\ DOMAIN output' = DOMAIN output \cup {x}
        BY <1>0, <3>1, <3>2, <3>3, <3>4, OutputWith DEF Outputs
      <3>6. Adds(p, x)
        BY <3>1, <3>2, <3>5 DEF Adds, Outputs
      <3> QED
        BY <3>5, <3>6
    <2> QED
      BY <2>1, <2>2
  <1>6. CASE WriteSummary(p) \/ WriteManifest(p)
    <2>1. CASE output' = output
      BY <1>1, <1>6, <2>1 DEF WriteSummary, WriteManifest
    <2>2. CASE output' # output
      <3>1. PICK x, v : /\ x \in {"summary", "manifest"} /\ x \notin DOMAIN output
                        /\ output' = With(output, x, v) /\ writers' = writers
        BY <1>6, <2>2 DEF WriteSummary, WriteManifest
      <3>2. p \in writers
        BY <1>0, <1>6 DEF BundleOK, Writing, WriteSummary, WriteManifest
      <3>3. /\ OutputTyped' /\ OutputGrows
            /\ DOMAIN output' = DOMAIN output \cup {x}
        BY <1>0, <3>1, OutputWith, OutputNames DEF Outputs
      <3>4. Adds(p, x)
        BY <3>1, <3>2, <3>3 DEF Adds, Outputs
      <3> QED
        BY <3>3, <3>4
    <2> QED
      BY <2>1, <2>2
  <1> QED
    BY <1>2, <1>3, <1>4, <1>5, <1>6 DEF BundleStep

\* What a script has to copy is settled when it has read the index.
LEMMA ListStays ==
  ASSUME NEW p \in Clerk, clerk'[p].read["load"] = clerk[p].read["load"]
  PROVE  ListedFiles(p)' = ListedFiles(p) /\ Got(p, "load")' = Got(p, "load")
  BY DEF ListedFiles, Listed, Got

\* A script that does not move keeps what it has made sure of.
LEMMA BundleKept ==
  ASSUME CaseInv, BundleInv, NEW p \in Clerk, ScriptStep(p), NEW q \in Clerk, q # p, Alone(p)
  PROVE  BundleOK(q)'
  <1>1. /\ OutputTyped /\ BundleOK(q) /\ clerk'[q] = clerk[q] /\ Asked(q)' = Asked(q) /\ OutputGrows
    BY AskedKept, OutputMoves DEF BundleInv, Alone
  <1>2. /\ ListedFiles(q)' = ListedFiles(q) /\ Got(q, "load")' = Got(q, "load")
        /\ Got(q, "root")' = Got(q, "root")
    BY <1>1, ListStays DEF Got
  <1>3. Writing(q)' => q \in writers'
    BY <1>1 DEF BundleOK, Writing, OutputGrows
  <1>4. Copying(q)'
    <2>1. Copying(q) /\ DOMAIN output \subseteq DOMAIN output'
      BY <1>1 DEF BundleOK, OutputGrows
    <2> QED
      BY <1>1, <1>2, <2>1 DEF Copying
  <1>5. Exported(q)'
    <2> SUFFICES ASSUME Asked(q).script = "export" PROVE Exported(q)'
      BY <1>1 DEF Exported
    <2>1. ASSUME Writing(q), writers' = {q} PROVE DOMAIN output' \subseteq ListedFiles(q) \cup {"summary"}
      <3>1. q \in writers /\ writers = {q}
        BY <1>1, <2>1 DEF BundleOK, OutputGrows
      <3>2. output' = output
        BY <2>1, <3>1, OutputMoves DEF Prepares, Adds
      <3> QED
        BY <1>1, <2>1, <3>1, <3>2 DEF BundleOK, Exported
    <2>2. clerk[q].at \in {"summary", "manifest"} => ReadyForHumanReview(Bundled, Bundled)'
      BY <1>1, ReadyStays DEF BundleOK, Exported
    <2>3. clerk[q].at \in {"bundle", "summary", "manifest"} => ListedFiles(q) \subseteq DOMAIN output'
      BY <1>1 DEF BundleOK, Exported, OutputGrows
    <2> QED
      BY <1>1, <1>2, <2>1, <2>2, <2>3 DEF Exported, Writing
  <1>6. Summed(q)'
    <2> SUFFICES ASSUME clerk[q].at = "manifest"
                 PROVE  "summary" \in DOMAIN output' /\ output'["summary"] = SummaryOf(q)'
      BY <1>1 DEF Summed
    <2>1. "summary" \in DOMAIN output /\ output["summary"] = SummaryOf(q)
      BY <1>1 DEF BundleOK, Summed
    <2>2. SummaryOf(q)' = SummaryOf(q)
      <3>1. CASE Asked(q).script = "export"
        <4>1. Restrict(Bundled, CaseFiles)' = Restrict(Bundled, CaseFiles)
          BY <1>1, <3>1, ReadyStays DEF BundleOK, Exported
        <4> QED
          BY <1>1, <3>1, <4>1 DEF SummaryOf
      <3>2. CASE Asked(q).script # "export"
        BY <1>1, <1>2, <3>2 DEF SummaryOf
      <3> QED
        BY <3>1, <3>2
    <2> QED
      BY <1>1, <2>1, <2>2 DEF OutputGrows
  <1>7. Rendered(q)'
    <2> SUFFICES ASSUME Asked(q).script = "render", clerk[q].at = "written"
                 PROVE  /\ {"summary", "manifest"} \subseteq DOMAIN output'
                        /\ output'["manifest"].source = Got(q, "root")
                        /\ output'["summary"] = Got(q, "load")
      BY <1>1, <1>2 DEF Rendered
    <2>1. /\ {"summary", "manifest"} \subseteq DOMAIN output
          /\ output["manifest"].source = Got(q, "root") /\ output["summary"] = Got(q, "load")
      BY <1>1 DEF BundleOK, Rendered
    <2>2. output'["manifest"] = output["manifest"] /\ output'["summary"] = output["summary"]
      BY <1>1, <2>1 DEF OutputGrows
    <2> QED
      BY <1>1, <2>1, <2>2 DEF OutputGrows
  <1> QED
    BY <1>3, <1>4, <1>5, <1>6, <1>7 DEF BundleOK

\* A script that does not write there has nothing to make sure of.
LEMMA NotWriting ==
  ASSUME NEW p \in Clerk, clerk'[p].at \notin BundlePhases
  PROVE  BundleOK(p)'
  BY DEF BundleOK, Writing, Copying, Exported, Summed, Rendered, BundlePhases

\* A script that enters a phase of the bundle, and has read what it lists.
LEMMA EntersBundle ==
  ASSUME Shaped, NEW p \in Clerk, NEW phase \in BundlePhases, NEW todo, MoveTo(p, phase, todo)
  PROVE  /\ clerk'[p].at = phase /\ clerk'[p].todo = todo
         /\ Complete(p, "load") => ListedFiles(p)' = ListedFiles(p) /\ Got(p, "load")' = Got(p, "load")
         /\ Complete(p, "root") => Got(p, "root")' = Got(p, "root")
  <1>1. clerk'[p].at = phase /\ clerk'[p].todo = todo /\ clerk'[p].read = With(clerk[p].read, phase, <<>>)
    BY MoveGives DEF Steps
  <1>2. ASSUME NEW other \in {"load", "root"}, Complete(p, other)
        PROVE  clerk'[p].read[other] = clerk[p].read[other]
    BY <1>1, <1>2 DEF With, Complete, BundlePhases
  <1> QED
    BY <1>1, <1>2, ListStays DEF Got

LEMMA PreparesBundle ==
  ASSUME CaseInv, BundleInv, NEW p \in Clerk, ScriptStep(p), PrepareOutput(p), ~Stop(p)
  PROVE  BundleOK(p)'
  <1>0. Shaped /\ Reading(p) /\ HasRead(p) /\ Asked(p)' = Asked(p)
    BY AskedKept DEF CaseInv, ScriptOK
  <1>1. output = <<>> /\ output' = output /\ writers' = writers \cup {p}
    BY DEF PrepareOutput, Require
  <1>2. DOMAIN output' = {}
    BY <1>1
  <1>3. CASE Reached(p, "export", "load")
    <2>1. MoveTo(p, "copy", Listed(p)) /\ Asked(p).script = "export"
      BY <1>3 DEF PrepareOutput, Require, Reached
    <2>2. Complete(p, "load")
      BY <1>0, <1>3, PhaseComplete, Phases DEF Reached
    <2>3. /\ clerk'[p].at = "copy" /\ clerk'[p].todo = Listed(p) /\ ListedFiles(p)' = ListedFiles(p)
      BY <1>0, <2>1, <2>2, EntersBundle DEF BundlePhases
    <2>4. Copying(p)'
      BY <2>2, <2>3, ListIs DEF Copying, ListedFiles
    <2> QED
      BY <1>0, <1>1, <1>2, <2>1, <2>3, <2>4 DEF BundleOK, Writing, Exported, Summed, Rendered
  <1>4. CASE Reached(p, "render", "confirm")
    <2>1. MoveTo(p, "summary", <<>>) /\ Asked(p).script = "render"
      BY <1>4 DEF PrepareOutput, Require, Reached
    <2>2. clerk'[p].at = "summary"
      BY <1>0, <2>1, EntersBundle DEF BundlePhases
    <2> QED
      BY <1>0, <1>1, <2>1, <2>2 DEF BundleOK, Writing, Copying, Exported, Summed, Rendered
  <1> QED
    BY <1>3, <1>4 DEF PrepareOutput

LEMMA CopiesBundle ==
  ASSUME CaseInv, BundleInv, NEW p \in Clerk, ScriptStep(p), CopyNext(p), ~Stop(p)
  PROVE  BundleOK(p)'
  <1> DEFINE x == Head(clerk[p].todo)
             left == Tail(clerk[p].todo)
             v == Lying(Now, x)
             phase == IF left = <<>> THEN "bundle" ELSE "copy"
  <1>0. /\ Shaped /\ HasRead(p) /\ Asked(p)' = Asked(p) /\ clerk[p].at = "copy" /\ BundleOK(p)
        /\ Stage(p)
    BY AskedKept DEF CaseInv, BundleInv, ScriptOK, CopyNext
  <1>1. /\ output' = With(output, x, v) /\ writers' = writers /\ MoveTo(p, phase, left)
        /\ phase \in {"copy", "bundle"} /\ (phase = "copy" <=> left # <<>>)
    BY DEF CopyNext
  <1>2. Asked(p).script = "export" /\ Complete(p, "load")
    BY <1>0 DEF Stage, HasRead
  <1>3. /\ clerk[p].todo \in Seq(CaseFiles \cup Artifact) /\ clerk[p].todo # <<>>
        /\ Range(clerk[p].todo) \subseteq ListedFiles(p)
        /\ ListedFiles(p) \subseteq DOMAIN output \cup Range(clerk[p].todo)
        /\ p \in writers
        /\ writers = {p} => DOMAIN output \subseteq ListedFiles(p) \cup {"summary"}
    BY <1>0, <1>2 DEF BundleOK, Copying, Exported, Writing
  <1>4. left \in Seq(CaseFiles \cup Artifact) /\ Range(clerk[p].todo) = {x} \cup Range(left)
    BY <1>3, FirstAndRest
  <1>5. DOMAIN output' = DOMAIN output \cup {x}
    BY <1>1, WithGives
  <1> HIDE DEF x, left, v, phase
  <1>6. /\ clerk'[p].at = phase /\ clerk'[p].todo = left /\ ListedFiles(p)' = ListedFiles(p)
    BY <1>0, <1>1, <1>2, EntersBundle DEF BundlePhases
  <1>7. left = <<>> => Range(left) = {}
    BY DEF Range
  <1>8. Copying(p)'
    BY <1>1, <1>3, <1>4, <1>5, <1>6 DEF Copying
  <1>9. Exported(p)'
    BY <1>1, <1>3, <1>4, <1>5, <1>6, <1>7 DEF Exported
  <1> QED
    BY <1>1, <1>3, <1>6, <1>8, <1>9 DEF BundleOK, Summed, Rendered

LEMMA ChecksBundle ==
  ASSUME CaseInv, BundleInv, NEW p \in Clerk, ScriptStep(p), CheckBundle(p), ~Stop(p)
  PROVE  BundleOK(p)'
  <1>0. /\ Shaped /\ HasRead(p) /\ Asked(p)' = Asked(p) /\ clerk[p].at = "bundle" /\ BundleOK(p)
        /\ Asked(p).script = "export"
    BY AskedKept DEF CaseInv, BundleInv, ScriptOK, CheckBundle, Reached
  <1>1. /\ output' = output /\ writers' = writers /\ MoveTo(p, "summary", <<>>)
        /\ ReadyForHumanReview(Bundled, Bundled)
    BY DEF CheckBundle, Require
  <1>2. /\ clerk'[p].at = "summary" /\ ListedFiles(p)' = ListedFiles(p)
    BY <1>0, <1>1, EntersBundle DEF BundlePhases, HasRead
  <1>3. ReadyForHumanReview(Bundled, Bundled)'
    BY <1>1 DEF Bundled
  <1>4. /\ p \in writers /\ ListedFiles(p) \subseteq DOMAIN output
        /\ writers = {p} => DOMAIN output \subseteq ListedFiles(p) \cup {"summary"}
    BY <1>0 DEF BundleOK, Exported, Writing
  <1> QED
    BY <1>0, <1>1, <1>2, <1>3, <1>4 DEF BundleOK, Copying, Exported, Summed, Rendered

LEMMA SumsBundle ==
  ASSUME CaseInv, BundleInv, NEW p \in Clerk, ScriptStep(p), WriteSummary(p), ~Stop(p)
  PROVE  BundleOK(p)'
  <1> DEFINE v == SummaryOf(p)
  <1>0. /\ Shaped /\ HasRead(p) /\ Stage(p) /\ Asked(p)' = Asked(p) /\ clerk[p].at = "summary"
        /\ BundleOK(p) /\ OutputTyped /\ OutputGrows
    BY AskedKept, OutputMoves DEF CaseInv, BundleInv, ScriptOK, WriteSummary
  <1>1. output' = With(output, "summary", v) /\ writers' = writers /\ MoveTo(p, "manifest", <<>>)
    BY DEF WriteSummary
  <1>2. Asked(p).script \in {"export", "render"} /\ Complete(p, "load")
    BY <1>0 DEF Stage, HasRead
  <1>3. /\ clerk'[p].at = "manifest" /\ ListedFiles(p)' = ListedFiles(p)
        /\ Got(p, "load")' = Got(p, "load")
    BY <1>0, <1>1, <1>2, EntersBundle DEF BundlePhases
  <1>4. /\ p \in writers
        /\ Asked(p).script = "export" =>
              /\ writers = {p} => DOMAIN output \subseteq ListedFiles(p) \cup {"summary"}
              /\ ListedFiles(p) \subseteq DOMAIN output
              /\ ReadyForHumanReview(Bundled, Bundled)
    BY <1>0 DEF BundleOK, Exported, Writing
  <1>5. DOMAIN output' = DOMAIN output \cup {"summary"} /\ output'["summary"] = v
    <2> HIDE DEF v
    <2> QED
      BY <1>1 DEF With
  <1>6. Asked(p).script = "export" =>
           /\ ReadyForHumanReview(Bundled, Bundled)'
           /\ Restrict(Bundled, CaseFiles)' = Restrict(Bundled, CaseFiles)
    BY <1>0, <1>4, ReadyStays
  <1>7. SummaryOf(p)' = v
    BY <1>0, <1>3, <1>6 DEF SummaryOf
  <1> HIDE DEF v
  <1>8. Exported(p)'
    BY <1>0, <1>1, <1>3, <1>4, <1>5, <1>6 DEF Exported
  <1> QED
    BY <1>1, <1>3, <1>4, <1>5, <1>7, <1>8 DEF BundleOK, Copying, Summed, Rendered

LEMMA SignsBundle ==
  ASSUME CaseInv, BundleInv, NEW p \in Clerk, ScriptStep(p), WriteManifest(p), ~Stop(p)
  PROVE  BundleOK(p)'
  <1>0. /\ Shaped /\ Asked(p)' = Asked(p) /\ clerk[p].at = "manifest" /\ BundleOK(p) /\ OutputGrows
    BY AskedKept, OutputMoves DEF CaseInv, BundleInv, WriteManifest
  <1>1. output' = With(output, "manifest", Manifest(p)) /\ clerk' = [clerk EXCEPT ![p].at = "written"]
    BY DEF WriteManifest
  <1>2. clerk'[p].at = "written" /\ clerk'[p].read = clerk[p].read
    BY <1>0, <1>1, LabelGives DEF Steps
  <1>3. "summary" \in DOMAIN output /\ output["summary"] = SummaryOf(p)
    BY <1>0 DEF BundleOK, Summed
  <1>4. /\ "manifest" \in DOMAIN output' /\ output'["manifest"] = Manifest(p)
        /\ "summary" \in DOMAIN output' /\ output'["summary"] = SummaryOf(p)
    BY <1>0, <1>1, <1>3 DEF With, OutputGrows
  <1>5. Rendered(p)'
    BY <1>0, <1>2, <1>4 DEF Rendered, Manifest, SummaryOf, Got
  <1> QED
    BY <1>2, <1>5 DEF BundleOK, Writing, Copying, Exported, Summed

\* Only the step that writes a manifest adds one.
LEMMA ManifestAdded ==
  ASSUME CaseInv, BundleInv, NEW p \in Clerk, ScriptStep(p), "manifest" \notin DOMAIN output,
         "manifest" \in DOMAIN output'
  PROVE  WriteManifest(p) /\ ~Stop(p) /\ output' = With(output, "manifest", Manifest(p))
  <1>1. output' # output
    OBVIOUS
  <1>2. BundleStep(p)
    BY <1>1, OutputUntouched
  <1>3. ~PrepareOutput(p) /\ ~CheckBundle(p)
    BY <1>1 DEF PrepareOutput, CheckBundle
  <1>4. ~WriteSummary(p)
    BY <1>1 DEF WriteSummary, With
  <1>5. ~CopyNext(p)
    <2> SUFFICES ASSUME CopyNext(p) PROVE FALSE
      OBVIOUS
    <2>1. clerk[p].at = "copy" /\ Copying(p)
      BY DEF CopyNext, BundleInv, BundleOK
    <2>2. Head(clerk[p].todo) \in CaseFiles \cup Artifact
      BY <2>1, FirstAndRest DEF Copying
    <2>3. Head(clerk[p].todo) # "manifest"
      BY <2>2, OutputNames
    <2> QED
      BY <1>1, <2>3 DEF CopyNext, With
  <1>6. WriteManifest(p)
    BY <1>2, <1>3, <1>4, <1>5 DEF BundleStep
  <1>7. clerk[p].at = "manifest" /\ clerk' = [clerk EXCEPT ![p].at = "written"]
        /\ output' = With(output, "manifest", Manifest(p))
    BY <1>6 DEF WriteManifest
  <1>8. ~Stop(p)
    BY <1>7, StopGives, LabelGives DEF CaseInv, Steps
  <1> QED
    BY <1>6, <1>7, <1>8

\* A manifest lists what is there, and goes on to.
LEMMA ManifestStays ==
  ASSUME CaseInv, BundleInv, NEW p \in Clerk, ScriptStep(p)
  PROVE  ManifestOK'
  <1>0. OutputTyped /\ OutputGrows /\ ManifestOK /\ BundleOK(p) /\ \A q : Asked(q)' = Asked(q)
    <2>1. chosen' = chosen
      BY AskedKept
    <2> QED
      BY <2>1, OutputMoves DEF BundleInv, Asked, scenario, Planned
  <1>1. CASE "manifest" \in DOMAIN output
    <2>1. PICK m : m = output["manifest"]
      OBVIOUS
    <2>2. output'["manifest"] = m
      BY <1>0, <1>1, <2>1 DEF OutputGrows
    <2> SUFFICES ASSUME Asked(m.by).script = "export" PROVE ManifestOK'
      BY <1>0, <2>2 DEF ManifestOK
    <2>3. /\ m.by \in writers
          /\ CaseFiles \cup {"summary"} \subseteq DOMAIN m.files
          /\ DOMAIN m.files \subseteq DOMAIN output
          /\ \A x \in DOMAIN m.files : output[x] = m.files[x]
          /\ ReadyForHumanReview(Bundled, Bundled)
          /\ output["summary"] = Restrict(Bundled, CaseFiles)
          /\ Indexed(Bundled) \subseteq DOMAIN m.files \/ writers # {m.by}
      BY <1>0, <1>1, <2>1 DEF ManifestOK
    <2>4. /\ ReadyForHumanReview(Bundled, Bundled)' /\ (Indexed(Bundled))' = Indexed(Bundled)
          /\ Restrict(Bundled, CaseFiles)' = Restrict(Bundled, CaseFiles)
      BY <1>0, <2>3, ReadyStays
    <2>5. /\ m.by \in writers' /\ DOMAIN m.files \subseteq DOMAIN output'
          /\ \A x \in DOMAIN m.files : output'[x] = m.files[x]
          /\ output'["summary"] = output["summary"]
          /\ writers # {m.by} => writers' # {m.by}
      BY <1>0, <2>3 DEF OutputGrows
    <2> QED
      BY <2>2, <2>3, <2>4, <2>5 DEF ManifestOK
  <1>2. CASE "manifest" \notin DOMAIN output /\ "manifest" \in DOMAIN output'
    <2>1. WriteManifest(p) /\ ~Stop(p) /\ output' = With(output, "manifest", Manifest(p))
      BY <1>2, ManifestAdded
    <2>2. clerk[p].at = "manifest" /\ writers' = writers
      BY <2>1 DEF WriteManifest
    <2>3. PICK m : m = Manifest(p)
      OBVIOUS
    <2>4. output'["manifest"] = m
      BY <2>1, <2>3 DEF With
    <2>5. m.by = p
      BY <2>3 DEF Manifest
    <2> SUFFICES ASSUME Asked(p).script = "export" PROVE ManifestOK'
      BY <1>0, <2>4, <2>5 DEF ManifestOK
    <2>6. m.files = Restrict(output, {"summary"} \cup ListedFiles(p))
      BY <2>3 DEF Manifest
    <2>7. DOMAIN m.files = {"summary"} \cup ListedFiles(p) /\ \A x \in DOMAIN m.files : m.files[x] = output[x]
      BY <2>6 DEF Restrict
    <2>8. /\ p \in writers /\ ListedFiles(p) \subseteq DOMAIN output
          /\ writers = {p} => DOMAIN output \subseteq ListedFiles(p) \cup {"summary"}
          /\ ReadyForHumanReview(Bundled, Bundled) /\ "summary" \in DOMAIN output
          /\ output["summary"] = Restrict(Bundled, CaseFiles)
      BY <1>0, <2>2 DEF BundleOK, Writing, Exported, Summed, SummaryOf
    <2>9. CaseFiles \subseteq ListedFiles(p)
      BY <2>2, ListIs DEF CaseInv, ScriptOK, HasRead
    <2>10. /\ ReadyForHumanReview(Bundled, Bundled)' /\ (Indexed(Bundled))' = Indexed(Bundled)
           /\ Restrict(Bundled, CaseFiles)' = Restrict(Bundled, CaseFiles)
           /\ Indexed(Bundled) \subseteq DOMAIN output
      BY <1>0, <2>8, ReadyStays
    <2>11. /\ DOMAIN m.files \subseteq DOMAIN output'
           /\ \A x \in DOMAIN m.files : output'[x] = m.files[x]
           /\ output'["summary"] = output["summary"]
      BY <1>0, <2>7, <2>8 DEF OutputGrows
    <2>12. Indexed(Bundled) \subseteq DOMAIN m.files \/ writers # {p}
      BY <2>7, <2>8, <2>10
    <2> QED
      BY <2>2, <2>4, <2>5, <2>7, <2>8, <2>9, <2>10, <2>11, <2>12 DEF ManifestOK
  <1>3. CASE "manifest" \notin DOMAIN output'
    BY <1>3 DEF ManifestOK
  <1> QED
    BY <1>1, <1>2, <1>3

\* Every state of the scripts satisfies the invariant of the output directory.
LEMMA BundleStays == CaseInv /\ BundleInv /\ [AuditNext]_auditVars => BundleInv'
  <1>1. ASSUME CaseInv, BundleInv, NEW p \in Clerk, ScriptStep(p) PROVE BundleInv'
    <2>1. Alone(p) /\ OutputTyped' /\ ManifestOK' /\ Shaped
      BY <1>1, ScriptsInOrder, OutputMoves, ManifestStays DEF CaseInv
    <2>2. BundleOK(p)'
      <3>1. CASE clerk'[p].at \notin BundlePhases
        BY <3>1, NotWriting
      <3>2. CASE clerk'[p].at \in BundlePhases
        <4>1. BundleStep(p)
          BY <1>1, <2>1, <3>2, ComesByItsStep DEF Due
        <4>2. ~Stop(p)
          BY <2>1, <3>2, StopGives DEF BundlePhases
        <4> QED
          BY <1>1, <4>1, <4>2, PreparesBundle, CopiesBundle, ChecksBundle, SumsBundle, SignsBundle
             DEF BundleStep
      <3> QED
        BY <3>1, <3>2
    <2>3. \A q \in Clerk : q # p => BundleOK(q)'
      BY <1>1, <2>1, BundleKept
    <2> QED
      BY <2>1, <2>2, <2>3 DEF BundleInv
  <1>2. ASSUME BundleInv, output' = output, writers' = writers, clerk' = clerk, chosen' = chosen
        PROVE  BundleInv'
    BY <1>2 DEF BundleInv, OutputTyped, ManifestOK, BundleOK, Writing, Copying, Exported, Summed, Rendered,
       ListedFiles, Listed, Got, Bundled, SummaryOf, Asked, scenario, Planned
  <1>3. ASSUME BundleInv, NEW e \in AuditEdits, EditCase(e) PROVE BundleInv'
    BY <1>2, <1>3 DEF EditCase, theRest
  <1>4. ASSUME BundleInv, UNCHANGED auditVars PROVE BundleInv'
    BY <1>2, <1>4 DEF auditVars
  <1> QED
    BY <1>1, <1>3, <1>4 DEF AuditNext

LEMMA BundleBegins == AuditInit => BundleInv
  <1> SUFFICES ASSUME AuditInit PROVE BundleInv
    OBVIOUS
  <1>1. output = <<>> /\ writers = {} /\ DOMAIN output = {}
    BY DEF AuditInit
  <1>2. \A p \in Clerk : clerk[p].at \in {"waiting", "receipt"}
    <2> SUFFICES ASSUME NEW p \in Clerk PROVE clerk[p].at \in {"waiting", "receipt"}
      OBVIOUS
    <2>1. WellBegun(scenario, p) /\ clerk = scenario.clerk
      BY AuditAssumption DEF AuditInit, scenario, Planned, WellFormed
    <2>2. \A r, root : RootConfirmed(r, root).at = "receipt"
      BY WaitingIs DEF RootConfirmed, Fields
    <2> QED
      BY <2>1, <2>2, WaitingIs DEF WellBegun
  <1>3. \A p \in Clerk : BundleOK(p)
    BY <1>1, <1>2 DEF BundleOK, Writing, Copying, Exported, Summed, Rendered
  <1> QED
    BY <1>1, <1>3 DEF BundleInv, OutputTyped, ManifestOK

THEOREM BundleInvariant == AuditSpec => [](CaseInv /\ BundleInv)
  BY CaseBegins, CaseStays, BundleBegins, BundleStays, PTL DEF AuditSpec

\* An export leaves a bundle that is ready for review and is what its manifest
\* lists, whoever edits the case or writes to the same directory meanwhile.
THEOREM ExportsAreReady == AuditSpec => []BundleReady
  <1>1. OutputTyped /\ ManifestOK => BundleReady
    <2> SUFFICES ASSUME OutputTyped, ManifestOK, "manifest" \in DOMAIN output,
                        Asked(output["manifest"].by).script = "export"
                 PROVE  BundleReady
      BY DEF BundleReady
    <2> DEFINE m == output["manifest"]
    <2>1. writers # {m.by} => Cardinality(writers) > 1
      <3> SUFFICES ASSUME writers # {m.by} PROVE Cardinality(writers) > 1
        OBVIOUS
      <3>1. m.by \in writers /\ IsFiniteSet(writers)
        BY AuditAssumption, FS_Subset DEF ManifestOK, OutputTyped
      <3>2. Cardinality(writers) # 1
        <4> SUFFICES ASSUME Cardinality(writers) = 1 PROVE FALSE
          OBVIOUS
        <4>1. PICK q : writers = {q}
          BY <3>1, FS_Singleton
        <4> QED
          BY <3>1, <4>1
      <3>3. Cardinality(writers) \in Nat /\ Cardinality(writers) # 0
        BY <3>1, FS_CardinalityType, FS_EmptySet
      <3> QED
        BY <3>2, <3>3
    <2> QED
      BY <2>1 DEF ManifestOK, BundleReady
  <1>2. BundleInv => BundleReady
    BY <1>1 DEF BundleInv
  <1> QED
    BY <1>2, BundleInvariant, PTL

-----------------------------------------------------------------------------
(* When what a script has read was in the case.                               *)

\* Each value was there at some moment between two.
Within(l, got, lo, hi) ==
    \A x \in DOMAIN got : \E i \in lo..hi : i \in DOMAIN l /\ got[x] = Lying(l[i], x)

\* What the phases of a script have read, and between which moments: the root a
\* recorder confirms before its receipt is written and again afterwards, the root
\* of a renderer before and after it has loaded the documents, and what a capture
\* has found before it looks a second time.
ReadsAre(p) ==
    /\ clerk[p].since \in 0..Len(log)
    /\ \A phase \in DOMAIN clerk[p].read :
          clerk[p].read[phase] = [x \in DOMAIN clerk[p].read[phase] |-> clerk[p].read[phase][x]]
RecordTimes(p) ==
    Asked(p).script = "record" =>
        /\ clerk[p].at \in {"root", "reviewed", "confirm", "receipt", "body"} =>
              Within(log, Got(p, "root"), 1, Len(log))
        /\ clerk[p].at \in {"final", "recorded"} =>
              /\ clerk[p].written \in DOMAIN log
              /\ Within(log, Got(p, "root"), 1, clerk[p].written)
              /\ Within(log, Got(p, "final"), clerk[p].written, Len(log))
        /\ clerk[p].at = "recorded" => Got(p, "final") = Got(p, "root")
RenderTimes(p) ==
    Asked(p).script = "render" =>
        /\ clerk[p].at = "root" => Within(log, Got(p, "root"), clerk[p].since, Len(log))
        /\ clerk[p].at \in {"load", "validate", "confirm", "summary", "manifest", "written"} =>
              \E b, c \in DOMAIN log :
                 /\ clerk[p].since <= b /\ b <= c
                 /\ Within(log, Got(p, "root"), clerk[p].since, b)
                 /\ Within(log, Got(p, "load"), b, c)
                 /\ clerk[p].at \in {"confirm", "summary", "manifest", "written"} =>
                       Within(log, Got(p, "confirm"), c, Len(log))
        /\ clerk[p].at \in {"summary", "manifest", "written"} =>
              "confirm" \in DOMAIN clerk[p].read /\ Got(p, "confirm") = Got(p, "root")
CaptureTimes(p) ==
    Asked(p).script = "capture" =>
        /\ clerk[p].at = "capture" => Within(log, Got(p, "capture"), clerk[p].since, Len(log))
        /\ clerk[p].at \in {"again", "captured"} =>
              \E b \in DOMAIN log :
                 /\ clerk[p].since <= b
                 /\ Within(log, Got(p, "capture"), clerk[p].since, b)
                 /\ Within(log, Got(p, "again"), b, Len(log))
        /\ clerk[p].at = "captured" =>
              /\ Found(p) \subseteq DOMAIN Got(p, "again")
              /\ \A x \in Found(p) : Got(p, "again")[x] = Got(p, "capture")[x]
Timed(p) == ReadsAre(p) /\ RecordTimes(p) /\ RenderTimes(p) /\ CaptureTimes(p)

\* A log that goes on says the same of what was read.
LEMMA WithinLonger ==
  ASSUME NEW l, NEW m, DOMAIN l \subseteq DOMAIN m, \A i \in DOMAIN l : m[i] = l[i],
         NEW got, NEW lo \in Nat, NEW hi \in Nat, NEW top \in Nat, hi <= top, Within(l, got, lo, hi)
  PROVE  Within(m, got, lo, top)
  <1> SUFFICES ASSUME NEW x \in DOMAIN got
               PROVE  \E i \in lo..top : i \in DOMAIN m /\ got[x] = Lying(m[i], x)
    BY DEF Within
  <1>1. PICK i \in lo..hi : i \in DOMAIN l /\ got[x] = Lying(l[i], x)
    BY DEF Within
  <1>2. i \in lo..top /\ i \in DOMAIN m /\ m[i] = l[i]
    BY <1>1
  <1> QED
    BY <1>1, <1>2

\* One more value, as it is now.
LEMMA WithinMore ==
  ASSUME NEW l, NEW got, NEW lo \in Nat, NEW hi \in DOMAIN l, hi \in Nat, lo <= hi,
         Within(l, got, lo, hi), NEW x
  PROVE  Within(l, With(got, x, Lying(l[hi], x)), lo, hi)
  <1> DEFINE v == Lying(l[hi], x)
  <1> SUFFICES ASSUME NEW y \in DOMAIN With(got, x, v)
               PROVE  \E i \in lo..hi : i \in DOMAIN l /\ With(got, x, v)[y] = Lying(l[i], y)
    BY DEF Within
  <1>1. CASE y = x
    <2>1. With(got, x, v)[y] = v /\ hi \in lo..hi
      BY <1>1 DEF With
    <2> QED
      BY <1>1, <2>1
  <1>2. CASE y # x
    <2>1. y \in DOMAIN got /\ With(got, x, v)[y] = got[y]
      BY <1>2 DEF With
    <2> QED
      BY <2>1 DEF Within
  <1> QED
    BY <1>1, <1>2

LEMMA WithinNone == \A l, lo, hi : Within(l, <<>>, lo, hi)
  BY DEF Within

\* A script that does not move: what it has read was there when it was.
LEMMA TimesKept ==
  ASSUME LogGrows, DOMAIN log = 1..Len(log), DOMAIN log' = 1..Len(log'), NEW p \in Clerk, Timed(p),
         clerk'[p] = clerk[p], Asked(p)' = Asked(p)
  PROVE  Timed(p)'
  <1>1. /\ Len(log) \in Nat /\ Len(log') \in Nat /\ Len(log) <= Len(log')
        /\ DOMAIN log \subseteq DOMAIN log' /\ \A i \in DOMAIN log : log'[i] = log[i]
    BY DEF LogGrows
  <1>2. \A got, lo, hi, top : /\ lo \in Nat /\ hi \in Nat /\ top \in Nat /\ hi <= top
                              /\ Within(log, got, lo, hi)
                              => Within(log', got, lo, top)
    <2> SUFFICES ASSUME NEW got, NEW lo \in Nat, NEW hi \in Nat, NEW top \in Nat, hi <= top,
                        Within(log, got, lo, hi)
                 PROVE  Within(log', got, lo, top)
      OBVIOUS
    <2> DEFINE l == log
               m == log'
    <2>1. DOMAIN l \subseteq DOMAIN m /\ (\A i \in DOMAIN l : m[i] = l[i]) /\ Within(l, got, lo, hi)
      BY <1>1
    <2> HIDE DEF l, m
    <2>2. Within(m, got, lo, top)
      BY <2>1, WithinLonger
    <2> QED
      BY <2>2 DEF m
  <1>3. /\ \A phase : Got(p, phase)' = Got(p, phase)
        /\ clerk[p].since \in Nat /\ Found(p)' = Found(p)
    BY DEF Got, Found, Timed, ReadsAre
  <1>4. ReadsAre(p)'
    BY <1>1 DEF Timed, ReadsAre
  <1>5. RecordTimes(p)'
    <2> SUFFICES ASSUME Asked(p).script = "record" PROVE RecordTimes(p)'
      BY DEF RecordTimes
    <2>1. clerk[p].at \in {"root", "reviewed", "confirm", "receipt", "body"} =>
             Within(log', Got(p, "root"), 1, Len(log'))
      BY <1>1, <1>2 DEF Timed, RecordTimes
    <2>2. clerk[p].at \in {"final", "recorded"} =>
              /\ clerk[p].written \in DOMAIN log'
              /\ Within(log', Got(p, "root"), 1, clerk[p].written)
              /\ Within(log', Got(p, "final"), clerk[p].written, Len(log'))
      BY <1>1, <1>2 DEF Timed, RecordTimes
    <2>3. clerk[p].at = "recorded" => Got(p, "final") = Got(p, "root")
      BY DEF Timed, RecordTimes
    <2> QED
      BY <1>3, <2>1, <2>2, <2>3 DEF RecordTimes
  <1>6. RenderTimes(p)'
    <2> SUFFICES ASSUME Asked(p).script = "render" PROVE RenderTimes(p)'
      BY DEF RenderTimes
    <2>1. clerk[p].at = "root" => Within(log', Got(p, "root"), clerk[p].since, Len(log'))
      BY <1>1, <1>2, <1>3 DEF Timed, RenderTimes
    <2>2. ASSUME clerk[p].at \in {"load", "validate", "confirm", "summary", "manifest", "written"}
          PROVE  \E b, c \in DOMAIN log' :
                 /\ clerk[p].since <= b /\ b <= c
                 /\ Within(log', Got(p, "root"), clerk[p].since, b)
                 /\ Within(log', Got(p, "load"), b, c)
                 /\ clerk[p].at \in {"confirm", "summary", "manifest", "written"} =>
                       Within(log', Got(p, "confirm"), c, Len(log'))
      <3>1. PICK b, c \in DOMAIN log :
                 /\ clerk[p].since <= b /\ b <= c
                 /\ Within(log, Got(p, "root"), clerk[p].since, b)
                 /\ Within(log, Got(p, "load"), b, c)
                 /\ clerk[p].at \in {"confirm", "summary", "manifest", "written"} =>
                       Within(log, Got(p, "confirm"), c, Len(log))
        BY <2>2 DEF Timed, RenderTimes
      <3>2. b \in DOMAIN log' /\ c \in DOMAIN log' /\ b \in Nat /\ c \in Nat
        BY <1>1
      <3> QED
        BY <1>1, <1>2, <1>3, <3>1, <3>2
    <2>3. clerk[p].at \in {"summary", "manifest", "written"} =>
             "confirm" \in DOMAIN clerk[p].read /\ Got(p, "confirm") = Got(p, "root")
      BY DEF Timed, RenderTimes
    <2> QED
      BY <1>3, <2>1, <2>2, <2>3 DEF RenderTimes
  <1>7. CaptureTimes(p)'
    <2> SUFFICES ASSUME Asked(p).script = "capture" PROVE CaptureTimes(p)'
      BY DEF CaptureTimes
    <2>1. clerk[p].at = "capture" => Within(log', Got(p, "capture"), clerk[p].since, Len(log'))
      BY <1>1, <1>2, <1>3 DEF Timed, CaptureTimes
    <2>2. ASSUME clerk[p].at \in {"again", "captured"}
          PROVE  \E b \in DOMAIN log' :
                 /\ clerk[p].since <= b
                 /\ Within(log', Got(p, "capture"), clerk[p].since, b)
                 /\ Within(log', Got(p, "again"), b, Len(log'))
      <3>1. PICK b \in DOMAIN log :
                 /\ clerk[p].since <= b
                 /\ Within(log, Got(p, "capture"), clerk[p].since, b)
                 /\ Within(log, Got(p, "again"), b, Len(log))
        BY <2>2 DEF Timed, CaptureTimes
      <3>2. b \in DOMAIN log' /\ b \in Nat
        BY <1>1
      <3> QED
        BY <1>1, <1>2, <1>3, <3>1, <3>2
    <2>3. clerk[p].at = "captured" =>
              /\ Found(p) \subseteq DOMAIN Got(p, "again")
              /\ \A x \in Found(p) : Got(p, "again")[x] = Got(p, "capture")[x]
      BY DEF Timed, CaptureTimes
    <2> QED
      BY <1>3, <2>1, <2>2, <2>3 DEF CaptureTimes
  <1> QED
    BY <1>4, <1>5, <1>6, <1>7 DEF Timed

\* The steps a script of a kind takes, other than reading and stopping.
RecordStep(p) ==
    \/ AskRecord(p) \/ TakeRoot(p) \/ CheckReceipt(p) \/ CheckReviewed(p) \/ ConfirmRoot(p)
    \/ CreateReceipt(p) \/ WriteReceipt(p) \/ AnswerRecord(p)
RenderStep(p) ==
    AskRender(p) \/ RenderReads(p) \/ PrepareOutput(p) \/ WriteSummary(p) \/ WriteManifest(p)
CaptureStep(p) == AskCapture(p) \/ CaptureAgain(p) \/ AnswerCapture(p)

LEMMA StepsOf ==
  ASSUME NEW p \in Clerk, Stage(p), ScriptStep(p), ~ReadNext(p), ~Stop(p)
  PROVE  /\ Asked(p).script = "record" => RecordStep(p)
         /\ Asked(p).script = "render" => RenderStep(p)
         /\ Asked(p).script = "capture" => CaptureStep(p)
  <1>1. /\ AskEnsure(p) \/ PrepareCase(p) \/ CheckCase(p) \/ AnswerEnsure(p) => Asked(p).script = "ensure"
        /\ AskRecord(p) \/ TakeRoot(p) \/ CheckReceipt(p) \/ ConfirmRoot(p) \/ CreateReceipt(p)
             \/ WriteReceipt(p) \/ AnswerRecord(p) => Asked(p).script = "record"
        /\ AskExport(p) \/ LoadReady(p) \/ CheckBundle(p) => Asked(p).script = "export"
        /\ AskRender(p) \/ RenderReads(p) => Asked(p).script = "render"
        /\ AskCapture(p) \/ CaptureAgain(p) \/ AnswerCapture(p) => Asked(p).script = "capture"
        /\ PrepareOutput(p) => Asked(p).script \in {"export", "render"}
    BY DEF AskEnsure, PrepareCase, CheckCase, AnswerEnsure, AskRecord, TakeRoot, CheckReceipt, ConfirmRoot,
       CreateReceipt, WriteReceipt, AnswerRecord, AskExport, LoadReady, CheckBundle, AskRender, RenderReads,
       AskCapture, CaptureAgain, AnswerCapture, PrepareOutput, Reached
  <1>2. /\ CreateDocument(p) \/ WriteDocument(p) => Asked(p).script = "ensure"
        /\ CheckReviewed(p) => Asked(p).script = "record"
        /\ CopyNext(p) => Asked(p).script = "export"
        /\ WriteSummary(p) \/ WriteManifest(p) => Asked(p).script \in {"export", "render"}
    BY DEF CreateDocument, WriteDocument, CheckReviewed, CopyNext, WriteSummary, WriteManifest, Stage
  <1>3. ~CrashClerk(p)
    BY DEF CrashClerk
  <1> QED
    BY <1>1, <1>2, <1>3 DEF ScriptStep, RecordStep, RenderStep, CaptureStep

\* What a script has read of one phase when it enters another.
LEMMA OtherPhases ==
  ASSUME NEW p \in Clerk, NEW phase, NEW got, clerk'[p].read = With(clerk[p].read, phase, got),
         NEW other, other # phase, other \in DOMAIN clerk[p].read
  PROVE  Got(p, other)' = Got(p, other)
  <1>1. With(clerk[p].read, phase, got)[other] = clerk[p].read[other]
    BY DEF With
  <1> QED
    BY <1>1 DEF Got

LEMMA EntersPhase ==
  ASSUME Shaped, NEW p \in Clerk, NEW phase, NEW todo, MoveTo(p, phase, todo)
  PROVE  /\ clerk'[p].at = phase /\ clerk'[p].since = clerk[p].since
         /\ Got(p, phase)' = <<>>
         /\ \A other \in DOMAIN clerk[p].read : other # phase => Got(p, other)' = Got(p, other)
  <1>1. Steps(p, phase, todo, With(clerk[p].read, phase, <<>>))
    BY MoveGives
  <1>2. clerk'[p].read = With(clerk[p].read, phase, <<>>)
    BY <1>1 DEF Steps
  <1> QED
    BY <1>1, <1>2, OtherPhases DEF Steps, Got, With

\* A script that reads the next path.
LEMMA ReadsNext ==
  ASSUME CaseInv, NEW p \in Clerk, ReadNext(p), ~Stop(p)
  PROVE  /\ clerk[p].at \in ReadingPhase
         /\ clerk'[p].at = clerk[p].at /\ clerk'[p].since = clerk[p].since
         /\ clerk'[p].written = clerk[p].written
         /\ \E x : Got(p, clerk[p].at)' = With(Got(p, clerk[p].at), x, Lying(log[Len(log)], x))
         /\ \A other \in DOMAIN clerk[p].read : other # clerk[p].at => Got(p, other)' = Got(p, other)
  <1> DEFINE c == clerk[p]
             x == Head(c.todo)
             got == With(Got(p, c.at), x, Lying(Now, x))
  <1>1. /\ \E todo : Steps(p, c.at, todo, With(c.read, c.at, got))
        /\ clerk'[p].written = c.written
    BY TakesIn DEF CaseInv
  <1>2. clerk'[p].read = With(c.read, c.at, got) /\ clerk'[p].at = c.at /\ clerk'[p].since = c.since
    BY <1>1 DEF Steps
  <1>3. c.at \in ReadingPhase
    BY DEF ReadNext
  <1>4. Got(p, c.at)' = got
    BY <1>2 DEF Got, With
  <1>5. log[Len(log)] = Now
    BY DEF CaseInv, CaseTyped
  <1> HIDE DEF got
  <1>6. \A other \in DOMAIN c.read : other # c.at => Got(p, other)' = Got(p, other)
    BY <1>2, OtherPhases
  <1> QED
    BY <1>1, <1>2, <1>3, <1>4, <1>5, <1>6 DEF got

\* What a script has read is a function of the paths, and it has begun by now.
LEMMA ReadsStay ==
  ASSUME CaseInv, NEW p \in Clerk, ScriptStep(p), ReadsAre(p), LogGrows
  PROVE  ReadsAre(p)'
  <1>0. Shaped /\ Len(log) \in Nat /\ Len(log') \in Nat /\ Len(log) <= Len(log')
        /\ clerk[p].since \in 0..Len(log)
        /\ \A phase \in DOMAIN clerk[p].read :
              clerk[p].read[phase] = [x \in DOMAIN clerk[p].read[phase] |-> clerk[p].read[phase][x]]
    BY DEF CaseInv, ReadsAre, LogGrows
  <1>1. CASE ReadNext(p) /\ ~Stop(p)
    <2>1. PICK got, x, v, todo : /\ got = With(Got(p, clerk[p].at), x, v)
                                 /\ Steps(p, clerk[p].at, todo, With(clerk[p].read, clerk[p].at, got))
      BY <1>0, <1>1, TakesIn
    <2>2. /\ clerk'[p].since = clerk[p].since
          /\ clerk'[p].read = With(clerk[p].read, clerk[p].at, got)
      BY <2>1 DEF Steps
    <2>3. got = [y \in DOMAIN got |-> got[y]]
      BY <2>1 DEF With
    <2>4. \A phase \in DOMAIN clerk'[p].read :
             \/ clerk'[p].read[phase] = got
             \/ phase \in DOMAIN clerk[p].read /\ clerk'[p].read[phase] = clerk[p].read[phase]
      BY <2>2 DEF With
    <2> QED
      BY <1>0, <2>2, <2>3, <2>4 DEF ReadsAre
  <1>2. CASE ~ReadNext(p)
    <2>1. \A phase \in DOMAIN clerk'[p].read :
            \/ clerk'[p].read[phase] = <<>>
            \/ phase \in DOMAIN clerk[p].read /\ clerk'[p].read[phase] = clerk[p].read[phase]
      BY <1>0, <1>2, NothingNewRead
    <2>2. clerk'[p].since \in 0..Len(log)
      <3>1. Stop(p) => clerk'[p].since = 0
        BY <1>0, StopGives
      <3>2. Begins(p) => clerk'[p].since = Len(log)
        BY <1>0, BeginGives DEF Begins
      <3>3. Enters(p) \/ Labels(p) \/ WriteReceipt(p) => clerk'[p].since = clerk[p].since
        BY <1>0, MoveGives, LabelGives, WrittenGives DEF Enters, Labels, Steps
      <3> QED
        BY <1>0, <1>2, <3>1, <3>2, <3>3, Ways
    <2>3. \A got : got = <<>> => got = [x \in DOMAIN got |-> got[x]]
      OBVIOUS
    <2>4. \A phase \in DOMAIN clerk'[p].read :
             clerk'[p].read[phase] = [x \in DOMAIN clerk'[p].read[phase] |-> clerk'[p].read[phase][x]]
      BY <1>0, <2>1, <2>3
    <2>5. clerk'[p].since \in 0..Len(log')
      BY <1>0, <2>2
    <2> QED
      BY <2>4, <2>5 DEF ReadsAre
  <1>3. CASE ReadNext(p) /\ Stop(p)
    <2>1. clerk'[p].read = <<>> /\ clerk'[p].since = 0
      BY <1>0, <1>3, StopGives
    <2> QED
      BY <1>0, <2>1 DEF ReadsAre
  <1> QED
    BY <1>1, <1>2, <1>3

\* The log is as it was while a script of these kinds takes a step.
LEMMA LogStays ==
  ASSUME CaseInv, NEW p \in Clerk, ScriptStep(p), Asked(p).script \in {"record", "render", "capture"}
  PROVE  /\ log' = log /\ Asked(p)' = Asked(p) /\ Len(log) \in Nat \ {0} /\ DOMAIN log = 1..Len(log)
         /\ Shaped /\ Stage(p) /\ Reading(p) /\ HasRead(p)
  <1>1. Stage(p) /\ Reading(p) /\ HasRead(p) /\ Shaped
    BY DEF CaseInv, ScriptOK
  <1>2. ~CreateDocument(p) /\ ~WriteDocument(p)
    BY <1>1 DEF CreateDocument, WriteDocument, Stage
  <1>3. Len(log) \in Nat \ {0} /\ DOMAIN log = 1..Len(log)
    BY DEF CaseInv, CaseTyped
  <1> QED
    BY <1>1, <1>2, <1>3, CaseUntouched, AskedKept

\* A recorder.
LEMMA RecordTimesStay ==
  ASSUME CaseInv, NEW p \in Clerk, ScriptStep(p), Timed(p)
  PROVE  RecordTimes(p)'
  <1>0. CASE Asked(p).script # "record"
    BY <1>0, AskedKept DEF RecordTimes
  <1> SUFFICES ASSUME Asked(p).script = "record" PROVE RecordTimes(p)'
    BY <1>0
  <1> DEFINE L == Len(log)
  <1>1. /\ log' = log /\ Asked(p)' = Asked(p) /\ L \in Nat \ {0} /\ DOMAIN log = 1..L
        /\ Shaped /\ Stage(p) /\ Reading(p) /\ HasRead(p) /\ RecordTimes(p)
    BY LogStays DEF Timed
  <1>2. CASE Stop(p)
    BY <1>1, <1>2, StopGives DEF RecordTimes
  <1>3. clerk[p].at \in {"reviewed", "confirm", "receipt", "body", "final", "recorded"} =>
           "root" \in DOMAIN clerk[p].read
    BY <1>1 DEF HasRead, Complete
  <1>4. ASSUME ReadNext(p), ~Stop(p) PROVE RecordTimes(p)'
    <2>1. /\ clerk[p].at \in ReadingPhase
          /\ clerk'[p].at = clerk[p].at /\ clerk'[p].since = clerk[p].since
          /\ clerk'[p].written = clerk[p].written
          /\ \A other \in DOMAIN clerk[p].read : other # clerk[p].at => Got(p, other)' = Got(p, other)
      BY <1>4, ReadsNext
    <2>2. PICK x : Got(p, clerk[p].at)' = With(Got(p, clerk[p].at), x, Lying(log[L], x))
      BY <1>4, ReadsNext
    <2>3. CASE clerk[p].at = "root"
      <3>1. Within(log, With(Got(p, "root"), x, Lying(log[L], x)), 1, L)
        BY <1>1, <2>3, WithinMore DEF RecordTimes
      <3> QED
        BY <1>1, <2>1, <2>2, <2>3, <3>1 DEF RecordTimes
    <2>4. CASE clerk[p].at = "final"
      <3>1. /\ clerk[p].written \in DOMAIN log
            /\ Within(log, Got(p, "root"), 1, clerk[p].written)
            /\ Within(log, Got(p, "final"), clerk[p].written, L)
        BY <1>1, <2>4 DEF RecordTimes
      <3>2. Within(log, With(Got(p, "final"), x, Lying(log[L], x)), clerk[p].written, L)
        BY <1>1, <3>1, WithinMore
      <3>3. Got(p, "root")' = Got(p, "root")
        BY <1>3, <2>1, <2>4
      <3> QED
        BY <1>1, <2>1, <2>2, <2>4, <3>1, <3>2, <3>3 DEF RecordTimes
    <2>5. CASE clerk[p].at \notin {"root", "final"}
      <3>1. clerk[p].at = "confirm" => Got(p, "root")' = Got(p, "root") /\ Within(log, Got(p, "root"), 1, L)
        BY <1>1, <1>3, <2>1, <2>5 DEF RecordTimes
      <3> QED
        BY <1>1, <2>1, <2>5, <3>1, Phases DEF RecordTimes
    <2> QED
      BY <2>3, <2>4, <2>5
  <1>5. ASSUME NEW phase \in {"reviewed", "confirm", "receipt", "body"}, NEW todo, MoveTo(p, phase, todo),
               "root" \in DOMAIN clerk[p].read, Within(log, Got(p, "root"), 1, L)
        PROVE  RecordTimes(p)'
    <2>1. clerk'[p].at = phase /\ Got(p, "root")' = Got(p, "root")
      BY <1>1, <1>5, EntersPhase
    <2> QED
      BY <1>1, <1>5, <2>1 DEF RecordTimes
  <1>6. ASSUME AskRecord(p) PROVE RecordTimes(p)'
    <2>1. clerk'[p].at = "validate"
      <3>1. PICK todo, r : Begin(p, "validate", todo, Absent, r)
        BY <1>6 DEF AskRecord
      <3> QED
        BY <1>1, <3>1, BeginGives
    <2> QED
      BY <2>1 DEF RecordTimes
  <1>7. ASSUME TakeRoot(p), ~Stop(p) PROVE RecordTimes(p)'
    <2>1. MoveTo(p, "root", REQUIRED_FILES)
      BY <1>7 DEF TakeRoot, Require, Read
    <2>2. clerk'[p].at = "root" /\ Got(p, "root")' = <<>>
      BY <1>1, <2>1, EntersPhase
    <2>3. \A l, hi : Within(l, <<>>, 1, hi)
      BY WithinNone
    <2> QED
      BY <2>2, <2>3 DEF RecordTimes
  <1>8. ASSUME CheckReceipt(p) \/ CheckReviewed(p) \/ ConfirmRoot(p) \/ CreateReceipt(p), ~Stop(p)
        PROVE  RecordTimes(p)'
    <2>1. clerk[p].at \in {"root", "reviewed", "confirm", "receipt"}
      BY <1>8 DEF CheckReceipt, CheckReviewed, ConfirmRoot, CreateReceipt, Reached
    <2>2. "root" \in DOMAIN clerk[p].read /\ Within(log, Got(p, "root"), 1, L)
      BY <1>1, <1>3, <2>1, Phases DEF Reading, RecordTimes
    <2>3. PICK phase, todo : /\ phase \in {"reviewed", "confirm", "receipt", "body"}
                             /\ MoveTo(p, phase, todo)
      <3>1. CheckReceipt(p) \/ CheckReviewed(p) =>
               \E todo : MoveTo(p, "confirm", todo) \/ MoveTo(p, "reviewed", todo)
        BY <1>8 DEF CheckReceipt, CheckReviewed, Require, Read
      <3>2. ConfirmRoot(p) \/ CreateReceipt(p) => MoveTo(p, "receipt", <<>>) \/ MoveTo(p, "body", <<>>)
        BY <1>8 DEF ConfirmRoot, CreateReceipt, Require
      <3> QED
        BY <1>8, <3>1, <3>2
    <2> QED
      BY <1>5, <2>2, <2>3
  <1>9. ASSUME WriteReceipt(p) PROVE RecordTimes(p)'
    <2>1. clerk[p].at = "body"
      BY <1>9 DEF WriteReceipt, Reached
    <2>2. /\ clerk'[p].at = "final" /\ clerk'[p].read = With(clerk[p].read, "final", <<>>)
          /\ clerk'[p].written = L
      BY <1>1, <1>9, WrittenGives DEF Steps
    <2>3. Got(p, "root")' = Got(p, "root")
      BY <1>3, <2>1, <2>2, OtherPhases
    <2>4. Got(p, "final")' = <<>>
      BY <2>2 DEF Got, With
    <2>5. Within(log, Got(p, "root"), 1, L) /\ L \in DOMAIN log
      BY <1>1, <2>1 DEF RecordTimes
    <2>6. \A l, lo, hi : Within(l, <<>>, lo, hi)
      BY WithinNone
    <2> QED
      BY <1>1, <2>2, <2>3, <2>4, <2>5, <2>6 DEF RecordTimes
  <1>10. ASSUME AnswerRecord(p) PROVE RecordTimes(p)'
    <2> DEFINE label == IF Recorded(p) THEN "recorded" ELSE "historical"
    <2>1. clerk' = [clerk EXCEPT ![p].at = label] /\ clerk[p].at = "final"
      BY <1>10 DEF AnswerRecord, Reached
    <2>2. label \in {"recorded", "historical"} /\ (label = "recorded" => Got(p, "final") = Got(p, "root"))
      BY DEF Recorded
    <2> HIDE DEF label
    <2>3. /\ clerk'[p].at = label /\ clerk'[p].read = clerk[p].read
          /\ clerk'[p].written = clerk[p].written
      BY <1>1, <2>1, LabelGives DEF Steps
    <2>4. Got(p, "root")' = Got(p, "root") /\ Got(p, "final")' = Got(p, "final")
      BY <2>3 DEF Got
    <2> QED
      BY <1>1, <2>1, <2>2, <2>3, <2>4 DEF RecordTimes
  <1> QED
    BY <1>1, <1>2, <1>4, <1>6, <1>7, <1>8, <1>9, <1>10, StepsOf DEF RecordStep

\* The root and the documents a renderer has read, between the moments b and c.
Loaded(l, p, b, c) ==
    /\ b \in DOMAIN l /\ c \in DOMAIN l /\ clerk[p].since <= b /\ b <= c
    /\ Within(l, Got(p, "root"), clerk[p].since, b)
    /\ Within(l, Got(p, "load"), b, c)

\* A renderer.
LEMMA RenderTimesStay ==
  ASSUME CaseInv, NEW p \in Clerk, ScriptStep(p), Timed(p)
  PROVE  RenderTimes(p)'
  <1>0. CASE Asked(p).script # "render"
    BY <1>0, AskedKept DEF RenderTimes
  <1> SUFFICES ASSUME Asked(p).script = "render" PROVE RenderTimes(p)'
    BY <1>0
  <1> DEFINE L == Len(log)
             since == clerk[p].since
  <1>1. /\ log' = log /\ Asked(p)' = Asked(p) /\ L \in Nat \ {0} /\ DOMAIN log = 1..L
        /\ Shaped /\ Stage(p) /\ Reading(p) /\ HasRead(p) /\ RenderTimes(p) /\ since \in 0..L
    BY LogStays DEF Timed, ReadsAre
  <1>2. CASE Stop(p)
    BY <1>1, <1>2, StopGives DEF RenderTimes
  <1>3. /\ clerk[p].at \in {"root", "load", "validate", "confirm", "summary", "manifest", "written"} =>
           "root" \in DOMAIN clerk[p].read
        /\ clerk[p].at \in {"load", "validate", "confirm", "summary", "manifest", "written"} =>
           "load" \in DOMAIN clerk[p].read
        /\ clerk[p].at = "confirm" => "confirm" \in DOMAIN clerk[p].read
    BY <1>1, Phases DEF HasRead, Complete, Reading
  <1>4. clerk[p].at \in {"load", "validate", "confirm", "summary", "manifest", "written"} =>
           \E b, c \in DOMAIN log :
              /\ Loaded(log, p, b, c)
              /\ clerk[p].at \in {"confirm", "summary", "manifest", "written"} =>
                    Within(log, Got(p, "confirm"), c, L)
    BY <1>1 DEF RenderTimes, Loaded
  \* What keeps the root and the documents keeps the moments.
  <1>5. ASSUME NEW b \in DOMAIN log, NEW c \in DOMAIN log, Loaded(log, p, b, c),
               clerk'[p].at \in {"load", "validate", "confirm", "summary", "manifest", "written"},
               clerk'[p].since = since, Got(p, "root")' = Got(p, "root"),
               Got(p, "load")' = Got(p, "load"),
               clerk'[p].at \in {"confirm", "summary", "manifest", "written"} =>
                  Within(log, Got(p, "confirm")', c, L),
               clerk'[p].at \in {"summary", "manifest", "written"} =>
                  "confirm" \in DOMAIN clerk'[p].read /\ Got(p, "confirm")' = Got(p, "root")
        PROVE  RenderTimes(p)'
    <2>1. /\ b \in DOMAIN log' /\ c \in DOMAIN log' /\ clerk'[p].since <= b /\ b <= c
          /\ Within(log', Got(p, "root")', clerk'[p].since, b)
          /\ Within(log', Got(p, "load")', b, c)
          /\ clerk'[p].at \in {"confirm", "summary", "manifest", "written"} =>
                Within(log', Got(p, "confirm")', c, Len(log'))
      BY <1>1, <1>5 DEF Loaded
    <2>2. \E b1, c1 \in DOMAIN log' :
             /\ clerk'[p].since <= b1 /\ b1 <= c1
             /\ Within(log', Got(p, "root")', clerk'[p].since, b1)
             /\ Within(log', Got(p, "load")', b1, c1)
             /\ clerk'[p].at \in {"confirm", "summary", "manifest", "written"} =>
                   Within(log', Got(p, "confirm")', c1, Len(log'))
      BY <2>1
    <2> QED
      BY <1>1, <1>5, <2>2 DEF RenderTimes
  <1>6. ASSUME ReadNext(p), ~Stop(p) PROVE RenderTimes(p)'
    <2>1. /\ clerk[p].at \in ReadingPhase
          /\ clerk'[p].at = clerk[p].at /\ clerk'[p].since = since
          /\ \A other \in DOMAIN clerk[p].read : other # clerk[p].at => Got(p, other)' = Got(p, other)
      BY <1>6, ReadsNext
    <2>2. PICK x : Got(p, clerk[p].at)' = With(Got(p, clerk[p].at), x, Lying(log[L], x))
      BY <1>6, ReadsNext
    <2>3. CASE clerk[p].at = "root"
      <3>1. Within(log, With(Got(p, "root"), x, Lying(log[L], x)), since, L)
        BY <1>1, <2>3, WithinMore DEF RenderTimes
      <3> QED
        BY <1>1, <2>1, <2>2, <2>3, <3>1 DEF RenderTimes
    <2>4. CASE clerk[p].at = "load"
      <3>1. PICK b, c \in DOMAIN log : Loaded(log, p, b, c)
        BY <1>4, <2>4
      <3>2. b \in Nat /\ c \in Nat /\ b <= L /\ c <= L /\ L \in DOMAIN log
        BY <1>1
      <3>3. Within(log, Got(p, "load"), b, L)
        <4> DEFINE l == log
        <4>1. DOMAIN l \subseteq DOMAIN l /\ (\A i \in DOMAIN l : l[i] = l[i])
              /\ Within(l, Got(p, "load"), b, c)
          BY <3>1 DEF Loaded
        <4> HIDE DEF l
        <4>2. Within(l, Got(p, "load"), b, L)
          BY <1>1, <3>2, <4>1, WithinLonger
        <4> QED
          BY <4>2 DEF l
      <3>4. Within(log, With(Got(p, "load"), x, Lying(log[L], x)), b, L)
        BY <1>1, <3>2, <3>3, WithinMore
      <3>5. Got(p, "root")' = Got(p, "root")
        BY <1>3, <2>1, <2>4
      <3>6. /\ b \in DOMAIN log' /\ L \in DOMAIN log' /\ clerk'[p].since <= b /\ b <= L
            /\ Within(log', Got(p, "root")', clerk'[p].since, b)
            /\ Within(log', Got(p, "load")', b, L)
        BY <1>1, <2>1, <2>2, <2>4, <3>1, <3>2, <3>4, <3>5 DEF Loaded
      <3>7. \E b1, c1 \in DOMAIN log' :
               /\ clerk'[p].since <= b1 /\ b1 <= c1
               /\ Within(log', Got(p, "root")', clerk'[p].since, b1)
               /\ Within(log', Got(p, "load")', b1, c1)
        BY <3>6
      <3> QED
        BY <1>1, <2>1, <2>4, <3>7 DEF RenderTimes
    <2>5. CASE clerk[p].at \in {"validate", "confirm"}
      <3>1. PICK b, c \in DOMAIN log :
              Loaded(log, p, b, c) /\ (clerk[p].at = "confirm" => Within(log, Got(p, "confirm"), c, L))
        BY <1>4, <2>5
      <3>2. Got(p, "root")' = Got(p, "root") /\ Got(p, "load")' = Got(p, "load")
        BY <1>3, <2>1, <2>5
      <3>3. clerk[p].at = "confirm" => Within(log, Got(p, "confirm")', c, L)
        <4> SUFFICES ASSUME clerk[p].at = "confirm" PROVE Within(log, Got(p, "confirm")', c, L)
          OBVIOUS
        <4>0. Within(log, Got(p, "confirm"), c, L) /\ c \in Nat /\ c <= L /\ L \in DOMAIN log /\ L \in Nat
          BY <1>1, <3>1
        <4>1. Within(log, With(Got(p, "confirm"), x, Lying(log[L], x)), c, L)
          BY <4>0, WithinMore
        <4> QED
          BY <2>1, <2>2, <4>1
      <3> QED
        BY <1>5, <2>1, <2>5, <3>1, <3>2, <3>3
    <2> QED
      BY <1>1, <2>1, <2>3, <2>4, <2>5, Phases DEF Stage
  <1>7. ASSUME AskRender(p) PROVE RenderTimes(p)'
    <2>1. Begin(p, "root", REQUIRED_FILES, Absent, Absent)
      BY <1>7 DEF AskRender
    <2>2. clerk'[p].at = "root" /\ clerk'[p].read = With(<<>>, "root", <<>>)
      BY <1>1, <2>1, BeginGives
    <2>3. Got(p, "root")' = <<>>
      BY <2>2 DEF Got, With
    <2>4. \A l, lo, hi : Within(l, <<>>, lo, hi)
      BY WithinNone
    <2> QED
      BY <2>2, <2>3, <2>4 DEF RenderTimes
  \* The renderer goes on to another phase.
  <1>8. ASSUME NEW phase \in {"validate", "confirm", "summary", "manifest"}, NEW todo, MoveTo(p, phase, todo),
               clerk[p].at \in {"load", "validate", "confirm", "summary", "manifest"},
               phase \in {"summary", "manifest"} =>
                  /\ clerk[p].at \in {"confirm", "summary", "manifest"}
                  /\ "confirm" \in DOMAIN clerk[p].read /\ Got(p, "confirm") = Got(p, "root")
        PROVE  RenderTimes(p)'
    <2>1. /\ clerk'[p].at = phase /\ clerk'[p].since = since
          /\ Got(p, phase)' = <<>>
          /\ \A other \in DOMAIN clerk[p].read : other # phase => Got(p, other)' = Got(p, other)
      BY <1>1, <1>8, EntersPhase
    <2>2. Got(p, "root")' = Got(p, "root") /\ Got(p, "load")' = Got(p, "load")
      BY <1>3, <1>8, <2>1
    <2>3. PICK b, c \in DOMAIN log :
            /\ Loaded(log, p, b, c)
            /\ clerk[p].at \in {"confirm", "summary", "manifest"} => Within(log, Got(p, "confirm"), c, L)
      BY <1>4, <1>8
    <2>4. \A l, lo, hi : Within(l, <<>>, lo, hi)
      BY WithinNone
    <2>5. phase \in {"summary", "manifest"} =>
             "confirm" \in DOMAIN clerk'[p].read /\ Got(p, "confirm")' = Got(p, "confirm")
      <3>1. clerk'[p].read = With(clerk[p].read, phase, <<>>)
        BY <1>1, <1>8, MoveGives DEF Steps
      <3> QED
        BY <1>8, <2>1, <3>1 DEF With
    <2> QED
      BY <1>5, <1>8, <2>1, <2>2, <2>3, <2>4, <2>5
  <1>9. ASSUME RenderReads(p), ~Stop(p) PROVE RenderTimes(p)'
    <2>1. CASE clerk[p].at = "root"
      <3>1. MoveTo(p, "load", REQUIRED_FILES)
        BY <1>9, <2>1 DEF RenderReads, Reached, Read
      <3>2. /\ clerk'[p].at = "load" /\ clerk'[p].since = since
            /\ Got(p, "load")' = <<>> /\ Got(p, "root")' = Got(p, "root")
        BY <1>1, <1>3, <2>1, <3>1, EntersPhase
      <3>3. Within(log, Got(p, "root"), since, L) /\ L \in DOMAIN log /\ since <= L /\ L <= L
        BY <1>1, <2>1 DEF RenderTimes
      <3>4. \A l, lo, hi : Within(l, <<>>, lo, hi)
        BY WithinNone
      <3>5. \E b1, c1 \in DOMAIN log' :
               /\ clerk'[p].since <= b1 /\ b1 <= c1
               /\ Within(log', Got(p, "root")', clerk'[p].since, b1)
               /\ Within(log', Got(p, "load")', b1, c1)
        BY <1>1, <3>2, <3>3, <3>4
      <3> QED
        BY <1>1, <3>2, <3>5 DEF RenderTimes
    <2>2. CASE clerk[p].at \in {"load", "validate"}
      <3>1. PICK phase \in {"validate", "confirm"} : MoveTo(p, phase, REQUIRED_FILES)
        BY <1>9, <2>2 DEF RenderReads, Reached, Read, Require
      <3> QED
        BY <1>8, <2>2, <3>1
    <2> QED
      BY <1>9, <2>1, <2>2 DEF RenderReads, Reached
  <1>10. ASSUME PrepareOutput(p), ~Stop(p) PROVE RenderTimes(p)'
    <2>1. MoveTo(p, "summary", <<>>) /\ clerk[p].at = "confirm" /\ Got(p, "confirm") = Got(p, "root")
      BY <1>10 DEF PrepareOutput, Reached, Require
    <2> QED
      BY <1>3, <1>8, <2>1
  <1>11. ASSUME WriteSummary(p), ~Stop(p) PROVE RenderTimes(p)'
    <2>1. MoveTo(p, "manifest", <<>>) /\ clerk[p].at = "summary"
      BY <1>11 DEF WriteSummary
    <2>2. "confirm" \in DOMAIN clerk[p].read /\ Got(p, "confirm") = Got(p, "root")
      BY <1>1, <2>1 DEF RenderTimes
    <2> QED
      BY <1>8, <2>1, <2>2
  <1>12. ASSUME WriteManifest(p), ~Stop(p) PROVE RenderTimes(p)'
    <2>1. clerk' = [clerk EXCEPT ![p].at = "written"] /\ clerk[p].at = "manifest"
      BY <1>12 DEF WriteManifest
    <2>2. clerk'[p].at = "written" /\ clerk'[p].read = clerk[p].read /\ clerk'[p].since = since
      BY <1>1, <2>1, LabelGives DEF Steps
    <2>3. \A phase : Got(p, phase)' = Got(p, phase)
      BY <2>2 DEF Got
    <2>4. "confirm" \in DOMAIN clerk[p].read /\ Got(p, "confirm") = Got(p, "root")
      BY <1>1, <2>1 DEF RenderTimes
    <2>5. PICK b, c \in DOMAIN log : Loaded(log, p, b, c) /\ Within(log, Got(p, "confirm"), c, L)
      BY <1>4, <2>1
    <2> QED
      BY <1>5, <2>2, <2>3, <2>4, <2>5
  <1> QED
    BY <1>1, <1>2, <1>6, <1>7, <1>9, <1>10, <1>11, <1>12, StepsOf DEF RenderStep

\* A capture.
LEMMA CaptureTimesStay ==
  ASSUME CaseInv, NEW p \in Clerk, ScriptStep(p), Timed(p)
  PROVE  CaptureTimes(p)'
  <1>0. CASE Asked(p).script # "capture"
    BY <1>0, AskedKept DEF CaptureTimes
  <1> SUFFICES ASSUME Asked(p).script = "capture" PROVE CaptureTimes(p)'
    BY <1>0
  <1> DEFINE L == Len(log)
             since == clerk[p].since
  <1>1. /\ log' = log /\ Asked(p)' = Asked(p) /\ L \in Nat \ {0} /\ DOMAIN log = 1..L
        /\ Shaped /\ Stage(p) /\ Reading(p) /\ HasRead(p) /\ CaptureTimes(p) /\ since \in 0..L
    BY LogStays DEF Timed, ReadsAre
  <1>2. CASE Stop(p)
    BY <1>1, <1>2, StopGives DEF CaptureTimes
  <1>3. clerk[p].at \in {"capture", "again"} => "capture" \in DOMAIN clerk[p].read
    BY <1>1, Phases DEF HasRead, Reading
  <1>4. \A l, lo, hi : Within(l, <<>>, lo, hi)
    BY WithinNone
  <1>5. ASSUME ReadNext(p), ~Stop(p) PROVE CaptureTimes(p)'
    <2>1. /\ clerk[p].at \in ReadingPhase
          /\ clerk'[p].at = clerk[p].at /\ clerk'[p].since = since
          /\ \A other \in DOMAIN clerk[p].read : other # clerk[p].at => Got(p, other)' = Got(p, other)
      BY <1>5, ReadsNext
    <2>2. PICK x : Got(p, clerk[p].at)' = With(Got(p, clerk[p].at), x, Lying(log[L], x))
      BY <1>5, ReadsNext
    <2>3. CASE clerk[p].at = "capture"
      <3>1. Within(log, With(Got(p, "capture"), x, Lying(log[L], x)), since, L)
        BY <1>1, <2>3, WithinMore DEF CaptureTimes
      <3> QED
        BY <1>1, <2>1, <2>2, <2>3, <3>1 DEF CaptureTimes
    <2>4. CASE clerk[p].at = "again"
      <3>1. PICK b \in DOMAIN log : /\ since <= b
                                    /\ Within(log, Got(p, "capture"), since, b)
                                    /\ Within(log, Got(p, "again"), b, L)
        BY <1>1, <2>4 DEF CaptureTimes
      <3>2. Within(log, With(Got(p, "again"), x, Lying(log[L], x)), b, L)
        BY <1>1, <3>1, WithinMore
      <3>3. Got(p, "capture")' = Got(p, "capture")
        BY <1>3, <2>1, <2>4
      <3>4. \E b1 \in DOMAIN log' : /\ clerk'[p].since <= b1
                                    /\ Within(log', Got(p, "capture")', clerk'[p].since, b1)
                                    /\ Within(log', Got(p, "again")', b1, Len(log'))
        BY <1>1, <2>1, <2>2, <2>4, <3>1, <3>2, <3>3
      <3> QED
        BY <1>1, <2>1, <2>4, <3>4 DEF CaptureTimes
    <2> QED
      BY <1>1, <2>1, <2>3, <2>4, Phases DEF Stage
  <1>6. ASSUME AskCapture(p) PROVE CaptureTimes(p)'
    <2>1. Begin(p, "capture", REQUIRED_FILES, Absent, Absent)
      BY <1>6 DEF AskCapture
    <2>2. clerk'[p].at = "capture" /\ clerk'[p].read = With(<<>>, "capture", <<>>)
      BY <1>1, <2>1, BeginGives
    <2>3. Got(p, "capture")' = <<>>
      BY <2>2 DEF Got, With
    <2> QED
      BY <1>4, <2>2, <2>3 DEF CaptureTimes
  <1>7. ASSUME CaptureAgain(p) PROVE CaptureTimes(p)'
    <2>1. MoveTo(p, "again", SetToSeq(Found(p))) /\ clerk[p].at = "capture"
      BY <1>7 DEF CaptureAgain, Reached
    <2>2. /\ clerk'[p].at = "again" /\ clerk'[p].since = since
          /\ Got(p, "again")' = <<>> /\ Got(p, "capture")' = Got(p, "capture")
      BY <1>1, <1>3, <2>1, EntersPhase
    <2>3. Within(log, Got(p, "capture"), since, L) /\ L \in DOMAIN log /\ since <= L
      BY <1>1, <2>1 DEF CaptureTimes
    <2>4. \E b1 \in DOMAIN log' : /\ clerk'[p].since <= b1
                                  /\ Within(log', Got(p, "capture")', clerk'[p].since, b1)
                                  /\ Within(log', Got(p, "again")', b1, Len(log'))
      BY <1>1, <1>4, <2>2, <2>3
    <2> QED
      BY <1>1, <2>2, <2>4 DEF CaptureTimes
  <1>8. ASSUME AnswerCapture(p), ~Stop(p) PROVE CaptureTimes(p)'
    <2>1. /\ clerk' = [clerk EXCEPT ![p].at = "captured"] /\ clerk[p].at = "again" /\ clerk[p].todo = <<>>
          /\ \A x \in Found(p) : Got(p, "again")[x] = Got(p, "capture")[x]
      BY <1>8 DEF AnswerCapture, Reached, Require
    <2>2. clerk'[p].at = "captured" /\ clerk'[p].read = clerk[p].read /\ clerk'[p].since = since
      BY <1>1, <2>1, LabelGives DEF Steps
    <2>3. (\A phase : Got(p, phase)' = Got(p, phase)) /\ Found(p)' = Found(p)
      BY <2>2 DEF Got, Found
    <2>4. Found(p) \subseteq DOMAIN Got(p, "again")
      <3>1. Found(p) \subseteq DOMAIN clerk[p].read["again"] \cup Range(clerk[p].todo)
        BY <1>1, <2>1 DEF Reading
      <3>2. Range(clerk[p].todo) = {}
        BY <2>1 DEF Range
      <3> QED
        BY <3>1, <3>2 DEF Got
    <2>5. \E b1 \in DOMAIN log' : /\ clerk'[p].since <= b1
                                  /\ Within(log', Got(p, "capture")', clerk'[p].since, b1)
                                  /\ Within(log', Got(p, "again")', b1, Len(log'))
      BY <1>1, <2>1, <2>2, <2>3 DEF CaptureTimes
    <2> QED
      BY <1>1, <2>1, <2>2, <2>3, <2>4, <2>5 DEF CaptureTimes
  <1> QED
    BY <1>1, <1>2, <1>5, <1>6, <1>7, <1>8, StepsOf DEF CaptureStep

LEMMA TimesStay ==
  CaseInv /\ (\A p \in Clerk : Timed(p)) /\ [AuditNext]_auditVars => (\A p \in Clerk : Timed(p))'
  <1> SUFFICES ASSUME CaseInv, \A p \in Clerk : Timed(p), [AuditNext]_auditVars
               PROVE  \A p \in Clerk : Timed(p)'
    OBVIOUS
  <1>0. DOMAIN log = 1..Len(log) /\ Len(log) \in Nat \ {0}
    BY DEF CaseInv, CaseTyped
  <1>1. LogGrows /\ DOMAIN log' = 1..Len(log')
    <2>1. CASE AuditNext
      <3>1. LogGrows /\ CaseTyped'
        BY <2>1, CaseMoves
      <3> QED
        BY <3>1 DEF CaseTyped
    <2>2. CASE UNCHANGED auditVars
      BY <1>0, <2>2 DEF auditVars, LogGrows
    <2> QED
      BY <2>1, <2>2
  <1>2. ASSUME NEW p \in Clerk, ScriptStep(p) PROVE \A q \in Clerk : Timed(q)'
    <2>1. Alone(p) /\ \A q \in Clerk : Asked(q)' = Asked(q)
      BY <1>2, ScriptsInOrder, AskedKept
    <2>2. Timed(p)'
      <3>1. ReadsAre(p)'
        BY <1>1, <1>2, ReadsStay DEF Timed
      <3> QED
        BY <1>2, <3>1, RecordTimesStay, RenderTimesStay, CaptureTimesStay DEF Timed
    <2>3. \A q \in Clerk : q # p => Timed(q)'
      BY <1>0, <1>1, <2>1, TimesKept DEF Alone
    <2> QED
      BY <2>2, <2>3
  <1>3. ASSUME clerk' = clerk, chosen' = chosen PROVE \A q \in Clerk : Timed(q)'
    <2>1. \A q \in Clerk : Asked(q)' = Asked(q)
      BY <1>3 DEF Asked, scenario, Planned
    <2> QED
      BY <1>0, <1>1, <1>3, <2>1, TimesKept
  <1>4. ASSUME NEW e \in AuditEdits, EditCase(e) PROVE clerk' = clerk /\ chosen' = chosen
    BY <1>4 DEF EditCase, theRest
  <1>5. UNCHANGED auditVars => clerk' = clerk /\ chosen' = chosen
    BY DEF auditVars
  <1> QED
    BY <1>2, <1>3, <1>4, <1>5 DEF AuditNext

LEMMA TimesBegin == AuditInit => \A p \in Clerk : Timed(p)
  <1> SUFFICES ASSUME AuditInit, NEW p \in Clerk PROVE Timed(p)
    OBVIOUS
  <1>0. CaseInv
    BY CaseBegins
  <1>1. DOMAIN log = 1..Len(log) /\ Len(log) \in Nat \ {0} /\ log \in Seq(CaseMoment)
    BY <1>0 DEF CaseInv, CaseTyped
  <1>2. WellBegun(scenario, p) /\ clerk = scenario.clerk /\ log = MomentsOf(scenario)
    BY AuditAssumption DEF AuditInit, scenario, Planned, WellFormed, MomentsOf, Now
  <1>3. CASE clerk[p] = Waiting
    <2>1. clerk[p].at = "waiting" /\ clerk[p].read = <<>> /\ clerk[p].since = 0
      BY <1>3, WaitingIs
    <2> QED
      BY <1>1, <2>1 DEF Timed, ReadsAre, RecordTimes, RenderTimes, CaptureTimes
  <1>4. CASE clerk[p] # Waiting
    <2>1. PICK r, root : /\ clerk[p] = RootConfirmed(r, root)
                         /\ \E i \in DOMAIN log : root = log[i].documents
      BY <1>2, <1>4 DEF WellBegun
    <2>2. PICK i \in DOMAIN log : root = log[i].documents
      BY <2>1
    <2>3. log[i] \in CaseMoment
      BY <1>1
    <2>4. root \in Documents
      BY <2>2, <2>3 DEF CaseMoment
    <2>5. /\ clerk[p].at = "receipt" /\ clerk[p].read = With(<<>>, "root", root)
          /\ clerk[p].since = 0
      BY <2>1, WaitingIs DEF RootConfirmed, Fields
    <2>6. Got(p, "root") = root /\ DOMAIN clerk[p].read = {"root"}
      BY <2>5 DEF Got, With
    <2>7. DOMAIN root = CaseFiles /\ root = [f \in DOMAIN root |-> root[f]]
      BY <2>4 DEF Documents
    <2>8. Within(log, root, 1, Len(log))
      BY <1>1, <2>2, <2>7, DocumentTyped DEF Within, Lying
    <2> QED
      BY <1>1, <2>5, <2>6, <2>7, <2>8 DEF Timed, ReadsAre, RecordTimes, RenderTimes, CaptureTimes, Got
  <1> QED
    BY <1>3, <1>4

THEOREM TimesInvariant == AuditSpec => [](CaseInv /\ BundleInv /\ \A p \in Clerk : Timed(p))
  <1>1. (CaseInv /\ BundleInv /\ \A p \in Clerk : Timed(p)) /\ [AuditNext]_auditVars
          => (CaseInv /\ BundleInv /\ \A p \in Clerk : Timed(p))'
    BY CaseStays, BundleStays, TimesStay
  <1>2. AuditInit => CaseInv /\ BundleInv /\ \A p \in Clerk : Timed(p)
    BY CaseBegins, BundleBegins, TimesBegin
  <1> QED
    BY <1>1, <1>2, PTL DEF AuditSpec

\* What is the same at two moments, when nothing has come back, is so between.
LEMMA SameBetween ==
  ASSUME ~Restored, DOMAIN log = 1..Len(log), NEW i \in DOMAIN log, NEW j \in DOMAIN log,
         NEW k \in DOMAIN log, i <= j, j <= k, NEW x \in CaseFiles \cup Artifact,
         Lying(log[i], x) = Lying(log[k], x)
  PROVE  Lying(log[j], x) = Lying(log[i], x)
  <1>1. CASE i = j \/ j = k
    BY <1>1
  <1>2. CASE i < j /\ j < k
    BY <1>2, OutputNames DEF Restored, Lying
  <1> QED
    BY <1>1, <1>2

\* A summary is of one moment.
LEMMA RenderSigned ==
  ASSUME CaseInv, BundleInv, ~Restored, NEW p \in Clerk, Timed(p),
         Asked(p).script = "render", clerk[p].at = "written"
  PROVE  /\ output["manifest"].source = output["summary"]
         /\ \E m \in Moments(p) : m.documents = output["summary"]
  <1>0. /\ log \in Seq(CaseMoment) /\ DOMAIN log = 1..Len(log) /\ Len(log) \in Nat
        /\ clerk[p].since \in 0..Len(log)
    BY DEF CaseInv, CaseTyped, Timed, ReadsAre
  <1>1. output["manifest"].source = Got(p, "root") /\ output["summary"] = Got(p, "load")
    BY DEF BundleInv, BundleOK, Rendered
  <1>2. Complete(p, "root") /\ Complete(p, "load")
    BY DEF CaseInv, ScriptOK, HasRead
  <1> DEFINE root == Got(p, "root")
             load == Got(p, "load")
  <1>3. /\ DOMAIN root = CaseFiles /\ DOMAIN load = CaseFiles
        /\ root = [f \in CaseFiles |-> root[f]] /\ load = [f \in CaseFiles |-> load[f]]
    BY <1>2 DEF Complete, Got, Timed, ReadsAre
  <1>4. PICK b, c \in DOMAIN log :
          /\ clerk[p].since <= b /\ b <= c
          /\ Within(log, root, clerk[p].since, b) /\ Within(log, load, b, c)
          /\ Within(log, Got(p, "confirm"), c, Len(log)) /\ Got(p, "confirm") = root
    BY DEF Timed, RenderTimes
  <1> HIDE DEF root, load
  <1>5. ASSUME NEW f \in CaseFiles PROVE root[f] = log[b].documents[f] /\ load[f] = log[b].documents[f]
    <2>1. PICK i \in clerk[p].since..b : i \in DOMAIN log /\ root[f] = Lying(log[i], f)
      BY <1>3, <1>4, <1>5 DEF Within
    <2>2. PICK k \in c..Len(log) : k \in DOMAIN log /\ root[f] = Lying(log[k], f)
      BY <1>3, <1>4, <1>5 DEF Within
    <2>3. PICK j \in b..c : j \in DOMAIN log /\ load[f] = Lying(log[j], f)
      BY <1>3, <1>4, <1>5 DEF Within
    <2>4. i <= b /\ b <= k /\ i <= j /\ j <= k
      BY <1>0, <1>4, <2>1, <2>2, <2>3
    <2>5. Lying(log[i], f) = Lying(log[k], f) /\ f \in CaseFiles \cup Artifact
      BY <1>5, <2>1, <2>2
    <2>6. Lying(log[b], f) = Lying(log[i], f)
      BY <1>0, <2>1, <2>2, <2>4, <2>5, SameBetween
    <2>7. j \in Int /\ c \in Int /\ j <= k
      BY <1>0, <1>4, <2>2, <2>3
    <2>8. Lying(log[j], f) = Lying(log[i], f)
      BY <1>0, <2>1, <2>2, <2>3, <2>4, <2>5, <2>7, SameBetween
    <2>9. Lying(log[b], f) = log[b].documents[f]
      BY <1>5, OutputNames DEF Lying
    <2> QED
      BY <2>1, <2>3, <2>6, <2>8, <2>9
  <1>6. log[b].documents = [f \in CaseFiles |-> log[b].documents[f]]
    <2>1. log[b] \in CaseMoment
      BY <1>0, <1>4
    <2>2. log[b].documents \in Documents
      BY <2>1 DEF CaseMoment
    <2> QED
      BY <2>2 DEF Documents
  <1>7. root = log[b].documents /\ load = log[b].documents
    BY <1>3, <1>5, <1>6
  <1>8. log[b] \in Moments(p)
    BY <1>0, <1>4 DEF Moments
  <1> QED
    BY <1>1, <1>7, <1>8 DEF root, load

\* A receipt reported as recorded names the root the documents had then.
LEMMA RecordSigned ==
  ASSUME CaseInv, ~Restored, NEW p \in Clerk, Timed(p), clerk[p].at = "recorded"
  PROVE  log[clerk[p].written].documents = Got(p, "root")
  <1>0. log \in Seq(CaseMoment) /\ DOMAIN log = 1..Len(log) /\ Len(log) \in Nat
    BY DEF CaseInv, CaseTyped
  <1>1. Asked(p).script = "record" /\ Complete(p, "root")
    BY DEF CaseInv, ScriptOK, Stage, HasRead
  <1> DEFINE root == Got(p, "root")
             w == clerk[p].written
  <1>2. DOMAIN root = CaseFiles /\ root = [f \in CaseFiles |-> root[f]]
    BY <1>1 DEF Complete, Got, Timed, ReadsAre
  <1>3. /\ w \in DOMAIN log /\ Within(log, root, 1, w)
        /\ Within(log, root, w, Len(log))
    BY <1>1 DEF Timed, RecordTimes
  <1> HIDE DEF root, w
  <1>4. ASSUME NEW f \in CaseFiles PROVE root[f] = log[w].documents[f]
    <2>1. PICK i \in 1..w : i \in DOMAIN log /\ root[f] = Lying(log[i], f)
      BY <1>2, <1>3, <1>4 DEF Within
    <2>2. PICK k \in w..Len(log) : k \in DOMAIN log /\ root[f] = Lying(log[k], f)
      BY <1>2, <1>3, <1>4 DEF Within
    <2>3. i <= w /\ w <= k
      BY <1>0, <1>3, <2>1, <2>2
    <2>4. Lying(log[i], f) = Lying(log[k], f) /\ f \in CaseFiles \cup Artifact
      BY <1>4, <2>1, <2>2
    <2>5. Lying(log[w], f) = Lying(log[i], f)
      BY <1>0, <1>3, <2>1, <2>2, <2>3, <2>4, SameBetween
    <2> QED
      BY <1>4, <2>1, <2>5, OutputNames DEF Lying
  <1>5. log[w].documents = [f \in CaseFiles |-> log[w].documents[f]]
    <2>1. log[w] \in CaseMoment
      BY <1>0, <1>3
    <2>2. log[w].documents \in Documents
      BY <2>1 DEF CaseMoment
    <2> QED
      BY <2>2 DEF Documents
  <1> QED
    BY <1>2, <1>4, <1>5 DEF root, w

\* What a capture holds was there together.
LEMMA CaptureSigned ==
  ASSUME CaseInv, ~Restored, NEW p \in Clerk, Timed(p), clerk[p].at = "captured"
  PROVE  \E m \in Moments(p) : \A x \in Found(p) : Got(p, "capture")[x] = Lying(m, x)
  <1>0. /\ DOMAIN log = 1..Len(log) /\ Len(log) \in Nat /\ clerk[p].since \in 0..Len(log)
    BY DEF CaseInv, CaseTyped, Timed, ReadsAre
  <1>1. Asked(p).script = "capture" /\ DOMAIN Got(p, "capture") \subseteq CaseFiles \cup Artifact
    BY DEF CaseInv, ScriptOK, Stage, HasRead, Got
  <1>2. PICK b \in DOMAIN log : /\ clerk[p].since <= b
                                /\ Within(log, Got(p, "capture"), clerk[p].since, b)
                                /\ Within(log, Got(p, "again"), b, Len(log))
    BY <1>1 DEF Timed, CaptureTimes
  <1>3. /\ Found(p) \subseteq DOMAIN Got(p, "again") /\ Found(p) \subseteq DOMAIN Got(p, "capture")
        /\ \A x \in Found(p) : Got(p, "again")[x] = Got(p, "capture")[x]
    BY <1>1 DEF Timed, CaptureTimes, Found
  <1>4. ASSUME NEW x \in Found(p) PROVE Got(p, "capture")[x] = Lying(log[b], x)
    <2>1. PICK i \in clerk[p].since..b : i \in DOMAIN log /\ Got(p, "capture")[x] = Lying(log[i], x)
      BY <1>2, <1>3, <1>4 DEF Within
    <2>2. PICK k \in b..Len(log) : k \in DOMAIN log /\ Got(p, "again")[x] = Lying(log[k], x)
      BY <1>2, <1>3, <1>4 DEF Within
    <2>3. i <= b /\ b <= k /\ x \in CaseFiles \cup Artifact
      BY <1>0, <1>1, <1>2, <1>3, <1>4, <2>1, <2>2
    <2>4. Lying(log[i], x) = Lying(log[k], x)
      BY <1>3, <1>4, <2>1, <2>2
    <2>5. Lying(log[b], x) = Lying(log[i], x)
      BY <1>0, <1>2, <2>1, <2>2, <2>3, <2>4, SameBetween
    <2> QED
      BY <2>1, <2>5
  <1>5. log[b] \in Moments(p)
    BY <1>0, <1>2 DEF Moments
  <1> QED
    BY <1>4, <1>5

\* Unless a content comes back, what a script answers under one digest was in the
\* case at one moment while it ran, however the documents are edited meanwhile.
THEOREM DigestsAreOfOneMoment == AuditSpec => []SignedAtOneMoment
  <1>1. CaseInv /\ BundleInv /\ (\A p \in Clerk : Timed(p)) => SignedAtOneMoment
    BY RecordSigned, RenderSigned, CaptureSigned DEF SignedAtOneMoment
  <1> QED
    BY <1>1, TimesInvariant, PTL

-----------------------------------------------------------------------------
(* The receipts.                                                              *)

\* A directory of receipts to which some are added, and in which some that were
\* created are written.
Grown(old, new) ==
    /\ DOMAIN old \subseteq DOMAIN new
    /\ \A n \in DOMAIN old : old[n] # Partial => new[n] = old[n]

\* What a recorder has made sure of, phase by phase.
Drafted(r) == r \in ReviewReceipt /\ RootOf(r) # Absent
Sound(r) == Drafted(r) /\ RecorderAccepts(r, RootOf(r))
Checked(r, o, found) == o \in DOMAIN found /\ Reconcilable(r, found[o])
RecorderOK(p) ==
    LET c == clerk[p]
    IN  Asked(p).script = "record" =>
            /\ c.at \in {"validate", "root"} => Drafted(c.receipt)
            /\ c.at = "reviewed" =>
                  /\ Sound(c.receipt) /\ c.todo \in Seq(ReceiptName) /\ c.todo # <<>>
                  /\ \A o \in c.receipt.reviewed : o \in Range(c.todo) \/ Checked(c.receipt, o, receipts)
            /\ c.at \in {"confirm", "receipt", "body"} => Accepted(c.receipt, receipts)
            /\ c.at = "body" => Asked(p).name \in DOMAIN receipts /\ receipts[Asked(p).name] = Partial

\* One recorder writes a receipt.
WritesIt(p) == Asked(p).script = "record" /\ clerk[p].at = "body"
OneRecorder ==
    \A p, q \in Clerk : p # q /\ WritesIt(p) /\ WritesIt(q) => Asked(p).name # Asked(q).name

ReceiptInv == AllAccepted(receipts) /\ OneRecorder /\ \A p \in Clerk : RecorderOK(p)

\* What was checked against the receipts stays so.
LEMMA CheckedStays ==
  ASSUME NEW old, NEW new, Grown(old, new), NEW r
  PROVE  /\ \A o : Checked(r, o, old) => Checked(r, o, new)
         /\ Accepted(r, old) => Accepted(r, new)
  <1>1. \A o : Checked(r, o, old) => Checked(r, o, new)
    BY DEF Checked, Grown, Reconcilable
  <1> QED
    BY <1>1 DEF Accepted, Checked

LEMMA GrownTwice ==
  ASSUME NEW a, NEW b, NEW c, Grown(a, b), Grown(b, c)
  PROVE  Grown(a, c)
  BY DEF Grown

\* A step leaves the receipts alone, but those of a recorder that creates or
\* writes its own.
LEMMA ReceiptsAlone ==
  ASSUME NEW p \in Clerk, ScriptStep(p), ~CreateReceipt(p), ~WriteReceipt(p)
  PROVE  receipts' = receipts
  BY DEF ScriptStep, ReadNext, CrashClerk, AskEnsure, PrepareCase, CreateDocument, WriteDocument,
     CheckCase, AnswerEnsure, AskRecord, TakeRoot, CheckReceipt, CheckReviewed, ConfirmRoot,
     AnswerRecord, AskExport, LoadReady, PrepareOutput, CopyNext, CheckBundle, WriteSummary,
     WriteManifest, AskRender, RenderReads, AskCapture, CaptureAgain, AnswerCapture

\* What is asked of a recorder.
LEMMA RecorderAsked ==
  ASSUME CaseInv, NEW p \in Clerk, Asked(p).script = "record"
  PROVE  Asked(p).receipts \subseteq ReviewReceipt /\ Asked(p).name \in ReceiptName
  <1>1. WellFormed(scenario)
    BY AuditAssumption DEF CaseInv, scenario, Planned
  <1> QED
    BY <1>1 DEF WellFormed, WellRun, Asked

\* Each of the steps of a recorder that leaves the receipts alone.
LEMMA RecorderReads ==
  ASSUME CaseInv, ReceiptInv, NEW p \in Clerk, Asked(p).script = "record", ScriptStep(p),
         ~CreateReceipt(p), ~WriteReceipt(p)
  PROVE  RecorderOK(p)' /\ ~WritesIt(p)'
  <1>0. /\ Shaped /\ Stage(p) /\ RecorderOK(p) /\ receipts' = receipts /\ Asked(p)' = Asked(p)
        /\ log \in Seq(CaseMoment)
    BY ReceiptsAlone, AskedKept DEF CaseInv, CaseTyped, ScriptOK, ReceiptInv
  <1> DEFINE c == clerk[p]
             r == clerk[p].receipt
  <1>1. CASE Stop(p)
    BY <1>0, <1>1, StopGives DEF RecorderOK, WritesIt
  <1>2. CASE ReadNext(p) /\ ~Stop(p)
    <2>1. c.at \in {"validate", "root", "confirm", "final"}
      BY <1>0, <1>2 DEF ReadNext, ReadingPhase, Digesting, WithArtifacts, Stage
    <2>2. clerk'[p].at = c.at /\ clerk'[p].receipt = r
      BY <1>0, <1>2, TakesIn DEF Steps
    <2> QED
      BY <1>0, <2>1, <2>2 DEF RecorderOK, WritesIt
  <1>3. CASE AskRecord(p)
    <2>1. PICK r0 \in Asked(p).receipts, input \in Roots, resulting \in Roots :
             Begin(p, "validate", REQUIRED_FILES, Absent,
                   [r0 EXCEPT !.input = input,
                              !.resulting = IF Original(r0) THEN Absent ELSE resulting])
      BY <1>3 DEF AskRecord
    <2> DEFINE s == [r0 EXCEPT !.input = input,
                               !.resulting = IF Original(r0) THEN Absent ELSE resulting]
    <2>2. r0 \in ReviewReceipt
      BY <1>0, <2>1, RecorderAsked
    <2>3. input \in Documents /\ resulting \in Documents
      <3>1. \A i \in DOMAIN log : log[i] \in CaseMoment
        BY <1>0
      <3> QED
        BY <2>1, <3>1 DEF Roots, CaseMoment
    <2>4. s \in ReviewReceipt
      BY <2>2, <2>3 DEF ReviewReceipt
    <2>5. s.type = r0.type /\ s.input = input /\ (~Original(r0) => s.resulting = resulting)
      BY <2>2 DEF ReviewReceipt
    <2>6. Drafted(s)
      <3> HIDE DEF s
      <3> QED
        BY <2>3, <2>4, <2>5, CaseAssumption DEF Drafted, RootOf, Original
    <2>7. clerk'[p].at = "validate" /\ clerk'[p].receipt = s
      <3>1. Begin(p, "validate", REQUIRED_FILES, Absent, s)
        BY <2>1
      <3> HIDE DEF s
      <3> QED
        BY <1>0, <3>1, BeginGives
    <2> HIDE DEF s
    <2> QED
      BY <1>0, <2>6, <2>7 DEF RecorderOK, WritesIt
  <1>4. CASE TakeRoot(p) /\ ~Stop(p)
    <2>1. clerk'[p].at = "root" /\ clerk'[p].receipt = r /\ c.at = "validate"
      BY <1>0, <1>4, ReadGives DEF TakeRoot, Require, Steps, Reached
    <2> QED
      BY <1>0, <2>1 DEF RecorderOK, WritesIt
  <1>5. CASE CheckReceipt(p) /\ ~Stop(p)
    <2>1. c.at = "root" /\ RecorderAccepts(r, Got(p, "root"))
      BY <1>5 DEF CheckReceipt, Reached, Require
    <2>2. Drafted(r)
      BY <1>0, <2>1 DEF RecorderOK
    <2>3. Sound(r)
      BY <2>1, <2>2 DEF Sound, RecorderAccepts, RootOf
    <2>4. CASE Original(r)
      <3>1. clerk'[p].at = "confirm" /\ clerk'[p].receipt = r
        BY <1>0, <1>5, <2>4, ReadGives DEF CheckReceipt, Require, Steps
      <3>2. Accepted(r, receipts)
        BY <2>3, <2>4 DEF Sound, Drafted, Accepted, RecorderAccepts
      <3> QED
        BY <1>0, <3>1, <3>2 DEF RecorderOK, WritesIt
    <2>5. CASE ~Original(r)
      <3>1. MoveTo(p, "reviewed", SetToSeq(r.reviewed))
        BY <1>5, <2>5 DEF CheckReceipt, Require
      <3>2. /\ clerk'[p].at = "reviewed" /\ clerk'[p].receipt = r
            /\ clerk'[p].todo = SetToSeq(r.reviewed)
        BY <1>0, <3>1, MoveGives DEF Steps
      <3>3. r.reviewed \subseteq ReceiptName /\ r.reviewed # {}
        BY <2>1, <2>2, <2>5 DEF Drafted, ReviewReceipt, RecorderAccepts
      <3>4. IsFiniteSet(r.reviewed)
        BY <3>3, CaseAssumption, FS_Subset
      <3>5. SetToSeq(r.reviewed) \in Seq(r.reviewed) /\ Range(SetToSeq(r.reviewed)) = r.reviewed
        BY <3>4, SequenceOfSet
      <3>6. SetToSeq(r.reviewed) # <<>>
        BY <3>3, <3>5 DEF Range
      <3>7. SetToSeq(r.reviewed) \in Seq(ReceiptName)
        BY <3>3, <3>5
      <3> QED
        BY <1>0, <2>3, <3>2, <3>5, <3>6, <3>7 DEF RecorderOK, WritesIt
    <2> QED
      BY <2>4, <2>5
  <1>6. CASE CheckReviewed(p) /\ ~Stop(p)
    <2> DEFINE n == Head(c.todo)
               left == Tail(c.todo)
    <2>1. /\ c.at = "reviewed" /\ Checked(r, n, receipts)
          /\ IF left = <<>> THEN Read(p, "confirm") ELSE MoveTo(p, "reviewed", left)
      BY <1>6 DEF CheckReviewed, Require, Checked
    <2>2. /\ Sound(r) /\ c.todo \in Seq(ReceiptName) /\ c.todo # <<>>
          /\ \A o \in r.reviewed : o \in Range(c.todo) \/ Checked(r, o, receipts)
      BY <1>0, <2>1 DEF RecorderOK
    <2>3. left \in Seq(ReceiptName) /\ Range(c.todo) = {n} \cup Range(left)
      BY <2>2, FirstAndRest
    <2>4. \A o \in r.reviewed : o \in Range(left) \/ Checked(r, o, receipts)
      BY <2>1, <2>2, <2>3
    <2> HIDE DEF n, left
    <2>5. CASE left = <<>>
      <3>1. clerk'[p].at = "confirm" /\ clerk'[p].receipt = r
        BY <1>0, <2>1, <2>5, ReadGives DEF Steps
      <3>2. Range(left) = {}
        BY <2>5 DEF Range
      <3>3. Accepted(r, receipts)
        BY <2>2, <2>4, <3>2 DEF Sound, Drafted, Accepted, Checked
      <3> QED
        BY <1>0, <3>1, <3>3 DEF RecorderOK, WritesIt
    <2>6. CASE left # <<>>
      <3>1. clerk'[p].at = "reviewed" /\ clerk'[p].receipt = r /\ clerk'[p].todo = left
        BY <1>0, <2>1, <2>6, MoveGives DEF Steps
      <3> QED
        BY <1>0, <2>2, <2>3, <2>4, <2>6, <3>1 DEF RecorderOK, WritesIt
    <2> QED
      BY <2>5, <2>6
  <1>7. CASE ConfirmRoot(p) /\ ~Stop(p)
    <2>1. clerk'[p].at = "receipt" /\ clerk'[p].receipt = r /\ c.at = "confirm"
      BY <1>0, <1>7, MoveGives DEF ConfirmRoot, Require, Steps, Reached
    <2> QED
      BY <1>0, <2>1 DEF RecorderOK, WritesIt
  <1>8. CASE AnswerRecord(p)
    <2>1. clerk'[p].at \in {"recorded", "historical"}
      BY <1>0, <1>8, LabelGives DEF AnswerRecord, Steps
    <2> QED
      BY <1>0, <2>1 DEF RecorderOK, WritesIt
  <1> QED
    BY <1>0, <1>1, <1>2, <1>3, <1>4, <1>5, <1>6, <1>7, <1>8, StepsOf DEF RecordStep

\* One recorder writes a receipt: nobody else creates it or writes it.
LEMMA ReceiptsMove ==
  ASSUME CaseInv, ReceiptInv, NEW p \in Clerk, ScriptStep(p)
  PROVE  /\ Grown(receipts, receipts') /\ AllAccepted(receipts)' /\ RecorderOK(p)'
         /\ WritesIt(p)' => WritesIt(p) \/ Asked(p).name \notin DOMAIN receipts
         /\ \A q \in Clerk : q # p /\ WritesIt(q) => receipts'[Asked(q).name] = receipts[Asked(q).name]
  <1>0. /\ Shaped /\ Stage(p) /\ RecorderOK(p) /\ Asked(p)' = Asked(p)
        /\ AllAccepted(receipts) /\ OneRecorder
    BY AskedKept DEF CaseInv, ScriptOK, ReceiptInv
  <1>1. CASE ~CreateReceipt(p) /\ ~WriteReceipt(p)
    <2>1. receipts' = receipts
      BY <1>1, ReceiptsAlone
    <2>2. Asked(p).script = "record" => RecorderOK(p)' /\ ~WritesIt(p)'
      BY <1>1, RecorderReads
    <2>3. Asked(p).script # "record" => RecorderOK(p)' /\ ~WritesIt(p)'
      BY <1>0 DEF RecorderOK, WritesIt
    <2>4. AllAccepted(receipts)' /\ Grown(receipts, receipts')
      BY <1>0, <2>1 DEF Grown
    <2> QED
      BY <2>1, <2>2, <2>3, <2>4
  <1> DEFINE r == clerk[p].receipt
             n == Asked(p).name
  <1>2. CASE CreateReceipt(p) /\ ~Stop(p)
    <2>1. /\ Asked(p).script = "record" /\ clerk[p].at = "receipt" /\ n \notin DOMAIN receipts
          /\ receipts' = With(receipts, n, Partial) /\ MoveTo(p, "body", <<>>)
      BY <1>2 DEF CreateReceipt, Reached
    <2>2. clerk'[p].at = "body" /\ clerk'[p].receipt = r
      BY <1>0, <2>1, MoveGives DEF Steps
    <2>3. /\ DOMAIN receipts' = DOMAIN receipts \cup {n} /\ receipts'[n] = Partial
          /\ \A o \in DOMAIN receipts : receipts'[o] = receipts[o]
          /\ receipts' = [o \in DOMAIN receipts' |-> receipts'[o]]
      BY <2>1 DEF With
    <2>4. n \in ReceiptName
      BY <2>1, RecorderAsked
    <2>5. Grown(receipts, receipts')
      BY <2>3 DEF Grown
    <2>6. AllAccepted(receipts)'
      <3>1. \A o \in DOMAIN receipts' : receipts'[o] = Partial \/ Accepted(receipts'[o], receipts')
        BY <1>0, <2>3, <2>5, CheckedStays DEF AllAccepted
      <3> QED
        BY <1>0, <2>3, <2>4, <3>1 DEF AllAccepted
    <2>7. Accepted(r, receipts')
      BY <1>0, <2>1, <2>5, CheckedStays DEF RecorderOK
    <2>8. RecorderOK(p)'
      BY <1>0, <2>2, <2>3, <2>7 DEF RecorderOK
    <2>9. \A q \in Clerk : q # p /\ WritesIt(q) => receipts'[Asked(q).name] = receipts[Asked(q).name]
      BY <2>3 DEF ReceiptInv, RecorderOK, WritesIt
    <2> QED
      BY <2>1, <2>5, <2>6, <2>8, <2>9
  <1>3. CASE CreateReceipt(p) /\ Stop(p)
    <2>1. receipts' = receipts
      <3>1. clerk'[p].at = "stopped"
        BY <1>0, <1>3, StopGives
      <3>2. MoveTo(p, "body", <<>>) => clerk'[p].at = "body"
        BY <1>0, MoveGives DEF Steps
      <3> QED
        BY <1>3, <3>1, <3>2 DEF CreateReceipt
    <2>2. clerk'[p].at = "stopped"
      BY <1>0, <1>3, StopGives
    <2>3. RecorderOK(p)' /\ ~WritesIt(p)'
      BY <2>2 DEF RecorderOK, WritesIt
    <2>4. AllAccepted(receipts)' /\ Grown(receipts, receipts')
      BY <1>0, <2>1 DEF Grown
    <2> QED
      BY <2>1, <2>3, <2>4
  <1>4. CASE WriteReceipt(p)
    <2>1. /\ Asked(p).script = "record" /\ clerk[p].at = "body"
          /\ receipts' = [receipts EXCEPT ![n] = r]
      BY <1>4 DEF WriteReceipt, Reached
    <2>2. clerk'[p].at = "final"
      BY <1>0, <1>4, WrittenGives DEF Steps
    <2>3. n \in DOMAIN receipts /\ receipts[n] = Partial /\ Accepted(r, receipts)
      BY <1>0, <2>1 DEF RecorderOK
    <2>4. receipts = [o \in DOMAIN receipts |-> receipts[o]]
      BY <1>0 DEF AllAccepted
    <2>5. /\ DOMAIN receipts' = DOMAIN receipts /\ receipts'[n] = r
          /\ \A o \in DOMAIN receipts : o # n => receipts'[o] = receipts[o]
          /\ receipts' = [o \in DOMAIN receipts' |-> receipts'[o]]
      BY <2>1, <2>3, <2>4
    <2>6. Grown(receipts, receipts')
      BY <2>3, <2>5 DEF Grown
    <2>7. AllAccepted(receipts)'
      <3>1. \A o \in DOMAIN receipts' : receipts'[o] = Partial \/ Accepted(receipts'[o], receipts')
        BY <1>0, <2>3, <2>5, <2>6, CheckedStays DEF AllAccepted
      <3> QED
        BY <1>0, <2>5, <3>1 DEF AllAccepted
    <2>8. RecorderOK(p)' /\ ~WritesIt(p)'
      BY <2>2 DEF RecorderOK, WritesIt
    <2>9. \A q \in Clerk : q # p /\ WritesIt(q) => receipts'[Asked(q).name] = receipts[Asked(q).name]
      BY <1>0, <2>1, <2>5 DEF OneRecorder, WritesIt, ReceiptInv, RecorderOK
    <2> QED
      BY <2>6, <2>7, <2>8, <2>9
  <1> QED
    BY <1>1, <1>2, <1>3, <1>4

LEMMA ReceiptsStay ==
  ASSUME CaseInv, ReceiptInv, [AuditNext]_auditVars
  PROVE  ReceiptInv' /\ Grown(receipts, receipts')
  <1>1. ASSUME NEW p \in Clerk, ScriptStep(p) PROVE ReceiptInv' /\ Grown(receipts, receipts')
    <2>1. /\ Alone(p) /\ \A q \in Clerk : Asked(q)' = Asked(q)
      BY <1>1, ScriptsInOrder, AskedKept
    <2>2. /\ Grown(receipts, receipts') /\ AllAccepted(receipts)' /\ RecorderOK(p)'
          /\ WritesIt(p)' => WritesIt(p) \/ Asked(p).name \notin DOMAIN receipts
          /\ \A q \in Clerk : q # p /\ WritesIt(q) => receipts'[Asked(q).name] = receipts[Asked(q).name]
      BY <1>1, ReceiptsMove
    <2>3. ASSUME NEW q \in Clerk, q # p PROVE RecorderOK(q)'
      <3>1. clerk'[q] = clerk[q] /\ Asked(q)' = Asked(q) /\ RecorderOK(q)
        BY <2>1, <2>3 DEF Alone, ReceiptInv
      <3>2. \A r : /\ \A o : Checked(r, o, receipts) => Checked(r, o, receipts')
                   /\ Accepted(r, receipts) => Accepted(r, receipts')
        BY <2>2, CheckedStays
      <3>3. WritesIt(q) => Asked(q).name \in DOMAIN receipts' /\ receipts'[Asked(q).name] = Partial
        BY <2>2, <2>3, <3>1 DEF WritesIt, RecorderOK, Grown
      <3> QED
        BY <3>1, <3>2, <3>3 DEF RecorderOK, WritesIt
    <2>4. OneRecorder'
      <3>1. \A q \in Clerk : q # p => (WritesIt(q)' <=> WritesIt(q))
        BY <2>1 DEF Alone, WritesIt
      <3>2. \A q \in Clerk : WritesIt(q) => Asked(q).name \in DOMAIN receipts
        BY DEF ReceiptInv, RecorderOK, WritesIt
      <3>3. \A q \in Clerk : q # p /\ WritesIt(q) /\ WritesIt(p)' => Asked(q).name # Asked(p).name
        BY <2>2, <3>2 DEF ReceiptInv, OneRecorder
      <3> QED
        BY <2>1, <3>1, <3>3 DEF ReceiptInv, OneRecorder
    <2> QED
      BY <2>2, <2>3, <2>4 DEF ReceiptInv
  <1>2. ASSUME receipts' = receipts, clerk' = clerk, chosen' = chosen
        PROVE  ReceiptInv' /\ Grown(receipts, receipts')
    <2>1. \A q \in Clerk : Asked(q)' = Asked(q)
      BY <1>2 DEF Asked, scenario, Planned
    <2> QED
      BY <1>2, <2>1 DEF ReceiptInv, OneRecorder, RecorderOK, WritesIt, Grown
  <1>3. ASSUME NEW e \in AuditEdits, EditCase(e)
        PROVE  receipts' = receipts /\ clerk' = clerk /\ chosen' = chosen
    BY <1>3 DEF EditCase, theRest
  <1>4. UNCHANGED auditVars => receipts' = receipts /\ clerk' = clerk /\ chosen' = chosen
    BY DEF auditVars
  <1> QED
    BY <1>1, <1>2, <1>3, <1>4 DEF AuditNext

LEMMA ReceiptsBegin == AuditInit => ReceiptInv
  <1> SUFFICES ASSUME AuditInit PROVE ReceiptInv
    OBVIOUS
  <1>1. WellFormed(scenario) /\ receipts = scenario.receipts /\ clerk = scenario.clerk
    BY AuditAssumption DEF AuditInit, scenario, Planned
  <1>2. AllAccepted(receipts)
    BY <1>1 DEF WellFormed
  <1>3. ASSUME NEW p \in Clerk PROVE RecorderOK(p) /\ ~WritesIt(p)
    <2>1. WellBegun(scenario, p)
      BY <1>1 DEF WellFormed
    <2>2. CASE clerk[p] = Waiting
      BY <2>2, WaitingIs DEF RecorderOK, WritesIt
    <2>3. CASE clerk[p] # Waiting
      <3>1. /\ clerk[p] = RootConfirmed(clerk[p].receipt, clerk[p].read["root"])
            /\ Accepted(clerk[p].receipt, receipts)
        BY <1>1, <2>1, <2>3 DEF WellBegun
      <3>2. clerk[p].at = "receipt"
        BY <3>1, WaitingIs DEF RootConfirmed, Fields
      <3> QED
        BY <3>1, <3>2 DEF RecorderOK, WritesIt
    <2> QED
      BY <2>2, <2>3
  <1> QED
    BY <1>2, <1>3 DEF ReceiptInv, OneRecorder

-----------------------------------------------------------------------------
(* The ledger.                                                                *)

LedgerFields == {"at", "decisions", "names", "seen", "initial", "candidates", "content", "shown"}
ReadingTree == {"open", "pre_read", "after_tree", "final"}
Ended == {"idle", "projected", "unavailable"}

\* A listing under way: what it has seen is there, and what it has seen written
\* is written, and as large.
Listing(l, found) ==
    /\ l.decisions \in Seq({n[1] : n \in ReceiptName}) /\ l.names \in Seq(ReceiptName)
    /\ Range(l.names) \subseteq DOMAIN found
    /\ l.seen = [n \in DOMAIN l.seen |-> l.seen[n]] /\ DOMAIN l.seen \subseteq DOMAIN found
    /\ \A n \in DOMAIN l.seen :
          l.seen[n] = "empty" \/ (found[n] # Partial /\ l.seen[n] = Stat(found[n]))

\* A listing that began with the receipts m, or later, meets each of them.
Covering(l, m) ==
    /\ \A n \in DOMAIN m : n \in DOMAIN l.seen \/ n \in Range(l.names) \/ n[1] \in Range(l.decisions)
    /\ \A n \in DOMAIN m : n \in DOMAIN l.seen /\ m[n] # Partial => l.seen[n] = Stat(m[n])

\* The receipts m, of the moment at which the first listing ended, are those
\* the ledger will show: the first listing found no other, the second listing
\* shows that it missed none, and what is read afterwards is what they were.
Readable(m) == {n \in DOMAIN m : Stat(m[n]) # "large"}
Holding(l, m) ==
    /\ l.initial = [n \in DOMAIN m |-> Stat(m[n])]
    /\ l.candidates \in Seq(ReceiptName)
    /\ l.content = [n \in DOMAIN l.content |-> l.content[n]]
    /\ Readable(m) = DOMAIN l.content \cup Range(l.candidates)
    /\ \A n \in DOMAIN l.content : l.content[n] = m[n]
    /\ l.at = "final" <=> l.candidates = <<>>
    /\ l.at = "after_tree" => Head(l.candidates) \in DOMAIN l.content
Relisting(l, m) ==
    /\ l.initial = [n \in DOMAIN l.initial |-> l.initial[n]] /\ DOMAIN l.initial \subseteq DOMAIN m
    /\ \A n \in DOMAIN l.initial :
          l.initial[n] = "empty" \/ (m[n] # Partial /\ l.initial[n] = Stat(m[n]))
    /\ l.candidates \in Seq(ReceiptName) /\ Range(l.candidates) = ToRead(l.initial)
    /\ l.content = <<>> /\ Covering(l, m)
ReadOf(l, m, found) ==
    /\ AllAccepted(m) /\ Grown(m, found)
    /\ l.at = "revalidate" => Relisting(l, m)
    /\ l.at \in ReadingTree => Holding(l, m)

LedgerInv ==
    /\ DOMAIN ledger = LedgerFields /\ ledger.at \in Ended \cup Enumerating \cup {"open"}
    /\ ledger.at \in Enumerating => Listing(ledger, receipts)
    /\ ledger.at = "initial" => ledger.content = <<>>
    /\ ledger.at \notin Ended => receipts \in trees
    /\ ledger.at \in {"revalidate"} \cup ReadingTree => \E m \in trees : ReadOf(ledger, m, receipts)
    /\ LedgerShowsRecorded

\* The receipts shown of a directory in which the recorder made every receipt,
\* once those that are not too large are read.
LEMMA ShownIs ==
  ASSUME NEW m, AllAccepted(m), NEW content, DOMAIN content = Readable(m),
         \A n \in DOMAIN content : content[n] = m[n]
  PROVE  Shown(content) = {n \in DOMAIN m : m[n] # Partial /\ ~Refused(m, n)}
  <1> DEFINE Bad(r) == r.flaws # {} \/ (r.type = "domain-review" /\ r.by = "human")
  <1>1. ASSUME NEW n \in DOMAIN m, m[n] # Partial
        PROVE  n \in Readable(m) /\ LedgerAccepts(m[n]) <=> ~Bad(m[n])
    <2> DEFINE r == m[n]
    <2>1. /\ r \in ReviewReceipt /\ RootOf(r) # Absent /\ RecorderAccepts(r, RootOf(r))
      BY <1>1 DEF AllAccepted, Accepted
    <2>2. /\ r.type \in {"domain-review", "challenge", "reconciliation"} /\ r.by \in {"agent", "human"}
      BY <2>1 DEF ReviewReceipt
    <2>3. n \in Readable(m) <=> "size" \notin r.flaws
      BY <1>1 DEF Readable, Stat
    <2> HIDE DEF r
    <2>4. LedgerAccepts(r) <=> r.flaws \subseteq {"size"} /\ ~(r.type = "domain-review" /\ r.by = "human")
      BY <2>1, <2>2 DEF LedgerAccepts, RootOf, RecorderAccepts, Original
    <2>5. "size" \notin r.flaws /\ r.flaws \subseteq {"size"} <=> r.flaws = {}
      OBVIOUS
    <2>6. n \in Readable(m) /\ LedgerAccepts(r) <=> ~Bad(r)
      BY <2>3, <2>4, <2>5
    <2> QED
      BY <2>6 DEF r
  <1>2. ASSUME NEW n \in DOMAIN m, m[n] # Partial, NEW o \in m[n].reviewed
        PROVE  o \in DOMAIN m /\ m[o] # Partial /\ Reconcilable(m[n], m[o])
    BY <1>2 DEF AllAccepted, Accepted, Reconcilable
  <1> DEFINE retained == {n \in DOMAIN content : content[n] # Partial /\ LedgerAccepts(content[n])}
  <1>3. retained = {n \in DOMAIN m : m[n] # Partial /\ ~Bad(m[n])}
    <2>1. retained = {n \in Readable(m) : m[n] # Partial /\ LedgerAccepts(m[n])}
      OBVIOUS
    <2>2. Readable(m) \subseteq DOMAIN m
      BY DEF Readable
    <2> HIDE DEF retained, Bad
    <2> QED
      BY <1>1, <2>1, <2>2
  <1>4. Shown(content) = {n \in retained :
                            \A o \in m[n].reviewed : o \in retained /\ Reconcilable(m[n], m[o])}
    <2>1. \A n \in retained : content[n] = m[n]
      OBVIOUS
    <2>2. Shown(content) = {n \in retained : \A o \in content[n].reviewed :
                              o \in retained /\ Reconcilable(content[n], content[o])}
      BY DEF Shown
    <2> HIDE DEF retained
    <2> QED
      BY <2>1, <2>2
  <1>5. \A n : Refused(m, n) <=> Bad(m[n]) \/ \E o \in m[n].reviewed : Bad(m[o])
    BY DEF Refused
  <1> HIDE DEF retained, Bad
  <1> QED
    BY <1>2, <1>3, <1>4, <1>5

\* A listing begins.
LEMMA EnumerateGives ==
  ASSUME NEW l, DOMAIN l = LedgerFields, NEW purpose
  PROVE  LET k == Enumerate(l, purpose)
         IN  /\ DOMAIN k = LedgerFields /\ k.at = purpose /\ k.decisions = SetToSeq(Decisions)
             /\ k.names = <<>> /\ k.seen = <<>> /\ k.initial = l.initial
             /\ k.candidates = l.candidates /\ k.content = l.content
  BY DEF Enumerate, LedgerFields

LEMMA ListingBegins ==
  ASSUME AllAccepted(receipts), NEW k, k.decisions = SetToSeq(Decisions), k.names = <<>>, k.seen = <<>>
  PROVE  /\ Listing(k, receipts)
         /\ \A m : Grown(m, receipts) => Covering(k, m)
  <1>1. DOMAIN receipts \subseteq ReceiptName /\ IsFiniteSet(DOMAIN receipts)
    BY CaseAssumption, FS_Subset DEF AllAccepted
  <1>2. IsFiniteSet(Decisions)
    <2> DEFINE f == [n \in DOMAIN receipts |-> n[1]]
    <2>1. f \in Surjection(DOMAIN receipts, Decisions)
      BY DEF Surjection, Decisions
    <2> QED
      BY <1>1, <2>1, FS_Surjection
  <1>3. SetToSeq(Decisions) \in Seq(Decisions) /\ Range(SetToSeq(Decisions)) = Decisions
    BY <1>2, SequenceOfSet
  <1>4. Decisions \subseteq {n[1] : n \in ReceiptName}
    BY <1>1 DEF Decisions
  <1>5. k.decisions \in Seq({n[1] : n \in ReceiptName})
    BY <1>3, <1>4
  <1>6. Range(k.names) = {} /\ k.names \in Seq(ReceiptName) /\ DOMAIN k.seen = {}
    BY DEF Range
  <1>7. k.seen = [n \in DOMAIN k.seen |-> k.seen[n]]
    BY <1>6
  <1>8. Listing(k, receipts)
    BY <1>5, <1>6, <1>7 DEF Listing
  <1>9. \A m : Grown(m, receipts) => Covering(k, m)
    BY <1>3, <1>6 DEF Covering, Grown, Decisions
  <1> QED
    BY <1>8, <1>9

\* The names of one decision are listed.
LEMMA DecisionListed ==
  ASSUME DOMAIN ledger = LedgerFields, AllAccepted(receipts), Listing(ledger, receipts), ListDecision
  PROVE  /\ DOMAIN ledger' = LedgerFields /\ ledger'.at = ledger.at /\ ledger'.seen = ledger.seen
         /\ ledger'.initial = ledger.initial /\ ledger'.candidates = ledger.candidates
         /\ ledger'.content = ledger.content /\ Listing(ledger', receipts)
         /\ \A m : Grown(m, receipts) /\ Covering(ledger, m) => Covering(ledger', m)
  <1> DEFINE d == Head(ledger.decisions)
             left == Tail(ledger.decisions)
             names == SetToSeq(NamesOf(d))
  <1>1. /\ ledger.names = <<>> /\ ledger.decisions # <<>>
        /\ ledger' = [ledger EXCEPT !.names = names, !.decisions = Tail(@)]
    BY DEF ListDecision
  <1>2. /\ DOMAIN ledger' = LedgerFields /\ ledger'.at = ledger.at /\ ledger'.seen = ledger.seen
        /\ ledger'.initial = ledger.initial /\ ledger'.candidates = ledger.candidates
        /\ ledger'.content = ledger.content /\ ledger'.names = names /\ ledger'.decisions = left
    <2> HIDE DEF names
    <2> QED
      BY <1>1 DEF LedgerFields
  <1>3. NamesOf(d) \subseteq DOMAIN receipts /\ DOMAIN receipts \subseteq ReceiptName
    BY DEF NamesOf, AllAccepted
  <1>4. IsFiniteSet(NamesOf(d))
    BY <1>3, CaseAssumption, FS_Subset
  <1>5. names \in Seq(NamesOf(d)) /\ Range(names) = NamesOf(d)
    BY <1>4, SequenceOfSet
  <1>6. names \in Seq(ReceiptName)
    BY <1>3, <1>5
  <1>7. ledger.decisions \in Seq({n[1] : n \in ReceiptName})
    BY DEF Listing
  <1>8. left \in Seq({n[1] : n \in ReceiptName}) /\ Range(ledger.decisions) = {d} \cup Range(left)
    BY <1>1, <1>7, FirstAndRest
  <1> HIDE DEF names, left, d
  <1>9. Listing(ledger', receipts)
    BY <1>2, <1>3, <1>5, <1>6, <1>8 DEF Listing
  <1>10. ASSUME NEW m, Grown(m, receipts), Covering(ledger, m) PROVE Covering(ledger', m)
    <2>1. Range(ledger.names) = {}
      BY <1>1 DEF Range
    <2>2. ASSUME NEW n \in DOMAIN m, n[1] = d PROVE n \in Range(names)
      BY <1>5, <1>10, <2>2 DEF Grown, NamesOf
    <2> QED
      BY <1>2, <1>8, <1>10, <2>1, <2>2 DEF Covering
  <1> QED
    BY <1>2, <1>9, <1>10

\* The stat of one file is taken.
LEMMA FileStatted ==
  ASSUME DOMAIN ledger = LedgerFields, Listing(ledger, receipts), StatFile
  PROVE  /\ DOMAIN ledger' = LedgerFields /\ ledger'.at = ledger.at
         /\ ledger'.initial = ledger.initial /\ ledger'.candidates = ledger.candidates
         /\ ledger'.content = ledger.content /\ Listing(ledger', receipts)
         /\ \A m : Grown(m, receipts) /\ Covering(ledger, m) => Covering(ledger', m)
  <1> DEFINE n == Head(ledger.names)
             left == Tail(ledger.names)
             seen == With(ledger.seen, n, Stat(receipts[n]))
  <1>1. /\ ledger.names # <<>>
        /\ ledger' = [ledger EXCEPT !.names = Tail(@), !.seen = With(@, n, Stat(receipts[n]))]
    BY DEF StatFile
  <1>2. /\ DOMAIN ledger' = LedgerFields /\ ledger'.at = ledger.at /\ ledger'.seen = seen
        /\ ledger'.initial = ledger.initial /\ ledger'.candidates = ledger.candidates
        /\ ledger'.content = ledger.content /\ ledger'.names = left
        /\ ledger'.decisions = ledger.decisions
    BY <1>1 DEF LedgerFields
  <1>3. ledger.names \in Seq(ReceiptName)
    BY DEF Listing
  <1>4. left \in Seq(ReceiptName) /\ Range(ledger.names) = {n} \cup Range(left)
    BY <1>1, <1>3, FirstAndRest
  <1>5. /\ DOMAIN seen = DOMAIN ledger.seen \cup {n} /\ seen[n] = Stat(receipts[n])
        /\ \A o \in DOMAIN ledger.seen : o # n => seen[o] = ledger.seen[o]
        /\ seen = [o \in DOMAIN seen |-> seen[o]]
    BY DEF With
  <1>6. Stat(receipts[n]) = "empty" \/ receipts[n] # Partial
    BY DEF Stat
  <1> HIDE DEF n, left, seen
  <1>7. Listing(ledger', receipts)
    BY <1>2, <1>4, <1>5, <1>6 DEF Listing
  <1>8. ASSUME NEW m, Grown(m, receipts), Covering(ledger, m) PROVE Covering(ledger', m)
    <2>1. n \in DOMAIN m /\ m[n] # Partial => Stat(receipts[n]) = Stat(m[n])
      BY <1>8 DEF Grown
    <2> QED
      BY <1>2, <1>4, <1>5, <1>8, <2>1 DEF Covering
  <1> QED
    BY <1>2, <1>7, <1>8

\* A second listing that equals the first one shows all that was there between.
LEMMA ListedTwice ==
  ASSUME NEW l, NEW m, NEW found, Relisting(l, m), Listing(l, found), l.decisions = <<>>, l.names = <<>>,
         l.seen = l.initial
  PROVE  l.initial = [n \in DOMAIN m |-> Stat(m[n])]
  <1>1. Range(l.decisions) = {} /\ Range(l.names) = {}
    BY DEF Range
  <1>2. DOMAIN l.initial = DOMAIN m
    BY <1>1 DEF Relisting, Covering
  <1>3. ASSUME NEW n \in DOMAIN m PROVE l.initial[n] = Stat(m[n])
    <2>1. m[n] # Partial => l.initial[n] = Stat(m[n])
      BY <1>2, <1>3 DEF Relisting, Covering
    <2>2. l.initial[n] = "empty" \/ m[n] # Partial
      BY <1>2, <1>3 DEF Relisting
    <2> QED
      BY <2>1, <2>2 DEF Stat
  <1>4. l.initial = [n \in DOMAIN l.initial |-> l.initial[n]]
    BY DEF Relisting
  <1> QED
    BY <1>2, <1>3, <1>4

\* A candidate whose stat is still the one first listed has not changed.
LEMMA SameStat ==
  ASSUME NEW m, NEW found, Grown(m, found), NEW n \in DOMAIN m, Stat(found[n]) = Stat(m[n])
  PROVE  found[n] = m[n]
  BY DEF Grown, Stat

\* The next candidate, or the last listing.
LEMMA NextGives ==
  ASSUME NEW l, DOMAIN l = LedgerFields, AllAccepted(receipts)
  PROVE  LET k == NextCandidate(l)
         IN  /\ DOMAIN k = LedgerFields /\ k.initial = l.initial /\ k.candidates = l.candidates
             /\ k.content = l.content
             /\ \/ k.at = "final" /\ l.candidates = <<>> /\ Listing(k, receipts)
                \/ k.at = "open" /\ l.candidates # <<>>
  <1>1. CASE l.candidates = <<>>
    <2> DEFINE k == Enumerate(l, "final")
    <2>1. /\ DOMAIN k = LedgerFields /\ k.at = "final" /\ k.decisions = SetToSeq(Decisions)
          /\ k.names = <<>> /\ k.seen = <<>> /\ k.initial = l.initial
          /\ k.candidates = l.candidates /\ k.content = l.content
      BY EnumerateGives
    <2>2. Listing(k, receipts)
      <3> HIDE DEF k
      <3> QED
        BY <2>1, ListingBegins
    <2>3. NextCandidate(l) = k
      BY <1>1 DEF NextCandidate
    <2> HIDE DEF k
    <2> QED
      BY <1>1, <2>1, <2>2, <2>3
  <1>2. CASE l.candidates # <<>>
    <2> DEFINE k == [l EXCEPT !.at = "open"]
    <2>1. /\ DOMAIN k = LedgerFields /\ k.at = "open" /\ k.initial = l.initial
          /\ k.candidates = l.candidates /\ k.content = l.content
      BY DEF LedgerFields
    <2>2. NextCandidate(l) = k
      BY <1>2 DEF NextCandidate
    <2> HIDE DEF k
    <2> QED
      BY <1>2, <2>1, <2>2
  <1> QED
    BY <1>1, <1>2

\* The reader is told that the tree changed.
LEMMA RaceGives ==
  /\ DOMAIN NotReading = LedgerFields /\ NotReading.at = "idle" /\ NotReading.content = <<>>
  /\ DOMAIN CaptureRace = LedgerFields /\ CaptureRace.at = "unavailable"
  BY DEF NotReading, CaptureRace, LedgerFields

ReaderStep ==
    \/ StartLedger \/ ListDecision \/ StatFile \/ FirstManifest \/ Revalidated
    \/ OpenCandidate \/ ReadCandidate \/ AfterTree \/ Project \/ LedgerFails

\* What the reader keeps of the moment m, when it goes on or gives up.
Goes(l, found) ==
    /\ DOMAIN l = LedgerFields /\ l.at \in Ended \cup Enumerating \cup {"open"} /\ l.at # "projected"
    /\ l.at \in Enumerating => Listing(l, found)
    /\ l.at = "initial" => l.content = <<>>

LEMMA Outcome ==
  ASSUME receipts' = receipts, trees' = trees, NEW l, ledger' = l, Goes(l, receipts),
         receipts \in trees,
         l.at \in {"revalidate"} \cup ReadingTree => \E m \in trees : ReadOf(l, m, receipts)
  PROVE  LedgerInv'
  BY DEF Goes, LedgerInv, LedgerShowsRecorded

LEMMA GivesUp ==
  ASSUME receipts' = receipts, trees' = trees, ledger' = CaptureRace
  PROVE  LedgerInv'
  BY RaceGives DEF LedgerInv, LedgerShowsRecorded, Ended, Enumerating, ReadingTree

LEMMA ReaderListing ==
  ASSUME AllAccepted(receipts), LedgerInv, receipts' = receipts, StartLedger \/ ListDecision \/ StatFile
  PROVE  LedgerInv'
  <1>1. CASE StartLedger
    <2>1. ledger' = Enumerate(NotReading, "initial") /\ trees' = {receipts}
      BY <1>1 DEF StartLedger
    <2>2. /\ DOMAIN ledger' = LedgerFields /\ ledger'.at = "initial" /\ ledger'.content = <<>>
          /\ ledger'.decisions = SetToSeq(Decisions) /\ ledger'.names = <<>> /\ ledger'.seen = <<>>
      BY <2>1, RaceGives, EnumerateGives
    <2>3. Listing(ledger', receipts)
      BY <2>2, ListingBegins
    <2> QED
      BY <2>1, <2>2, <2>3 DEF LedgerInv, LedgerShowsRecorded, Ended, Enumerating, ReadingTree
  <1>2. ASSUME ListDecision \/ StatFile PROVE LedgerInv'
    <2>1. trees' = trees /\ ledger.at \in Enumerating
      BY <1>2 DEF ListDecision, StatFile
    <2>2. DOMAIN ledger = LedgerFields /\ Listing(ledger, receipts) /\ receipts \in trees
      BY <2>1 DEF LedgerInv, Enumerating, Ended
    <2>3. /\ DOMAIN ledger' = LedgerFields /\ ledger'.at = ledger.at
          /\ ledger'.initial = ledger.initial /\ ledger'.candidates = ledger.candidates
          /\ ledger'.content = ledger.content /\ Listing(ledger', receipts)
          /\ \A m : Grown(m, receipts) /\ Covering(ledger, m) => Covering(ledger', m)
      BY <1>2, <2>2, DecisionListed, FileStatted
    <2>4. \A m : ReadOf(ledger, m, receipts) => ReadOf(ledger', m, receipts)
      BY <2>3 DEF ReadOf, Relisting, Holding
    <2>5. Goes(ledger', receipts)
      BY <2>1, <2>3 DEF Goes, Enumerating, LedgerInv
    <2>6. ledger'.at \in {"revalidate"} \cup ReadingTree => \E m \in trees : ReadOf(ledger', m, receipts)
      BY <2>3, <2>4 DEF LedgerInv
    <2> QED
      BY <2>1, <2>2, <2>3, <2>5, <2>6 DEF LedgerInv, Goes, LedgerShowsRecorded
  <1> QED
    BY <1>1, <1>2

LEMMA ReaderManifests ==
  ASSUME AllAccepted(receipts), LedgerInv, receipts' = receipts, FirstManifest \/ Revalidated
  PROVE  LedgerInv'
  <1>0. /\ trees' = trees /\ ledger.at \in {"initial", "revalidate"} /\ ledger.decisions = <<>>
        /\ ledger.names = <<>>
    BY DEF FirstManifest, Revalidated, Enumerated
  <1>1. DOMAIN ledger = LedgerFields /\ Listing(ledger, receipts) /\ receipts \in trees
    BY <1>0 DEF LedgerInv, Enumerating, Ended
  <1>2. CASE FirstManifest
    <2> DEFINE l == [ledger EXCEPT !.initial = ledger.seen,
                                   !.candidates = SetToSeq(ToRead(ledger.seen))]
               k == Enumerate(l, "revalidate")
    <2>1. ledger.at = "initial" /\ ledger' = k
      BY <1>2 DEF FirstManifest, Enumerated
    <2>2. /\ DOMAIN l = LedgerFields /\ l.initial = ledger.seen
          /\ l.candidates = SetToSeq(ToRead(ledger.seen)) /\ l.content = ledger.content
      BY <1>1 DEF LedgerFields
    <2> HIDE DEF l
    <2>3. /\ DOMAIN k = LedgerFields /\ k.at = "revalidate" /\ k.decisions = SetToSeq(Decisions)
          /\ k.names = <<>> /\ k.seen = <<>> /\ k.initial = ledger.seen
          /\ k.candidates = SetToSeq(ToRead(ledger.seen)) /\ k.content = ledger.content
      BY <2>2, EnumerateGives
    <2> HIDE DEF k
    <2>4. Grown(receipts, receipts)
      BY DEF Grown
    <2>5. Listing(k, receipts) /\ Covering(k, receipts)
      BY <2>3, <2>4, ListingBegins
    <2>6. ToRead(ledger.seen) \subseteq ReceiptName /\ IsFiniteSet(ToRead(ledger.seen))
      BY <1>1, CaseAssumption, FS_Subset DEF Listing, AllAccepted, ToRead
    <2>7. k.candidates \in Seq(ReceiptName) /\ Range(k.candidates) = ToRead(ledger.seen)
      BY <2>3, <2>6, SequenceOfSet
    <2>8. ledger.content = <<>>
      BY <2>1 DEF LedgerInv
    <2>9. Relisting(k, receipts)
      BY <1>1, <2>3, <2>5, <2>7, <2>8 DEF Relisting, Listing
    <2>10. ReadOf(k, receipts, receipts)
      BY <2>3, <2>4, <2>9 DEF ReadOf, ReadingTree
    <2>11. Goes(k, receipts)
      BY <2>3, <2>5 DEF Goes, Enumerating
    <2> QED
      BY <1>0, <1>1, <2>1, <2>10, <2>11, Outcome
  <1>3. CASE Revalidated /\ ~SameManifest
    BY <1>0, <1>3, GivesUp DEF Revalidated
  <1>4. CASE Revalidated /\ SameManifest
    <2> DEFINE k == NextCandidate(ledger)
    <2>1. ledger.at = "revalidate" /\ ledger' = k /\ ledger.seen = ledger.initial
      BY <1>4 DEF Revalidated, Enumerated, SameManifest
    <2>2. PICK m \in trees : ReadOf(ledger, m, receipts)
      BY <2>1 DEF LedgerInv
    <2>3. AllAccepted(m) /\ Grown(m, receipts) /\ Relisting(ledger, m)
      BY <2>1, <2>2 DEF ReadOf
    <2>4. ledger.initial = [n \in DOMAIN m |-> Stat(m[n])]
      BY <1>0, <1>1, <2>1, <2>3, ListedTwice
    <2>5. /\ DOMAIN k = LedgerFields /\ k.initial = ledger.initial /\ k.candidates = ledger.candidates
          /\ k.content = ledger.content
          /\ \/ k.at = "final" /\ ledger.candidates = <<>> /\ Listing(k, receipts)
             \/ k.at = "open" /\ ledger.candidates # <<>>
      BY <1>1, NextGives
    <2> HIDE DEF k
    <2>6. Holding(k, m)
      <3>1. DOMAIN ledger.content = {} /\ Range(ledger.candidates) = Readable(m)
        BY <2>3, <2>4 DEF Relisting, ToRead, Readable
      <3>2. k.content = [n \in DOMAIN k.content |-> k.content[n]]
        BY <2>3, <2>5 DEF Relisting
      <3> QED
        BY <2>3, <2>4, <2>5, <3>1, <3>2 DEF Holding, Relisting
    <2>7. ReadOf(k, m, receipts)
      BY <2>3, <2>5, <2>6 DEF ReadOf
    <2>8. Goes(k, receipts)
      BY <2>5 DEF Goes, Enumerating
    <2> QED
      BY <1>0, <1>1, <2>1, <2>7, <2>8, Outcome
  <1> QED
    BY <1>2, <1>3, <1>4

LEMMA ReaderReads ==
  ASSUME AllAccepted(receipts), LedgerInv, receipts' = receipts,
         OpenCandidate \/ ReadCandidate \/ AfterTree
  PROVE  LedgerInv'
  <1>0. trees' = trees /\ ledger.at \in {"open", "pre_read", "after_tree"}
    BY DEF OpenCandidate, ReadCandidate, AfterTree, Enumerated
  <1>1. DOMAIN ledger = LedgerFields /\ receipts \in trees
    BY <1>0 DEF LedgerInv, Ended
  <1>2. PICK m \in trees : ReadOf(ledger, m, receipts)
    BY <1>0 DEF LedgerInv, ReadingTree
  <1>3. AllAccepted(m) /\ Grown(m, receipts) /\ Holding(ledger, m)
    BY <1>0, <1>2 DEF ReadOf, ReadingTree
  <1>4. /\ ledger.candidates \in Seq(ReceiptName) /\ ledger.candidates # <<>>
        /\ ledger.initial = [n \in DOMAIN m |-> Stat(m[n])]
        /\ ledger.content = [n \in DOMAIN ledger.content |-> ledger.content[n]]
        /\ Readable(m) = DOMAIN ledger.content \cup Range(ledger.candidates)
        /\ \A n \in DOMAIN ledger.content : ledger.content[n] = m[n]
    BY <1>0, <1>3 DEF Holding
  <1>5. /\ Tail(ledger.candidates) \in Seq(ReceiptName) /\ Candidate \in DOMAIN m
        /\ Range(ledger.candidates) = {Candidate} \cup Range(Tail(ledger.candidates))
    BY <1>4, FirstAndRest DEF Candidate, Readable
  <1>6. CASE ledger' = CaptureRace
    BY <1>0, <1>6, GivesUp
  <1>7. CASE OpenCandidate /\ ledger' # CaptureRace
    <2> DEFINE k == Enumerate(ledger, "pre_read")
    <2>1. ledger' = k
      BY <1>7 DEF OpenCandidate
    <2>2. /\ DOMAIN k = LedgerFields /\ k.at = "pre_read" /\ k.decisions = SetToSeq(Decisions)
          /\ k.names = <<>> /\ k.seen = <<>> /\ k.initial = ledger.initial
          /\ k.candidates = ledger.candidates /\ k.content = ledger.content
      BY <1>1, EnumerateGives
    <2> HIDE DEF k
    <2>3. Listing(k, receipts)
      BY <2>2, ListingBegins
    <2>4. Holding(k, m)
      BY <1>4, <2>2 DEF Holding
    <2>5. ReadOf(k, m, receipts) /\ Goes(k, receipts)
      BY <1>3, <2>2, <2>3, <2>4 DEF ReadOf, Goes, Enumerating
    <2> QED
      BY <1>0, <1>1, <2>1, <2>5, Outcome
  <1>8. CASE ReadCandidate /\ ledger' # CaptureRace
    <2> DEFINE content == With(ledger.content, Candidate, receipts[Candidate])
               l == [ledger EXCEPT !.content = content]
               k == Enumerate(l, "after_tree")
    <2>1. ledger' = k /\ Stat(receipts[Candidate]) = ledger.initial[Candidate]
      BY <1>8 DEF ReadCandidate
    <2>2. /\ DOMAIN l = LedgerFields /\ l.initial = ledger.initial
          /\ l.candidates = ledger.candidates /\ l.content = content
      <3> HIDE DEF content
      <3> QED
        BY <1>1 DEF LedgerFields
    <2> HIDE DEF l
    <2>3. /\ DOMAIN k = LedgerFields /\ k.at = "after_tree" /\ k.decisions = SetToSeq(Decisions)
          /\ k.names = <<>> /\ k.seen = <<>> /\ k.initial = ledger.initial
          /\ k.candidates = ledger.candidates /\ k.content = content
      BY <2>2, EnumerateGives
    <2> HIDE DEF k
    <2>4. Listing(k, receipts)
      BY <2>3, ListingBegins
    <2>5. receipts[Candidate] = m[Candidate]
      BY <1>3, <1>4, <1>5, <2>1, SameStat
    <2>6. /\ DOMAIN content = DOMAIN ledger.content \cup {Candidate}
          /\ \A n \in DOMAIN content : content[n] = m[n]
          /\ content = [n \in DOMAIN content |-> content[n]]
      BY <1>4, <2>5 DEF With
    <2> HIDE DEF content
    <2>7. Holding(k, m)
      BY <1>4, <1>5, <2>3, <2>6 DEF Holding, Candidate
    <2>8. ReadOf(k, m, receipts) /\ Goes(k, receipts)
      BY <1>3, <2>3, <2>4, <2>7 DEF ReadOf, Goes, Enumerating
    <2> QED
      BY <1>0, <1>1, <2>1, <2>8, Outcome
  <1>9. CASE AfterTree /\ ledger' # CaptureRace
    <2> DEFINE left == Tail(ledger.candidates)
               l == [ledger EXCEPT !.candidates = left]
               k == NextCandidate(l)
    <2>1. ledger' = k /\ ledger.at = "after_tree"
      BY <1>9 DEF AfterTree, Enumerated
    <2>2. /\ DOMAIN l = LedgerFields /\ l.initial = ledger.initial
          /\ l.candidates = left /\ l.content = ledger.content
      BY <1>1 DEF LedgerFields
    <2> HIDE DEF l
    <2>3. /\ DOMAIN k = LedgerFields /\ k.initial = ledger.initial /\ k.candidates = left
          /\ k.content = ledger.content
          /\ \/ k.at = "final" /\ left = <<>> /\ Listing(k, receipts)
             \/ k.at = "open" /\ left # <<>>
      BY <2>2, NextGives
    <2> HIDE DEF k
    <2>4. Candidate \in DOMAIN ledger.content
      BY <1>3, <2>1 DEF Holding, Candidate
    <2>5. Readable(m) = DOMAIN ledger.content \cup Range(left)
      BY <1>4, <1>5, <2>4
    <2>6. Holding(k, m)
      BY <1>4, <1>5, <2>3, <2>5 DEF Holding
    <2>7. ReadOf(k, m, receipts) /\ Goes(k, receipts)
      BY <1>3, <2>3, <2>6 DEF ReadOf, Goes, Enumerating
    <2> QED
      BY <1>0, <1>1, <2>1, <2>7, Outcome
  <1> QED
    BY <1>6, <1>7, <1>8, <1>9

\* What is projected is what there was when the first listing ended.
LEMMA ReaderProjects ==
  ASSUME AllAccepted(receipts), LedgerInv, receipts' = receipts, Project
  PROVE  LedgerInv'
  <1>0. trees' = trees /\ ledger.at = "final"
    BY DEF Project, Enumerated
  <1>1. PICK m \in trees : ReadOf(ledger, m, receipts)
    BY <1>0 DEF LedgerInv, ReadingTree
  <1>2. AllAccepted(m) /\ Holding(ledger, m)
    BY <1>0, <1>1 DEF ReadOf, ReadingTree
  <1>3. DOMAIN ledger.content = Readable(m) /\ \A n \in DOMAIN ledger.content : ledger.content[n] = m[n]
    <2>1. Range(ledger.candidates) = {}
      BY <1>0, <1>2 DEF Holding, Range
    <2> QED
      BY <1>2, <2>1 DEF Holding
  <1>4. CASE ledger' = CaptureRace
    BY <1>0, <1>4, GivesUp
  <1>5. CASE ledger' = [NotReading EXCEPT !.at = "projected", !.shown = Shown(ledger.content)]
    <2> DEFINE shown == Shown(ledger.content)
    <2>1. ledger' = [NotReading EXCEPT !.at = "projected", !.shown = shown]
      BY <1>5
    <2>2. shown = {n \in DOMAIN m : m[n] # Partial /\ ~Refused(m, n)}
      BY <1>2, <1>3, ShownIs
    <2> HIDE DEF shown
    <2>3. /\ DOMAIN ledger' = LedgerFields /\ ledger'.at = "projected" /\ ledger'.shown = shown
      BY <2>1, RaceGives DEF LedgerFields
    <2>4. LedgerShowsRecorded'
      BY <1>0, <2>2, <2>3 DEF LedgerShowsRecorded, Refused
    <2> QED
      BY <2>3, <2>4 DEF LedgerInv, Ended, Enumerating, ReadingTree
  <1> QED
    BY <1>4, <1>5 DEF Project

\* While the recorders go on, what was listed stays listed.
LEMMA RecordersGoOn ==
  ASSUME LedgerInv, Grown(receipts, receipts'), ledger' = ledger,
         trees' = IF ledger.at \in {"idle", "projected", "unavailable"} THEN trees
                  ELSE trees \cup {receipts'}
  PROVE  LedgerInv'
  <1> DEFINE new == receipts'
  <1>1. ledger.at \in Enumerating => Listing(ledger, new)
    BY DEF LedgerInv, Listing, Grown
  <1>2. \A m : ReadOf(ledger, m, receipts) => ReadOf(ledger, m, new)
    BY GrownTwice DEF ReadOf
  <1>3. trees \subseteq trees' /\ (ledger.at \notin Ended => new \in trees')
    BY DEF Ended
  <1>4. ledger.at \in {"revalidate"} \cup ReadingTree => \E m \in trees' : ReadOf(ledger, m, new)
    BY <1>2, <1>3 DEF LedgerInv
  <1>5. LedgerShowsRecorded'
    BY DEF LedgerInv, LedgerShowsRecorded, Refused
  <1> HIDE DEF new
  <1> QED
    BY <1>1, <1>3, <1>4, <1>5 DEF LedgerInv, new

LEMMA LedgerStays ==
  ASSUME CaseInv, ReceiptInv, LedgerInv, [LedgerNext]_<<auditVars, ledgerVars>>
  PROVE  CaseInv' /\ ReceiptInv' /\ LedgerInv'
  <1>0. AllAccepted(receipts)
    BY DEF ReceiptInv
  <1>1. CASE ReaderStep /\ UNCHANGED auditVars
    <2>1. receipts' = receipts
      BY <1>1 DEF auditVars
    <2>2. LedgerInv'
      BY <1>0, <1>1, <2>1, ReaderListing, ReaderManifests, ReaderReads, ReaderProjects, GivesUp
         DEF ReaderStep, LedgerFails
    <2> QED
      BY <1>1, <2>2, CaseStays, ReceiptsStay
  <1>2. CASE AuditNext /\ ledger' = ledger
             /\ trees' = IF ledger.at \in {"idle", "projected", "unavailable"} THEN trees
                         ELSE trees \cup {receipts'}
    <2>1. CaseInv' /\ ReceiptInv' /\ Grown(receipts, receipts')
      BY <1>2, CaseStays, ReceiptsStay
    <2> QED
      BY <1>2, <2>1, RecordersGoOn
  <1>3. CASE UNCHANGED <<auditVars, ledgerVars>>
    <2>1. UNCHANGED auditVars /\ receipts' = receipts /\ ledger' = ledger /\ trees' = trees
      BY <1>3 DEF auditVars, ledgerVars
    <2>2. LedgerInv'
      BY <2>1 DEF LedgerInv, LedgerShowsRecorded, Refused
    <2> QED
      BY <2>1, <2>2, CaseStays, ReceiptsStay
  <1> QED
    BY <1>1, <1>2, <1>3 DEF LedgerNext, ReaderStep

\* The documents, the receipts and the reader stay as the steps leave them.
THEOREM LedgerInvariant == LedgerSpec => [](CaseInv /\ ReceiptInv /\ LedgerInv)
  <1>1. LedgerInit => CaseInv /\ ReceiptInv /\ LedgerInv
    <2> SUFFICES ASSUME LedgerInit PROVE CaseInv /\ ReceiptInv /\ LedgerInv
      OBVIOUS
    <2>1. CaseInv /\ ReceiptInv /\ ledger = NotReading
      BY CaseBegins, ReceiptsBegin DEF LedgerInit
    <2> QED
      BY <2>1, RaceGives DEF LedgerInv, LedgerShowsRecorded, Ended, Enumerating, ReadingTree
  <1>2. (CaseInv /\ ReceiptInv /\ LedgerInv) /\ [LedgerNext]_<<auditVars, ledgerVars>>
          => (CaseInv /\ ReceiptInv /\ LedgerInv)'
    BY LedgerStays
  <1> QED
    BY <1>1, <1>2, PTL DEF LedgerSpec

\* A projection of the Review Ledger is of one moment of the tree since the
\* reader began, however the recorders create and write receipts meanwhile.
THEOREM LedgerIsOfOneMoment == LedgerSpec => []LedgerShowsRecorded
  <1>1. LedgerInv => LedgerShowsRecorded
    BY DEF LedgerInv
  <1> QED
    BY <1>1, LedgerInvariant, PTL

-----------------------------------------------------------------------------
(* Types.                                                                     *)

\* What counts the edits and the deaths, and who has an output.
Counted ==
    /\ touches \in 0..scenario.touches /\ auditCrashes \in 0..scenario.crashes
    /\ output # <<>> => writers # {}

LEMMA CountedStays ==
  ASSUME CaseInv, BundleInv, Counted, [AuditNext]_auditVars
  PROVE  Counted'
  <1>0. scenario.touches \in Nat /\ scenario.crashes \in Nat
    <2>1. WellFormed(scenario)
      BY AuditAssumption DEF CaseInv, scenario, Planned
    <2> QED
      BY <2>1 DEF WellFormed
  <1>1. ASSUME NEW p \in Clerk, ScriptStep(p) PROVE Counted'
    <2>1. scenario' = scenario
      BY <1>1, AskedKept DEF scenario, Planned
    <2>2. touches' = touches
      BY <1>1 DEF ScriptStep, ReadNext, CrashClerk, AskEnsure, PrepareCase, CreateDocument, WriteDocument,
         CheckCase, AnswerEnsure, AskRecord, TakeRoot, CheckReceipt, CheckReviewed, ConfirmRoot,
         CreateReceipt, WriteReceipt, AnswerRecord, AskExport, LoadReady, PrepareOutput, CopyNext,
         CheckBundle, WriteSummary, WriteManifest, AskRender, RenderReads, AskCapture, CaptureAgain,
         AnswerCapture, theCase
    <2>3. \/ auditCrashes' = auditCrashes
          \/ auditCrashes < scenario.crashes /\ auditCrashes' = auditCrashes + 1
      BY <1>1 DEF ScriptStep, ReadNext, CrashClerk, AskEnsure, PrepareCase, CreateDocument, WriteDocument,
         CheckCase, AnswerEnsure, AskRecord, TakeRoot, CheckReceipt, CheckReviewed, ConfirmRoot,
         CreateReceipt, WriteReceipt, AnswerRecord, AskExport, LoadReady, PrepareOutput, CopyNext,
         CheckBundle, WriteSummary, WriteManifest, AskRender, RenderReads, AskCapture, CaptureAgain,
         AnswerCapture, theRest
    <2>4. output' # <<>> => writers' # {}
      BY <1>1, OutputMoves DEF Counted, Prepares, Adds
    <2> QED
      BY <1>0, <2>1, <2>2, <2>3, <2>4 DEF Counted
  <1>2. ASSUME NEW e \in AuditEdits, EditCase(e) PROVE Counted'
    <2>1. /\ touches < scenario.touches /\ touches' = touches + 1 /\ auditCrashes' = auditCrashes
          /\ scenario' = scenario /\ output' = output /\ writers' = writers
      BY <1>2 DEF EditCase, theRest, scenario, Planned
    <2> QED
      BY <1>0, <2>1 DEF Counted
  <1>3. UNCHANGED auditVars => Counted'
    BY DEF auditVars, Counted, scenario, Planned
  <1> QED
    BY <1>1, <1>2, <1>3 DEF AuditNext

\* The documents, the artifacts, the receipts, the outputs and the scripts have
\* their types, and an output that is not empty has a script that found it empty.
THEOREM AuditTyped == AuditSpec => []AuditTypeOK
  <1> DEFINE Inv == CaseInv /\ BundleInv /\ (\A p \in Clerk : Timed(p)) /\ ReceiptInv /\ Counted
  <1>1. AuditInit => Inv
    <2> SUFFICES ASSUME AuditInit PROVE Counted
      BY CaseBegins, BundleBegins, TimesBegin, ReceiptsBegin
    <2>1. WellFormed(scenario) /\ touches = 0 /\ auditCrashes = 0 /\ output = <<>>
      BY AuditAssumption DEF AuditInit, scenario, Planned
    <2> QED
      BY <2>1 DEF Counted, WellFormed
  <1>2. Inv /\ [AuditNext]_auditVars => Inv'
    BY CaseStays, BundleStays, TimesStay, ReceiptsStay, CountedStays
  <1>3. Inv => AuditTypeOK
    <2> SUFFICES ASSUME Inv PROVE AuditTypeOK
      OBVIOUS
    <2>1. \A f \in CaseFiles : documents[f] \notin {Absent, Partial} => documents[f].case # Absent
      BY DocumentTyped, CaseAssumption DEF CaseInv, CaseTyped, OnDisk
    <2>2. DOMAIN evidence = Artifact /\ DOMAIN receipts \subseteq ReceiptName
      BY DEF CaseInv, CaseTyped, Evidence, ReceiptInv, AllAccepted
    <2>3. DOMAIN output \subseteq CaseFiles \cup Artifact \cup {"summary", "manifest"} /\ writers \subseteq Clerk
      BY DEF BundleInv, OutputTyped, Outputs
    <2>4. \A p \in Clerk : clerk[p].since \in 0..Len(log)
      BY DEF Timed, ReadsAre
    <2> QED
      BY <2>1, <2>2, <2>3, <2>4 DEF AuditTypeOK, Counted
  <1> QED
    <2> HIDE DEF Inv
    <2> QED
      BY <1>1, <1>2, <1>3, PTL DEF AuditSpec
=============================================================================
