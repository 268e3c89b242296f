------------------------------ MODULE AuditRules ------------------------------
(***************************************************************************)
(* The five documents of an audit case, the artifacts its index cites, and  *)
(* the review receipts beside them: what the scripts require of the case    *)
(* before they use it, and what the recorder and the Review Ledger require  *)
(* of a receipt.                                                            *)
(*                                                                          *)
(* A document keeps its case, the artifacts it refers to, and whether it     *)
(* gives a reason not to be ready; the review also keeps the status it asks  *)
(* for.  A SHA-256 digest is the value it covers.                            *)
(***************************************************************************)
EXTENDS Naturals, SequencesExt

CONSTANTS
    CaseId,
    Artifact,      \* paths of artifacts in the case
    Content,       \* what may lie there
    ReceiptName,   \* <<decision, receipt id>>
    Absent,        \* no file, no value
    Partial        \* a file created and not written yet

REQUIRED_FILES == <<"scope", "inventory", "actions", "index", "review">>
CaseFiles == {REQUIRED_FILES[i] : i \in DOMAIN REQUIRED_FILES}

Document(f) ==
    CASE f = "index" ->
            [case : CaseId, artifacts : UNION {[A -> Content] : A \in SUBSET Artifact}]
      [] f = "review" ->
            [case : CaseId, refs : SUBSET Artifact, ready : BOOLEAN, requested : BOOLEAN]
      [] OTHER -> [case : CaseId, refs : SUBSET Artifact, ready : BOOLEAN]

\* The documents of a case, whole or not, and the artifacts.
OnDisk(f) == Document(f) \cup {Absent, Partial}
Documents == [CaseFiles -> UNION {OnDisk(f) : f \in CaseFiles}]
Evidence == [Artifact -> Content \cup {Absent}]
CaseMoment == [documents : Documents, evidence : Evidence]

\* What lies at a path at some moment.
Lying(moment, x) == IF x \in Artifact THEN moment.evidence[x] ELSE moment.documents[x]

\* f with v for x.
With(f, x, v) == [y \in DOMAIN f \cup {x} |-> IF y = x THEN v ELSE f[y]]

\* The drafts an initialisation writes.
DraftOf(f, c) ==
    CASE f = "index" -> [case |-> c, artifacts |-> <<>>]
      [] f = "review" -> [case |-> c, refs |-> {}, ready |-> FALSE, requested |-> FALSE]
      [] OTHER -> [case |-> c, refs |-> {}, ready |-> FALSE]

Parses(D) == \A f \in CaseFiles : D[f] \notin {Absent, Partial}
SameCase(D) == \A f \in CaseFiles : D[f].case = D["scope"].case
Indexed(D) == DOMAIN D["index"].artifacts

InternallyReady(D) ==
    /\ \A f \in CaseFiles \ {"index"} : D[f].ready
    /\ D["scope"].refs # {} /\ Indexed(D) # {}

\* `seen`: what is found where the index says an artifact is.
ValidCase(D, seen) ==
    /\ Parses(D) /\ SameCase(D)
    /\ \A f \in CaseFiles \ {"index"} : D[f].refs \subseteq Indexed(D)
    /\ Indexed(D) \subseteq D["scope"].refs
    /\ \A a \in Indexed(D) : seen[a] = D["index"].artifacts[a]
    /\ D["review"].requested => InternallyReady(D)

ReadyForHumanReview(D, seen) == ValidCase(D, seen) /\ D["review"].requested

-----------------------------------------------------------------------------
(* Receipts.  `flaws`: what the ledger looks at and the recorder does not.     *)
(*   twice       a finding or a reviewed receipt is named twice;              *)
(*   reference   an evidence reference has the form of a URI (src/a.mjs:42);  *)
(*   name        the decision or the receipt is named by what is no string;   *)
(*   context     the id of the case has capitals;                             *)
(*   text        a string with half a surrogate pair, or one that has the     *)
(*               form of a credential only in the order the file is printed;  *)
(*   size        what is printed is longer than the ledger reads.             *)

Flaw == {"twice", "reference", "name", "context", "text", "size"}
ReviewReceipt ==
    [type : {"domain-review", "challenge", "reconciliation"}, by : {"agent", "human"},
     input : Documents \cup {Absent}, resulting : Documents \cup {Absent},
     reviewed : SUBSET ReceiptName, flaws : SUBSET Flaw]

ASSUME CaseAssumption ==
    /\ IsFiniteSet(Artifact) /\ IsFiniteSet(ReceiptName)
    /\ Artifact \cap (CaseFiles \cup {"summary", "manifest"}) = {}
    /\ Absent # Partial
    /\ Absent \notin CaseId /\ Absent \notin Content /\ Absent \notin Documents
    /\ \A f \in CaseFiles : Absent \notin Document(f) /\ Partial \notin Document(f)
    /\ Absent \notin ReviewReceipt /\ Partial \notin ReviewReceipt

Original(r) == r.type # "reconciliation"

\* validateReceiptShape, for the root of the documents as they are.
RecorderAccepts(r, root) ==
    /\ r.type = "challenge" => r.by = "agent"
    /\ IF Original(r) THEN r.input = root /\ r.resulting = Absent /\ r.reviewed = {}
       ELSE r.resulting = root /\ r.reviewed # {}

\* validateReviewedReceipts, for one of them.
Reconcilable(r, prior) ==
    /\ prior \notin {Absent, Partial}
    /\ Original(prior) /\ "name" \notin prior.flaws
    /\ prior.input = r.input

\* What the recorder has made sure of when it writes r in a directory of
\* receipts, and a directory in which it has made every receipt.
RootOf(r) == IF Original(r) THEN r.input ELSE r.resulting
Accepted(r, found) ==
    /\ r \in ReviewReceipt /\ RootOf(r) # Absent /\ RecorderAccepts(r, RootOf(r))
    /\ \A o \in r.reviewed : o \in DOMAIN found /\ Reconcilable(r, found[o])
AllAccepted(found) ==
    /\ DOMAIN found \subseteq ReceiptName /\ found = [n \in DOMAIN found |-> found[n]]
    /\ \A n \in DOMAIN found : found[n] = Partial \/ Accepted(found[n], found)

\* parseReviewReceiptBytes and validateReceiptDocument.  Too large a receipt is
\* never read.
LedgerAccepts(r) ==
    /\ Original(r) => r.by = "agent" /\ r.resulting = Absent /\ r.reviewed = {}
    /\ ~Original(r) => r.resulting # Absent /\ r.reviewed # {}
    /\ r.flaws \subseteq {"size"}

\* The receipts a ledger shows of what it has read.
Shown(content) ==
    LET retained == {n \in DOMAIN content : content[n] # Partial /\ LedgerAccepts(content[n])}
    IN  {n \in retained :
            \A o \in content[n].reviewed :
                /\ o \in retained
                /\ Reconcilable(content[n], content[o])}
=============================================================================
