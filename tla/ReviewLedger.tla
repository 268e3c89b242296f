----------------------------- MODULE ReviewLedger -----------------------------
(***************************************************************************)
(* readReviewLedger over the reviews/ tree of an audit case while receipts   *)
(* are recorded.  It lists the tree (the decisions, then the names of each,   *)
(* then the stat of each file), reads the files one by one, and lists the     *)
(* tree again before and after every file: any difference is a capture race.  *)
(*                                                                          *)
(* The stat of a file tells here whether it has been written and whether it  *)
(* is too large (its size does); that of a directory is left out: it could    *)
(* only find more races.                                                      *)
(***************************************************************************)
EXTENDS AuditCase

VARIABLES
    ledger,   \* where the reader is, and what it has read
    trees     \* history: the receipts there were since it began

ledgerVars == <<ledger, trees>>

Stat(receipt) ==
    CASE receipt = Partial -> "empty"
      [] receipt # Partial /\ "size" \in receipt.flaws -> "large"
      [] OTHER -> "written"
Decisions == {n[1] : n \in DOMAIN receipts}
NamesOf(d) == {n \in DOMAIN receipts : n[1] = d}

NotReading == [at |-> "idle", decisions |-> <<>>, names |-> <<>>, seen |-> <<>>,
         initial |-> <<>>, candidates |-> <<>>, content |-> <<>>, shown |-> {}]

\* enumerateManifest begins; `purpose` is what its result is compared for.
Enumerate(l, purpose) ==
    [l EXCEPT !.at = purpose, !.decisions = SetToSeq(Decisions), !.names = <<>>, !.seen = <<>>]
Enumerating == {"initial", "revalidate", "pre_read", "after_tree", "final"}
Enumerated(purpose) ==
    ledger.at = purpose /\ ledger.decisions = <<>> /\ ledger.names = <<>>

\* Mutant: a listing is not compared with the first one.
AnyManifest == TRUE

SameManifest == ledger.seen = ledger.initial
CaptureRace == [NotReading EXCEPT !.at = "unavailable"]
Candidate == Head(ledger.candidates)

StartLedger ==
    /\ scenario.ledger /\ ledger.at = "idle"
    /\ ledger' = Enumerate(NotReading, "initial")
    /\ trees' = {receipts}

ListDecision ==
    /\ ledger.at \in Enumerating /\ ledger.names = <<>> /\ ledger.decisions # <<>>
    /\ ledger' = [ledger EXCEPT !.names = SetToSeq(NamesOf(Head(ledger.decisions))),
                                !.decisions = Tail(@)]
    /\ UNCHANGED trees

StatFile ==
    /\ ledger.at \in Enumerating /\ ledger.names # <<>>
    /\ LET n == Head(ledger.names)
       IN  ledger' = [ledger EXCEPT !.names = Tail(@), !.seen = With(@, n, Stat(receipts[n]))]
    /\ UNCHANGED trees

\* A file that is too large is listed, and never opened.
ToRead(seen) == {n \in DOMAIN seen : seen[n] # "large"}
FirstManifest ==
    /\ Enumerated("initial")
    /\ ledger' = Enumerate([ledger EXCEPT !.initial = ledger.seen,
                                          !.candidates = SetToSeq(ToRead(ledger.seen))],
                           "revalidate")
    /\ UNCHANGED trees

\* The next candidate is opened, or the tree is listed for the last time.
NextCandidate(l) == IF l.candidates = <<>> THEN Enumerate(l, "final") ELSE [l EXCEPT !.at = "open"]

Revalidated ==
    /\ Enumerated("revalidate")
    /\ ledger' = IF SameManifest THEN NextCandidate(ledger) ELSE CaptureRace
    /\ UNCHANGED trees

OpenCandidate ==
    /\ ledger.at = "open"
    /\ ledger' = IF Stat(receipts[Candidate]) = ledger.initial[Candidate]
                 THEN Enumerate(ledger, "pre_read") ELSE CaptureRace
    /\ UNCHANGED trees

ReadCandidate ==
    /\ Enumerated("pre_read")
    /\ ledger' = IF SameManifest /\ Stat(receipts[Candidate]) = ledger.initial[Candidate]
                 THEN Enumerate([ledger EXCEPT !.content = With(@, Candidate, receipts[Candidate])],
                                "after_tree")
                 ELSE CaptureRace
    /\ UNCHANGED trees

AfterTree ==
    /\ Enumerated("after_tree")
    /\ ledger' = IF SameManifest
                 THEN NextCandidate([ledger EXCEPT !.candidates = Tail(@)]) ELSE CaptureRace
    /\ UNCHANGED trees

Project ==
    /\ Enumerated("final")
    /\ ledger' = IF SameManifest
                 THEN [NotReading EXCEPT !.at = "projected", !.shown = Shown(ledger.content)]
                 ELSE CaptureRace
    /\ UNCHANGED trees

\* A limit is passed (of time, of memory, of what is found in all), or something
\* in the tree is not what may lie there: there is no projection at all.
LedgerFails ==
    /\ ledger.at \in Enumerating \cup {"open"}
    /\ ledger' = CaptureRace
    /\ UNCHANGED trees

LedgerNext ==
    \/ /\ StartLedger \/ ListDecision \/ StatFile \/ FirstManifest \/ Revalidated
          \/ OpenCandidate \/ ReadCandidate \/ AfterTree \/ Project \/ LedgerFails
       /\ UNCHANGED auditVars
    \/ /\ AuditNext
       /\ trees' = IF ledger.at \in {"idle", "projected", "unavailable"} THEN trees
                   ELSE trees \cup {receipts'}
       /\ UNCHANGED ledger

LedgerInit == AuditInit /\ ledger = NotReading /\ trees = {}
LedgerSpec == LedgerInit /\ [][LedgerNext]_<<auditVars, ledgerVars>>

-----------------------------------------------------------------------------
\* What the recorder accepts and the ledger leaves out: a review of a domain by
\* a person, a receipt with one of the flaws above, and what reconciles one.
Refused(m, n) ==
    LET Bad(k) == m[k].flaws # {} \/ (m[k].type = "domain-review" /\ m[k].by = "human")
    IN  Bad(n) \/ \E o \in m[n].reviewed : Bad(o)

\* A projection is of one moment of the tree since the reader began: it shows
\* the receipts that were complete then, and all of them but those above,
\* however the recorders create and write their receipts meanwhile.
LedgerShowsRecorded ==
    ledger.at = "projected" =>
        \E m \in trees :
            ledger.shown = {n \in DOMAIN m : m[n] # Partial /\ ~Refused(m, n)}
=============================================================================
