--------------------------- MODULE WorkbenchLaunch ---------------------------
(***************************************************************************)
(* The launcher (launcher.mjs, dubsar-workbench-open.mjs): it reads the     *)
(* projects, publishes the report as a file that every launch shares,       *)
(* starts a session for the same report, opens the browser on it, and waits *)
(* for the session to close.  The kind of the session follows from how the  *)
(* launch was asked for.  The command line's `ui` serves its report without *)
(* publishing it, and no launch uses the page for one consumer, which the   *)
(* server package offers.                                                   *)
(***************************************************************************)
EXTENDS DashboardPage

CONSTANTS
    Launches       \* the ways of asking that are of interest: see Request

VARIABLES
    asked,         \* how this session was asked for
    launch,        \* how far the launch is
    result,        \* what it answered
    target,        \* DUBSAR-Workbench.html: whose report it is
    staged         \* the temporary file of this launch

launchVars == <<asked, launch, result, target, staged>>
vars == <<sessionVars, pageVars, launchVars>>

\* The command line names one project ("direct"), or the registry is used
\* ("catalog"); "ui" is the operator's command, "once" the package's page for
\* one consumer, and "several" its live page of several projects.
Request == [from : {"direct", "catalog", "ui", "once", "several"},
            transport : {"file", "loopback"}, memory : BOOLEAN, check : BOOLEAN]
ASSUME LaunchesAssumption == Launches \subseteq Request

Refused(r) == r.from = "catalog" /\ r.memory

\* Why there is nothing to show: no browser, a project that cannot be read, or
\* an empty registry (ProjectRegistry) and no folder picked.  A check of one
\* project looks only for the browser and the workspace.
CatalogFailures ==
    {"CATALOG_GENERATION_FAILED", "CATALOG_REPORT_TOO_LARGE", "TICKETS_UNREADABLE"}
Failures(r) ==
    CASE Refused(r) -> {"CATALOG_MEMORY_UNSUPPORTED"}
      [] r.from = "catalog" /\ ~r.memory ->
           {"CHROME_NOT_FOUND"} \cup CatalogFailures \cup
             IF r.check THEN {"PROJECT_REGISTRY_EMPTY"}
             ELSE {"PROJECT_SELECTION_CANCELLED", "FOLDER_PICKER_FAILED", "FOLDER_PICKER_TIMEOUT"}
      [] r.from = "direct" ->
           {"CHROME_NOT_FOUND"} \cup IF r.check THEN {} ELSE {"REPORT_GENERATION_FAILED"}
      [] OTHER -> {"REPORT_GENERATION_FAILED"}

LaunchTypeOK ==
    /\ asked \in Launches
    /\ launch \in {"generating", "staging", "staged", "renamed", "published", "starting",
                   "opening", "serving", "ended"}
    /\ result \in {NULL, "ready", "opened", "REPORT_PUBLICATION_FAILED",
                   "REPORT_STAGING_MISMATCH", "REPORT_TARGET_UNSAFE",
                   "REPORT_PUBLICATION_MISMATCH", "CHROME_LAUNCH_FAILED",
                   "CHROME_DELIVERY_FAILED"} \cup CatalogFailures \cup Failures(asked)
    /\ target \in {NULL, "mine", "another"} /\ staged \in BOOLEAN

\* serveTicketReport for a registry or a personal memory, serveReportLive for a
\* project.
KindOf(r) ==
    CASE r.from = "ui" -> "static"
      [] r.from = "once" -> "oneShot"
      [] r.from = "several" -> "live"
      [] OTHER -> IF r.from = "catalog" \/ r.memory THEN "ticket" ELSE "live"

Init ==
    /\ asked \in Launches
    /\ kind = KindOf(asked)
    /\ listed = IF asked.from = "direct" THEN {CHOOSE p \in Project : TRUE} ELSE Project
    /\ version = [p \in Project |-> 0] /\ rendered = version
    /\ InitSession /\ InitPage
    /\ launch = "generating" /\ result = NULL
    /\ target = NULL /\ staged = FALSE

-----------------------------------------------------------------------------
Fails(code) == launch' = "ended" /\ result' = code

\* Each project is read, and the report rendered.
Generate ==
    /\ launch = "generating"
    /\ \/ /\ ~Refused(asked)
          /\ rendered' = version
          /\ IF asked.check THEN Fails("ready")
             ELSE /\ launch' = IF asked.from \in {"direct", "catalog"} THEN "staging"
                                                                       ELSE "starting"
                  /\ UNCHANGED result
       \/ (\E code \in Failures(asked) : Fails(code)) /\ UNCHANGED rendered
    /\ UNCHANGED <<sessionVars, visits, deliveries, page, asked, target, staged>>

\* publishReport: the temporary file is written and read back.
Stage ==
    /\ launch = "staging"
    /\ staged' = TRUE /\ launch' = "staged"
    /\ UNCHANGED <<sessionVars, pageVars, asked, result, target>>

RenameReport ==
    /\ launch = "staged"
    /\ target' = "mine" /\ staged' = FALSE /\ launch' = "renamed"
    /\ UNCHANGED <<sessionVars, pageVars, asked, result>>

\* A file operation fails, the temporary file is not what was written, or what
\* is to be replaced is no plain file; the finally block removes the temporary
\* file.
PublicationFails ==
    /\ \/ launch \in {"staging", "staged", "renamed"} /\ Fails("REPORT_PUBLICATION_FAILED")
       \/ launch = "staging" /\ Fails("REPORT_STAGING_MISMATCH")
       \/ launch = "staged" /\ Fails("REPORT_TARGET_UNSAFE")
    /\ staged' = FALSE
    /\ UNCHANGED <<sessionVars, pageVars, asked, target>>

\* The published file is read back as well: it may be another launch's by now.
ConfirmPublication ==
    /\ launch = "renamed"
    /\ IF target = "mine" THEN launch' = "published" /\ UNCHANGED result
                          ELSE Fails("REPORT_PUBLICATION_MISMATCH")
    /\ UNCHANGED <<sessionVars, pageVars, asked, target, staged>>

OtherPublishes ==
    /\ launch \in {"staging", "staged", "renamed"} /\ target # "another"
    /\ target' = "another"
    /\ UNCHANGED <<sessionVars, pageVars, asked, launch, result, staged>>

\* A file is opened from the disk, and that is all.
OpenFile ==
    /\ launch = "published" /\ asked.transport = "file"
    /\ \E code \in {"opened", "CHROME_LAUNCH_FAILED"} : Fails(code)
    /\ UNCHANGED <<sessionVars, pageVars, asked, target, staged>>

\* The live report of several projects is rendered once more, with their tickets
\* read again: a failure leaves the file published and nothing opened.
CatalogFails ==
    /\ launch = "published" /\ asked.from = "catalog" /\ asked.transport = "loopback"
    /\ \E code \in CatalogFailures : Fails(code)
    /\ UNCHANGED <<sessionVars, pageVars, asked, target, staged>>

StartServer ==
    /\ \/ launch = "published" /\ asked.transport = "loopback"
       \/ launch = "starting"
    /\ Listen
    /\ launch' = IF status' = "ready" THEN "opening" ELSE "ended"
    /\ result' = IF status' = "ready" THEN result ELSE "CHROME_DELIVERY_FAILED"
    /\ UNCHANGED <<pageVars, asked, target, staged>>

\* Chrome starts, or the session is closed again.
OpenChrome ==
    /\ launch = "opening"
    /\ \/ /\ launch' = "serving"
          /\ UNCHANGED <<sessionVars, result>>
       \/ Fails("CHROME_LAUNCH_FAILED") /\ CloseSession("launcher-finalize")
    /\ UNCHANGED <<pageVars, asked, target, staged>>

\* serveReportOnce wants its page delivered; the others only wait for the end.
SessionOver ==
    /\ launch = "serving" /\ status = "closed"
    /\ Fails(IF kind = "oneShot" /\ reason # "served-once" THEN "CHROME_DELIVERY_FAILED"
             ELSE "opened")
    /\ UNCHANGED <<sessionVars, pageVars, asked, target, staged>>

\* `ui` runs until it is interrupted or its session ends.
Interrupt ==
    /\ asked.from = "ui" /\ launch = "serving" /\ status = "ready"
    /\ CloseSession("sigint")
    /\ UNCHANGED <<pageVars, launchVars>>

LaunchStep ==
    \/ Generate \/ Stage \/ RenameReport \/ PublicationFails \/ ConfirmPublication
    \/ OtherPublishes \/ OpenFile \/ CatalogFails \/ StartServer \/ OpenChrome \/ SessionOver \/ Interrupt

\* Requests are handled, responses finish, readings and handlers return, timers
\* fire, and the browser takes its answers and keeps polling.  Nobody has to
\* navigate, to leave, to click or to work.
Fairness ==
    /\ WF_vars((\/ ServerClosed \/ GraceEnds \/ HardDeadline
                \/ RefreshReads \/ RefreshCompletes \/ SecondPasses)
               /\ UNCHANGED <<pageVars, launchVars>>)
    /\ \A c \in Connection :
          /\ WF_vars((HandleRequest(c) \/ Finish(c)) /\ UNCHANGED <<pageVars, launchVars>>)
          /\ WF_vars((Load(c) \/ ReceiveState(c) \/ ReceiveTickets(c)) /\ UNCHANGED launchVars)
    /\ WF_vars((\E c \in Connection : Poll(c)) /\ UNCHANGED launchVars)

\* The browser comes once the launcher has started it.
BrowserStep == launch # "opening" /\ PageStep

IdleWithoutHeartbeat == ~Heartbeat /\ IdleEnds

Next ==
    \/ LaunchStep
    \/ (ServerStep \/ IdleWithoutHeartbeat) /\ UNCHANGED <<pageVars, launchVars>>
    \/ BrowserStep /\ UNCHANGED launchVars

WorkbenchSpec == Init /\ [][Next]_vars /\ Fairness

-----------------------------------------------------------------------------
(* Properties. *)

\* The session, the page and the launch have their types.
WorkbenchTypeOK == SessionTypeOK /\ PageTypeOK /\ LaunchTypeOK

\* README of the server: "it admits only one successful consumer and closes after
\* that response finishes"; and a confirmed ticket change is published once,
\* however often a lost answer makes the user confirm it again.  A closed
\* session holds no connection.
AtMostOnce ==
    /\ WorkbenchTypeOK
    /\ kind = "oneShot" => deliveries <= 1
    /\ \A i, j \in DOMAIN published : published[i] = published[j] => i = j
    /\ status = "closed" => Open = {}

\* The page never replaces what it shows of a project by something older,
\* through shared and kept readings, changes of project, lost answers and
\* answers that arrive late.
ShownNeverOlder ==
    [][page # NULL /\ page' # NULL => \A p \in Project : page'.shown[p] >= page.shown[p]]_vars

\* Every session comes to its end and reports it, whatever its connections, its
\* readings and its handlers do: the lifetime is not extended, and the close
\* does not wait for them.
SessionEnds ==
    WF_vars(LifetimeEnds /\ UNCHANGED <<pageVars, launchVars>>) =>
        (status = "ready" ~> status = "closed" /\ timers = {})

\* A live page that stays on a project, in a session that stays, shows the last
\* state of the project in the end, whatever failed before.
Follows(p) == page # NULL /\ page.current = p /\ kind = "live" /\ status = "ready"
ReachesCurrent ==
    \A p \in Project :
        <>[]Follows(p) => <>[](page # NULL /\ page.shown[p] = version[p])

\* What the page says when it stops asking for its project, "Session ended -
\* reopen DUBSAR to refresh", is true: the session is not ready any more.
ExpiredOnlyWhenOver == Showing /\ ~page.active => status # "ready"
=============================================================================
