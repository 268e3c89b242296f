---------------------------- MODULE DashboardPage ----------------------------
(***************************************************************************)
(* The Dashboard in the browser (catalog-interactive-assets.mjs), beside    *)
(* the session that served it: a page rendered live asks every two seconds  *)
(* for the project it shows, replaces it when the answer is a newer one,    *)
(* and stops for good on a 404; its ticket forms preview a change and       *)
(* confirm the preview.                                                     *)
(*                                                                          *)
(* The browser sends each request on a connection of its own, so answers    *)
(* arrive in any order.  What the page checks of an answer (its length, its *)
(* digest, its format, its project) it finds right when the server wrote    *)
(* it.  The page rendered for a personal memory has the same confirmation   *)
(* and no live part, and is not modelled.                                   *)
(***************************************************************************)
EXTENDS WorkbenchSession

CONSTANTS
    MaxVisits,   \* bound: consumers that ask for a page meant for one
    MaxClicks    \* bound: ticket previews asked for

VARIABLES
    visits, deliveries,   \* history: navigations, and those that got the page
    page,                 \* the page, while it is open
    rendered              \* the versions the served page was rendered from

pageVars == <<visits, deliveries, page, rendered>>

\* liveEnabled: rendered live, and opened over http.
LiveEnabled == kind \in {"live", "ticket"}

\* A change as the page keeps it: which click asked for it, and the digest.
Change(n, base) == [operation |-> n, base |-> base]

\* A previewed change, bound to the stores it was computed from.
Bound == [operation : Nat, base : Changes]

Pages ==
    [current : Project, shown : [Project -> Version], digests : [Project -> Version \cup {NULL}],
     active : BOOLEAN, due : BOOLEAN, poll : Connection \cup {NULL}, tickets : Changes,
     preview : {NULL} \cup Bound, clicks : 0..MaxClicks]

ASSUME PageAssumption == MaxVisits \in Nat \ {0} /\ MaxClicks \in Nat /\ NULL \notin Pages

PageTypeOK ==
    /\ visits \in 0..MaxVisits /\ deliveries \in 0..MaxVisits
    /\ rendered \in [Project -> Version]
    /\ page \in {NULL} \cup Pages

InitPage == visits = 0 /\ deliveries = 0 /\ page = NULL

\* The page as it starts: it asks for its first project at once.
LoadedPage ==
    [current |-> CHOOSE p \in listed : TRUE, shown |-> rendered,
     digests |-> [p \in Project |-> NULL], active |-> TRUE, due |-> LiveEnabled,
     poll |-> NULL, tickets |-> 0, preview |-> NULL, clicks |-> 0]

Showing == page # NULL

\* The connection of the next request; which one it is makes no difference.
Free(c) ==
    LET free == {d \in Connection : connection[d] = NULL /\ \A h \in running : h.connection # d}
    IN  c \in free /\ \A d \in free : c <= d

Sent(c, request) ==
    [connection EXCEPT ![c] = [request |-> request, phase |-> "sent", answer |-> NULL]]

\* The client has what became of its request.
Settled(c, to) ==
    connection[c] # NULL /\ connection[c].phase \in {"delivered", "cut"}
      /\ connection[c].request.to = to
Code(c) == IF connection[c].phase = "cut" THEN 0 ELSE connection[c].answer.code
Forgotten(c) == [connection EXCEPT ![c] = NULL]

-----------------------------------------------------------------------------
(* Opening and leaving. *)

Navigate(c) ==
    /\ visits < (IF kind = "oneShot" THEN MaxVisits ELSE 1) /\ status = "ready" /\ Free(c)
    /\ visits' = visits + 1
    /\ connection' = Sent(c, Page)
    /\ UNCHANGED <<kind, listed, session, reading, running, world, faults, deliveries, page, rendered>>

\* The first page to arrive is the one followed here.
Load(c) ==
    /\ Settled(c, "page")
    /\ connection' = Forgotten(c)
    /\ IF Code(c) = 200
       THEN /\ deliveries' = deliveries + 1
            /\ page' = IF page = NULL THEN LoadedPage ELSE page
       ELSE UNCHANGED <<deliveries, page>>
    /\ UNCHANGED <<kind, listed, session, reading, running, world, faults, visits, rendered>>

\* "pagehide", and the browser drops the page's requests.
Leave ==
    /\ Showing
    /\ page' = NULL
    /\ connection' = [c \in Connection |->
          IF connection[c] # NULL /\ connection[c].request.to # "page"
          THEN NULL ELSE connection[c]]
    /\ UNCHANGED <<kind, listed, session, reading, running, world, faults, visits, deliveries, rendered>>

-----------------------------------------------------------------------------
(* The live part. *)

\* scheduleLivePoll.
Due == LiveEnabled /\ page.active

\* Mutant: liveBusy is not looked at, and a second request leaves beside the first.
PollAgain(c) ==
    /\ Showing /\ page.due /\ page.active
    /\ status = "ready" /\ Free(c)
    /\ connection' = Sent(c, StateOf(page.current,
                                     IF page.digests[page.current] = NULL THEN MaxVersion + 1
                                     ELSE page.digests[page.current]))
    /\ page' = [page EXCEPT !.poll = c]
    /\ UNCHANGED <<kind, listed, session, reading, running, world, faults, visits, deliveries, rendered>>

\* pollLiveProject: one request at a time.  A digest that is not known is one
\* that no project has.
Poll(c) ==
    /\ Showing /\ page.due /\ page.active /\ page.poll = NULL
    /\ status = "ready" /\ Free(c)
    /\ connection' = Sent(c, StateOf(page.current,
                                     IF page.digests[page.current] = NULL THEN MaxVersion + 1
                                     ELSE page.digests[page.current]))
    /\ page' = [page EXCEPT !.due = FALSE, !.poll = c]
    /\ UNCHANGED <<kind, listed, session, reading, running, world, faults, visits, deliveries, rendered>>

\* The timer finds a request under way, and the request's end arms it again.
PollBusy ==
    /\ Showing /\ page.due /\ page.active /\ page.poll # NULL
    /\ page' = [page EXCEPT !.due = FALSE]
    /\ UNCHANGED <<sessionVars, visits, deliveries, rendered>>

\* Mutant: a request that fails does not arm the timer again.
ReceiveStateOnce(c) ==
    /\ Settled(c, "state") /\ Showing
    /\ connection' = Forgotten(c)
    /\ LET p == connection[c].request.project
           v == connection[c].answer.body.version
           idle == [page EXCEPT !.poll = NULL] IN
       page' =
         CASE Code(c) = 404 -> [idle EXCEPT !.active = FALSE, !.due = FALSE]
           [] Code(c) = 200 /\ connection[c].answer.body.project = p ->
                [idle EXCEPT !.shown[p] = v, !.digests[p] = v, !.due = Due]
           [] OTHER -> idle
    /\ UNCHANGED <<kind, listed, session, reading, running, world, faults, visits, deliveries, rendered>>

\* What becomes of the request: gone for good; the project again, which takes
\* the place of the one on the page, even when the page has moved to another
\* project meanwhile; or the same as before, or nothing of use.
ReceiveState(c) ==
    /\ Settled(c, "state") /\ Showing
    /\ connection' = Forgotten(c)
    /\ LET p == connection[c].request.project
           v == connection[c].answer.body.version
           idle == [page EXCEPT !.poll = NULL] IN
       page' =
         CASE Code(c) = 404 -> [idle EXCEPT !.active = FALSE, !.due = FALSE]
           [] Code(c) = 200 /\ connection[c].answer.body.project = p ->
                [idle EXCEPT !.shown[p] = v, !.digests[p] = v, !.due = Due]
           [] OTHER -> [idle EXCEPT !.due = Due]
    /\ UNCHANGED <<kind, listed, session, reading, running, world, faults, visits, deliveries, rendered>>

\* (What a page that no longer polls shows is of no consequence here.)
SelectProject(p) ==
    /\ Showing /\ page.active /\ p \in listed \ {page.current}
    /\ page' = [page EXCEPT !.current = p, !.due = Due]
    /\ UNCHANGED <<sessionVars, visits, deliveries, rendered>>

-----------------------------------------------------------------------------
(* The ticket forms. *)

\* previewTicket: a click asks, and the answer that arrives last is the one shown.
AskPreview(c) ==
    /\ Showing /\ kind = "ticket" /\ status = "ready" /\ Free(c)
    /\ page.clicks < MaxClicks
    /\ page' = [page EXCEPT !.clicks = @ + 1]
    /\ connection' = Sent(c, Ticket("preview", Change(page.clicks + 1, NULL)))
    /\ UNCHANGED <<kind, listed, session, reading, running, world, faults, visits, deliveries, rendered>>

\* The user confirms what the page shows.  Nothing keeps the button from being
\* pressed again while the answer has not come, or when it never comes.
Confirm(c) ==
    /\ Showing /\ page.preview # NULL /\ status = "ready" /\ Free(c)
    /\ connection' = Sent(c, Ticket("apply", page.preview))
    /\ UNCHANGED <<kind, listed, session, reading, running, world, faults, pageVars>>

ReceiveTickets(c) ==
    /\ Settled(c, "tickets") /\ Showing
    /\ connection' = Forgotten(c)
    /\ LET action == connection[c].request.action
           body == connection[c].answer.body IN
       page' =
         CASE Code(c) = 0 -> page   \* the request throws, and nothing is reset
           [] Code(c) = 200 /\ action = "preview" -> [page EXCEPT !.preview = body]
           [] Code(c) = 200 /\ action = "apply" ->
                [page EXCEPT !.preview = NULL, !.tickets = body]
           [] OTHER -> [page EXCEPT !.preview = NULL]
    /\ UNCHANGED <<kind, listed, session, reading, running, world, faults, visits, deliveries, rendered>>

-----------------------------------------------------------------------------
PageStep ==
    \/ \E c \in Connection :
          Navigate(c) \/ Load(c) \/ Poll(c) \/ ReceiveState(c)
            \/ AskPreview(c) \/ Confirm(c) \/ ReceiveTickets(c)
    \/ PollBusy \/ Leave
    \/ \E p \in Project : SelectProject(p)

\* The heartbeat of a live page: two seconds between the end of one request and
\* the next, and a response is destroyed after ten; the idle timer takes two
\* minutes, and does not fire while it beats.
Heartbeat == Showing /\ page.active /\ LiveEnabled
=============================================================================
