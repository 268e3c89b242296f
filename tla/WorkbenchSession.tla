--------------------------- MODULE WorkbenchSession ---------------------------
(***************************************************************************)
(* One session of the Workbench's loopback server (server.mjs): it serves   *)
(* one page, and answers what the page asks for afterwards.  What the       *)
(* server was started with decides what it answers: a static page, a page   *)
(* for one consumer, a page whose projects are read again on demand, or a   *)
(* page whose ticket forms are handled.                                     *)
(*                                                                          *)
(* Every response carries "Connection: close", so a connection is one       *)
(* request.  A request that is not admitted (another host, method, header   *)
(* or address) is answered 404 and changes nothing, and is left out.        *)
(*                                                                          *)
(* Timers are sets of armed names: one fires when it will.  The page of a   *)
(* project is its version, and the digest of the page too.  What the        *)
(* launcher hands the server to read a project, or to preview and apply a   *)
(* ticket change, runs beside the server, and the ticket stores are the     *)
(* number of changes published (TicketAllocation says how).                 *)
(***************************************************************************)
EXTENDS Naturals, Sequences

CONSTANTS
    Project,
    Connections,  \* bound: connections open at once
    MaxVersion,   \* bound: changes of a project
    MaxChanges,   \* bound: changes of the ticket stores
    MaxFaults,    \* bound: connections lost, readings and handlers that fail
    NULL

ASSUME SessionAssumption ==
    /\ Project # {}
    /\ {Connections, MaxVersion, MaxChanges, MaxFaults} \subseteq Nat
    /\ NULL \notin Nat \cup {"available", "serving", "consumed", "aborted"}

VARIABLES
    kind,         \* "static", "oneShot", "live" or "ticket"
    listed,       \* the projects the page is about
    status,       \* the session's lifecycle
    shot,         \* oneShotState
    reason,       \* closeReason
    timers,       \* the armed timers of the session
    inFlight,     \* refreshInFlight and refreshProjectId
    last,         \* lastRefresh
    connection,   \* a request, how far it is, and its answer
    running,      \* the ticket handlers that have not returned
    version,      \* what each project holds
    board,        \* the changes of the ticket stores
    published,    \* history: the changes published by this session, in order
    faults

session == <<status, shot, reason, timers>>
reading == <<inFlight, last>>
world == <<version, board, published>>
sessionVars == <<kind, listed, session, reading, connection, running, world, faults>>

Connection == 1..Connections
Version == 0..MaxVersion
Changes == 0..MaxChanges
Kind == {"static", "oneShot", "live", "ticket"}
Page == [to |-> "page"]
StateOf(p, digest) == [to |-> "state", project |-> p, digest |-> digest]
Ticket(action, change) == [to |-> "tickets", action |-> action, change |-> change]

Open == {c \in Connection : connection[c] # NULL /\
                            connection[c].phase \in {"sent", "waiting", "answered"}}
Ready == status = "ready"

SessionTypeOK ==
    /\ kind \in Kind /\ listed \subseteq Project
    /\ status \in {"listening", "ready", "closing", "closed"}
    /\ shot \in {NULL, "available", "serving", "consumed", "aborted"}
    /\ reason \in {"explicit", "start-error", "address-invalid", "idle", "absolute-lifetime",
                   "served-once", "delivery-aborted", "launcher-finalize", "sigint"}
    /\ timers \subseteq {"idle", "absolute", "grace", "hard"}
    /\ inFlight \in {NULL} \cup [project : Project, version : Version \cup {NULL}]
    /\ last \in {NULL} \cup [project : Project, version : Version, recent : BOOLEAN]
    /\ \A c \in Connection : connection[c] # NULL =>
          connection[c].phase \in {"sent", "waiting", "answered", "delivered", "cut"}
    /\ \A h \in running : h.connection \in Connection
    /\ version \in [Project -> Version] /\ board \in Changes /\ faults \in 0..MaxFaults

InitSession ==
    /\ status = "listening" /\ reason = "explicit" /\ timers = {}
    /\ shot = IF kind = "oneShot" THEN "available" ELSE NULL
    /\ inFlight = NULL /\ last = NULL
    /\ connection = [c \in Connection |-> NULL] /\ running = {}
    /\ board = 0 /\ published = <<>> /\ faults = 0

-----------------------------------------------------------------------------
(* The end of a session. *)

\* Mutant: the session waits for its connections without a deadline.
CloseWithoutDeadline(why) ==
    IF status \in {"closing", "closed"} THEN UNCHANGED <<status, reason, timers>>
    ELSE status' = "closing" /\ reason' = why /\ timers' = {}

\* Only the first reason counts.  No new connection is taken, those that are
\* open get a grace period, and are then destroyed.
CloseFor(why) ==
    IF status \in {"closing", "closed"} THEN UNCHANGED <<status, reason, timers>>
    ELSE status' = "closing" /\ reason' = why /\ timers' = {"grace", "hard"}

Destroyed == [c \in Connection |->
                IF c \in Open THEN [connection[c] EXCEPT !.phase = "cut"] ELSE connection[c]]

FinalizeClosed == status' = "closed" /\ timers' = {}

\* The server's "close" event: no connection is left.
ServerClosed ==
    /\ status = "closing" /\ Open = {}
    /\ FinalizeClosed
    /\ UNCHANGED <<kind, listed, shot, reason, reading, connection, running, world, faults>>

GraceEnds ==
    /\ "grace" \in timers
    /\ timers' = timers \ {"grace"} /\ connection' = Destroyed
    /\ UNCHANGED <<kind, listed, status, shot, reason, reading, running, world, faults>>

HardDeadline ==
    /\ "hard" \in timers
    /\ connection' = Destroyed /\ FinalizeClosed
    /\ UNCHANGED <<kind, listed, shot, reason, reading, running, world, faults>>

IdleEnds ==
    /\ "idle" \in timers
    /\ CloseFor("idle")
    /\ UNCHANGED <<kind, listed, shot, reading, connection, running, world, faults>>

LifetimeEnds ==
    /\ "absolute" \in timers
    /\ CloseFor("absolute-lifetime")
    /\ UNCHANGED <<kind, listed, shot, reading, connection, running, world, faults>>

CloseSession(why) ==
    /\ CloseFor(why)
    /\ UNCHANGED <<kind, listed, shot, reading, connection, running, world, faults>>

\* server.listen succeeds, gives an address that is not the loopback's, or fails.
Listen ==
    /\ status = "listening"
    /\ \/ /\ status' = "ready" /\ timers' = {"idle", "absolute"} /\ UNCHANGED reason
       \/ CloseFor("address-invalid")
       \/ status' = "closed" /\ reason' = "start-error" /\ UNCHANGED timers
    /\ UNCHANGED <<kind, listed, shot, reading, connection, running, world, faults>>

-----------------------------------------------------------------------------
(* Answers. *)

Answered(c, code, body) ==
    [connection EXCEPT ![c].phase = "answered", ![c].answer = [code |-> code, body |-> body]]

\* scheduleIdle: only an admitted request arms the idle timer again.
ScheduleIdle == timers' = timers \cup {"idle"}

\* The answer to a page that knows a digest of a project that was read.
StateAnswer(c, payload) ==
    IF payload.version = connection[c].request.digest
    THEN Answered(c, 204, NULL)
    ELSE Answered(c, 200, [project |-> payload.project, version |-> payload.version])

Requests(c, to) == connection[c] # NULL /\ connection[c].phase = "sent"
                      /\ connection[c].request.to = to

\* A state is asked for: a reading of the last second serves again, a reading
\* of the project that is under way is shared, one of another project refuses.
AdmitState(c) ==
    /\ Requests(c, "state") /\ kind = "live" /\ Ready
    /\ ScheduleIdle
    /\ LET p == connection[c].request.project IN
       \/ /\ last # NULL /\ last.project = p /\ last.recent
          /\ connection' = StateAnswer(c, last) /\ UNCHANGED inFlight
       \/ /\ ~(last # NULL /\ last.project = p /\ last.recent)
          /\ IF inFlight # NULL /\ inFlight.project # p
             THEN connection' = Answered(c, 503, NULL) /\ UNCHANGED inFlight
             ELSE /\ connection' = [connection EXCEPT ![c].phase = "waiting"]
                  /\ inFlight' = IF inFlight = NULL THEN [project |-> p, version |-> NULL]
                                                    ELSE inFlight
    /\ UNCHANGED <<kind, listed, status, shot, reason, last, running, world, faults>>

\* The handler runs on its own; the response waits for it.
AdmitTickets(c) ==
    /\ Requests(c, "tickets") /\ kind = "ticket" /\ Ready
    /\ ScheduleIdle
    /\ connection' = [connection EXCEPT ![c].phase = "waiting"]
    /\ running' = running \cup {[connection |-> c, request |-> connection[c].request,
                                 step |-> "called", output |-> NULL]}
    /\ UNCHANGED <<kind, listed, status, shot, reason, reading, world, faults>>

\* A page for one consumer is offered once.
AdmitPage(c) ==
    /\ Requests(c, "page") /\ Ready /\ shot \in {NULL, "available"}
    /\ shot' = IF shot = "available" THEN "serving" ELSE shot
    /\ connection' = Answered(c, 200, NULL)
    /\ UNCHANGED <<kind, listed, status, reason, timers, reading, running, world, faults>>

\* Anything else, and everything once the session closes, is 404.
Refuse(c) ==
    /\ \/ Requests(c, "state") /\ ~(kind = "live" /\ Ready)
       \/ Requests(c, "tickets") /\ ~(kind = "ticket" /\ Ready)
       \/ Requests(c, "page") /\ ~(Ready /\ shot \in {NULL, "available"})
    /\ connection' = Answered(c, 404, NULL)
    /\ UNCHANGED <<kind, listed, session, reading, running, world, faults>>

HandleRequest(c) == AdmitState(c) \/ AdmitTickets(c) \/ AdmitPage(c) \/ Refuse(c)

\* attachResponseDeadline, "finish": a page for one consumer was consumed, and
\* any other admitted response keeps the session awake.
Finish(c) ==
    /\ connection[c] # NULL /\ connection[c].phase = "answered"
    /\ connection' = [connection EXCEPT ![c].phase = "delivered"]
    /\ IF ~Ready \/ connection[c].answer.code = 404
       THEN UNCHANGED <<status, shot, reason, timers>>
       ELSE IF kind = "oneShot"
       THEN shot' = "consumed" /\ CloseFor("served-once")
       ELSE ScheduleIdle /\ UNCHANGED <<status, shot, reason>>
    /\ UNCHANGED <<kind, listed, reading, running, world, faults>>

\* A connection is lost, or destroyed at a deadline: "close" without "finish".
Lose(c) ==
    /\ c \in Open /\ faults < MaxFaults
    /\ faults' = faults + 1
    /\ connection' = [connection EXCEPT ![c].phase = "cut"]
    /\ IF kind = "oneShot" /\ Ready /\ connection[c].phase = "answered"
             /\ connection[c].answer.code # 404
       THEN shot' = "aborted" /\ CloseFor("delivery-aborted")
       ELSE UNCHANGED session
    /\ UNCHANGED <<kind, listed, reading, running, world>>

-----------------------------------------------------------------------------
(* Reading a project. *)

Waiting == {c \in Connection : connection[c] # NULL /\ connection[c].phase = "waiting"
                                  /\ connection[c].request.to = "state"}

RefreshReads ==
    /\ inFlight # NULL /\ inFlight.version = NULL
    /\ inFlight' = [inFlight EXCEPT !.version = version[inFlight.project]]
    /\ UNCHANGED <<kind, listed, session, last, connection, running, world, faults>>

\* Every request that shares the reading is answered, unless the session is
\* closing by now: then nothing is written.
RefreshCompletes ==
    /\ inFlight # NULL /\ inFlight.version # NULL
    /\ last' = [project |-> inFlight.project, version |-> inFlight.version, recent |-> TRUE]
    /\ inFlight' = NULL
    /\ connection' = [c \in Connection |->
          IF c \in Waiting /\ Ready THEN StateAnswer(c, inFlight)[c] ELSE connection[c]]
    /\ UNCHANGED <<kind, listed, session, running, world, faults>>

RefreshFails ==
    /\ inFlight # NULL /\ faults < MaxFaults
    /\ faults' = faults + 1
    /\ inFlight' = NULL
    /\ connection' = [c \in Connection |->
          IF c \notin Waiting THEN connection[c]
          ELSE IF Ready THEN Answered(c, 503, NULL)[c]
          ELSE [connection[c] EXCEPT !.phase = "cut"]]
    /\ UNCHANGED <<kind, listed, session, last, running, world>>

\* A second passes.
SecondPasses ==
    /\ last # NULL /\ last.recent
    /\ last' = [last EXCEPT !.recent = FALSE]
    /\ UNCHANGED <<kind, listed, session, inFlight, connection, running, world, faults>>

-----------------------------------------------------------------------------
(* The ticket handler (createTicketDashboardHandler). *)

Returns(h, step, output) ==
    running' = (running \ {h}) \cup {[h EXCEPT !.step = step, !.output = output]}

\* previewTicketChange: the change is bound to the stores it was computed from.
HandlerPreviews(h) ==
    /\ h.step = "called" /\ h.request.action = "preview"
    /\ Returns(h, "returned", [h.request.change EXCEPT !.base = board])
    /\ UNCHANGED <<kind, listed, session, reading, connection, world, faults>>

\* Mutant: the confirmed change is applied to whatever is there.
HandlerAppliesBlindly(h) ==
    /\ h.step = "called" /\ h.request.action = "apply" /\ board < MaxChanges
    /\ board' = board + 1 /\ published' = Append(published, h.request.change.operation)
    /\ Returns(h, "applied", NULL)
    /\ UNCHANGED <<kind, listed, session, reading, connection, version, faults>>

\* applyTicketChange publishes the confirmed change or refuses it as stale.
HandlerApplies(h) ==
    /\ h.step = "called" /\ h.request.action = "apply"
    /\ IF h.request.change.base = board /\ board < MaxChanges
       THEN /\ board' = board + 1
            /\ published' = Append(published, h.request.change.operation)
            /\ Returns(h, "applied", NULL)
       ELSE Returns(h, "failed", NULL) /\ UNCHANGED <<board, published>>
    /\ UNCHANGED <<kind, listed, session, reading, connection, version, faults>>

\* The tickets of every project are read again for the answer.
HandlerReads(h) ==
    /\ h.step = "applied"
    /\ Returns(h, "returned", board)
    /\ UNCHANGED <<kind, listed, session, reading, connection, world, faults>>

\* A project cannot be read, or its stores are locked.  The answer is a refusal
\* although the change may have been published.
HandlerFails(h) ==
    /\ h.step \in {"called", "applied"} /\ faults < MaxFaults
    /\ faults' = faults + 1
    /\ Returns(h, "failed", NULL)
    /\ UNCHANGED <<kind, listed, session, reading, connection, world>>

\* The answer is written whatever the session has become, if anyone is there.
HandlerAnswers(h) ==
    /\ h.step \in {"returned", "failed"}
    /\ running' = running \ {h}
    /\ connection' = IF connection[h.connection] # NULL
                          /\ connection[h.connection].phase = "waiting"
                     THEN IF h.step = "failed" THEN Answered(h.connection, 400, NULL)
                                               ELSE Answered(h.connection, 200, h.output)
                     ELSE connection
    /\ UNCHANGED <<kind, listed, session, reading, world, faults>>

-----------------------------------------------------------------------------
(* The rest of the world. *)

\* Someone works in a project, or changes a ticket with another tool.
ProjectChanges(p) ==
    /\ kind = "live" /\ p \in listed /\ Ready /\ version[p] < MaxVersion
    /\ version' = [version EXCEPT ![p] = @ + 1]
    /\ UNCHANGED <<kind, listed, session, reading, connection, running, board, published, faults>>

TicketsChange ==
    /\ kind = "ticket" /\ Ready /\ board < MaxChanges
    /\ board' = board + 1
    /\ UNCHANGED <<kind, listed, session, reading, connection, running, version, published, faults>>

ServerStep ==
    \/ ServerClosed \/ GraceEnds \/ HardDeadline
    \/ LifetimeEnds
    \/ \E c \in Connection : HandleRequest(c) \/ Finish(c) \/ Lose(c)
    \/ RefreshReads \/ RefreshCompletes \/ RefreshFails \/ SecondPasses
    \/ \E h \in running :
          \/ HandlerPreviews(h) \/ HandlerApplies(h) \/ HandlerReads(h) \/ HandlerFails(h)
          \/ HandlerAnswers(h)
    \/ (\E p \in Project : ProjectChanges(p)) \/ TicketsChange
=============================================================================
