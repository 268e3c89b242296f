---------------------------- MODULE WorkbenchProofs ----------------------------
(***************************************************************************)
(* Proofs about the Workbench (WorkbenchLaunch, with DashboardPage and      *)
(* WorkbenchSession): a page for one consumer is delivered once, a          *)
(* confirmed ticket change is published once, a closed session holds no     *)
(* connection, and the page never goes back to something older.             *)
(***************************************************************************)
EXTENDS WorkbenchLaunch, TLAPS

-----------------------------------------------------------------------------
(* The shapes of what is exchanged. *)

\* A ticket change before its preview.
Wish == [operation : Nat, base : {NULL}]

StateAsks == [to : {"state"}, project : Project, digest : Nat]
PreviewAsks == [to : {"tickets"}, action : {"preview"}, change : Wish]
ApplyAsks == [to : {"tickets"}, action : {"apply"}, change : Bound]
TicketAsks == PreviewAsks \cup ApplyAsks
Asked == {Page} \cup StateAsks \cup TicketAsks

\* The state of a project that was read.
Readings == [project : Project, version : Version]

\* The body of an answer 200 is what the request asked for.
Fits(request, body) ==
    /\ request \in StateAsks => body \in Readings
    /\ request \in PreviewAsks => body \in Bound
    /\ request \in ApplyAsks => body \in Changes

Answers == [code : {200, 204, 400, 404, 503}, body : {NULL} \cup Readings \cup Bound \cup Changes]

Links ==
    {x \in [request : Asked, phase : {"sent", "waiting", "answered", "delivered", "cut"},
            answer : {NULL} \cup Answers] :
        x.phase \in {"answered", "delivered"} =>
            x.answer \in Answers /\ (x.answer.code = 200 => Fits(x.request, x.answer.body))}

Handlers ==
    {h \in [connection : Connection, request : TicketAsks,
            step : {"called", "applied", "returned", "failed"},
            output : {NULL} \cup Bound \cup Changes] :
        /\ h.step = "returned" => Fits(h.request, h.output)
        /\ h.step = "applied" => h.request \in ApplyAsks}

\* Request x asks for the page, for a state or for a ticket change.
For(x, to) == x # NULL /\ x.request.to = to

\* It was answered with what it asked for.
Ok(x) == x.phase \in {"answered", "delivered"} /\ x.answer.code = 200

-----------------------------------------------------------------------------
(* The inductive invariant. *)

\* Everything has its type.
Typed ==
    /\ kind \in Kind /\ listed \subseteq Project /\ listed # {}
    /\ status \in {"listening", "ready", "closing", "closed"}
    /\ shot \in {NULL, "available", "serving", "consumed", "aborted"}
    /\ reason \in {"explicit", "start-error", "address-invalid", "idle", "absolute-lifetime",
                   "served-once", "delivery-aborted", "launcher-finalize", "sigint"}
    /\ timers \subseteq {"idle", "absolute", "grace", "hard"}
    /\ inFlight \in {NULL} \cup [project : Project, version : Version \cup {NULL}]
    /\ last \in {NULL} \cup [project : Project, version : Version, recent : BOOLEAN]
    /\ connection \in [Connection -> {NULL} \cup Links]
    /\ running \subseteq Handlers
    /\ version \in [Project -> Version] /\ board \in Changes /\ faults \in 0..MaxFaults
    /\ published \in Seq(Nat)
    /\ visits \in 0..MaxVisits /\ deliveries \in {0, 1}
    /\ page \in {NULL} \cup Pages /\ rendered \in [Project -> Version]
    /\ LaunchTypeOK

\* A connection on which a page may still be delivered: for a page for one consumer
\* the one that was answered with it, and otherwise the only navigation there is.
Carries(c) == For(connection[c], "page") /\ (kind = "oneShot" => Ok(connection[c]))

\* Pages are delivered once: the one-shot state allows one answer.
DeliveredOnce ==
    /\ \A c, d \in Connection : Carries(c) /\ Carries(d) => c = d
    /\ deliveries = 1 => \A c \in Connection : ~Carries(c)
    /\ kind = "oneShot" =>
          /\ shot # NULL
          /\ shot = "available" => deliveries = 0 /\ \A c \in Connection : ~Carries(c)
    /\ kind # "oneShot" =>
          /\ visits \in {0, 1}
          /\ visits = 0 => deliveries = 0 /\ \A c \in Connection : ~Carries(c)

\* Before a page was delivered nothing was asked but pages.
NothingBefore ==
    deliveries = 0 =>
        /\ page = NULL /\ inFlight = NULL /\ last = NULL /\ running = {} /\ published = <<>>
        /\ \A c \in Connection : connection[c] # NULL => connection[c].request.to = "page"

\* A session that is not started, or over, has no connection.
ClosedEmpty == status \in {"listening", "closed"} => Open = {}

\* Version v of project q is between what the page shows and what the project
\* holds.
Between(q, v) == v <= version[q] /\ (page # NULL => page.shown[q] <= v)

\* What is known of a project is ordered: the page, the answer on its way, the
\* last reading, the reading under way, the project.  This rests on a page with at
\* most one request for a state.
ReadingsOrdered ==
    /\ \A p \in Project : rendered[p] <= version[p] /\ (page # NULL => page.shown[p] <= version[p])
    /\ last # NULL => Between(last.project, last.version)
    /\ inFlight # NULL /\ inFlight.version # NULL =>
          /\ Between(inFlight.project, inFlight.version)
          /\ last # NULL /\ last.project = inFlight.project => last.version <= inFlight.version
    /\ \A c \in Connection : For(connection[c], "state") =>
          /\ page # NULL /\ page.poll = c
          /\ Ok(connection[c]) =>
                LET q == connection[c].answer.body.project
                    v == connection[c].answer.body.version
                IN  /\ Between(q, v)
                    /\ last # NULL /\ last.project = q => v <= last.version
                    /\ inFlight # NULL /\ inFlight.version # NULL /\ inFlight.project = q =>
                          v <= inFlight.version

\* Each handler has its connection, which still has the handler's request.
HandlersMatch ==
    /\ \A h \in running : connection[h.connection] # NULL =>
          /\ connection[h.connection].request = h.request
          /\ connection[h.connection].phase # "sent"
    /\ \A h, g \in running : h.connection = g.connection => h = g

\* The preview of operation n is asked for, on a connection or by a handler.
AskedOn(c, n) ==
    /\ For(connection[c], "tickets") /\ connection[c].phase = "sent"
    /\ connection[c].request \in PreviewAsks /\ connection[c].request.change.operation = n
AskedBy(h, n) ==
    h.step = "called" /\ h.request \in PreviewAsks /\ h.request.change.operation = n
Awaited(n) ==
    (\E c \in Connection : AskedOn(c, n)) \/ (\E h \in running : AskedBy(h, n))

\* Somebody may still confirm the previewed change, or has confirmed it.
HeldOn(c, change) ==
    /\ For(connection[c], "tickets")
    /\ \/ connection[c].request \in ApplyAsks /\ connection[c].request.change = change
       \/ /\ connection[c].request \in PreviewAsks /\ Ok(connection[c])
          /\ connection[c].answer.body = change
HeldBy(h, change) ==
    \/ h.request \in ApplyAsks /\ h.request.change = change
    \/ h.request \in PreviewAsks /\ h.step = "returned" /\ h.output = change
Held(change) ==
    \/ \E c \in Connection : HeldOn(c, change)
    \/ \E h \in running : HeldBy(h, change)
    \/ page # NULL /\ page.preview # NULL /\ page.preview = change

\* One preview is asked for at a time for an operation.
AwaitedOnce ==
    /\ \A c, d \in Connection, n \in Nat : AskedOn(c, n) /\ AskedOn(d, n) => c = d
    /\ \A h, g \in running, n \in Nat : AskedBy(h, n) /\ AskedBy(g, n) => h = g
    /\ \A c \in Connection, h \in running, n \in Nat : ~(AskedOn(c, n) /\ AskedBy(h, n))

\* An operation has one previewed change, and once that was published it is of a
\* state of the stores that is gone.
PublishedOnce ==
    /\ \A n \in Nat : Awaited(n) =>
          /\ \A i \in DOMAIN published : published[i] # n
          /\ \A change \in Bound : Held(change) => change.operation # n
    /\ \A change, other \in Bound :
          Held(change) /\ Held(other) /\ change.operation = other.operation => change = other
    /\ \A i \in DOMAIN published, change \in Bound :
          Held(change) /\ change.operation = published[i] => change.base < board
    /\ \A i, j \in DOMAIN published : published[i] = published[j] => i = j

\* The page counts its clicks beyond every operation there is.
ClicksCount ==
    page # NULL =>
        /\ \A n \in Nat : Awaited(n) => n <= page.clicks
        /\ \A change \in Bound : Held(change) => change.operation <= page.clicks
        /\ \A i \in DOMAIN published : published[i] <= page.clicks

TicketsOnce == HandlersMatch /\ AwaitedOnce /\ PublishedOnce /\ ClicksCount

WorkbenchInv ==
    Typed /\ DeliveredOnce /\ NothingBefore /\ ClosedEmpty /\ ReadingsOrdered /\ TicketsOnce

-----------------------------------------------------------------------------
(* What may become of a request. *)

LEMMA LinkLabelled ==
  ASSUME NEW x \in Links, NEW label \in {"waiting", "cut"},
         NEW y, y = [x EXCEPT !.phase = label]
  PROVE  y \in Links /\ y.request = x.request /\ y.phase = label /\ y.answer = x.answer
  BY DEF Links

LEMMA LinkDelivered ==
  ASSUME NEW x \in Links, x.phase = "answered",
         NEW y, y = [x EXCEPT !.phase = "delivered"]
  PROVE  y \in Links /\ y.request = x.request /\ y.phase = "delivered" /\ y.answer = x.answer
  BY DEF Links

\* x stays, goes away, or comes nearer to its end without being answered 200.
Fades(x, y) ==
    \/ y = x
    \/ y = NULL
    \/ /\ x # NULL /\ y.request = x.request
       /\ y.phase = "sent" => x.phase = "sent"
       /\ y.phase \in {"sent", "waiting", "answered"} => x.phase \in {"sent", "waiting", "answered"}
       /\ Ok(y) => Ok(x) /\ y.answer = x.answer

\* The requests for `to` do no more than that.
FadesFor(to) ==
    \A c \in Connection : For(connection[c], to)' =>
        /\ For(connection[c], to)
        /\ connection'[c].request = connection[c].request
        /\ connection'[c].phase = "sent" => connection[c].phase = "sent"
        /\ Ok(connection[c])' => Ok(connection[c]) /\ connection'[c].answer = connection[c].answer

LEMMA AllFade ==
  ASSUME \A c \in Connection : Fades(connection[c], connection'[c]), NEW to
  PROVE  FadesFor(to)
  BY DEF Fades, FadesFor, For, Ok

\* One connection changes.
Relinks(c, y) == connection' = [connection EXCEPT ![c] = y]

LEMMA Relinking ==
  ASSUME connection \in [Connection -> {NULL} \cup Links], NEW c \in Connection,
         NEW y \in {NULL} \cup Links, Relinks(c, y)
  PROVE  /\ connection' \in [Connection -> {NULL} \cup Links]
         /\ connection'[c] = y
         /\ \A d \in Connection : d # c => connection'[d] = connection[d]
  BY DEF Relinks

\* Then the requests of another kind stay as they were.
LEMMA OthersFade ==
  ASSUME connection \in [Connection -> {NULL} \cup Links], NEW c \in Connection,
         NEW y \in {NULL} \cup Links, Relinks(c, y), NEW to, ~For(y, to)
  PROVE  FadesFor(to)
  <1>1. connection'[c] = y /\ \A d \in Connection : d # c => connection'[d] = connection[d]
    BY Relinking
  <1> QED
    BY <1>1 DEF FadesFor, For, Ok

LEMMA OneFades ==
  ASSUME connection \in [Connection -> {NULL} \cup Links], NEW c \in Connection,
         NEW y \in {NULL} \cup Links, Relinks(c, y), Fades(connection[c], y)
  PROVE  \A d \in Connection : Fades(connection[d], connection'[d])
  <1>1. connection'[c] = y /\ \A d \in Connection : d # c => connection'[d] = connection[d]
    BY Relinking
  <1> QED
    BY <1>1 DEF Fades

-----------------------------------------------------------------------------
(* Steps that do not concern a part of the invariant. *)

LEMMA DeliveredQuiet ==
  ASSUME DeliveredOnce, FadesFor("page"), kind' = kind, deliveries' = deliveries, visits' = visits,
         shot' = shot \/ shot' \in {"serving", "consumed", "aborted"}
  PROVE  DeliveredOnce'
  <1>1. \A c \in Connection : Carries(c)' => Carries(c)
    BY DEF Carries, FadesFor
  <1> QED
    BY <1>1, SessionAssumption DEF DeliveredOnce

LEMMA BeforeQuiet ==
  ASSUME NothingBefore, Typed, deliveries' = deliveries \/ deliveries' = 1,
         \/ deliveries # 0
         \/ /\ page' = page /\ inFlight' = inFlight /\ last' = last /\ running' = running
            /\ published' = published
            /\ \A c \in Connection : connection'[c] # NULL =>
                  \/ connection[c] # NULL /\ connection'[c].request = connection[c].request
                  \/ connection'[c].request.to = "page"
  PROVE  NothingBefore'
  <1> SUFFICES ASSUME deliveries' = 0 PROVE NothingBefore'
    BY DEF NothingBefore
  <1>1. deliveries = 0
    BY DEF Typed
  <1> QED
    BY <1>1 DEF NothingBefore

LEMMA ClosedQuiet ==
  ASSUME ClosedEmpty, \A c \in Connection : Fades(connection[c], connection'[c]),
         status' \in {"listening", "closed"} => status \in {"listening", "closed"} \/ Open = {}
  PROVE  ClosedEmpty'
  BY DEF ClosedEmpty, Open, Fades

LEMMA ReadyQuiet ==
  ASSUME status' \in {"ready", "closing"}
  PROVE  ClosedEmpty'
  BY DEF ClosedEmpty

\* The page is closed, or goes on showing what it shows.
PageKeeps ==
    page # NULL /\ page' # NULL => page'.shown = page.shown /\ page'.poll = page.poll

\* The numbers are naturals.
LEMMA NaturalNumbers ==
  ASSUME Typed
  PROVE  /\ version \in [Project -> Nat] /\ rendered \in [Project -> Nat]
         /\ page # NULL => page.shown \in [Project -> Nat]
         /\ last # NULL => last.project \in Project /\ last.version \in Nat
         /\ inFlight # NULL =>
               inFlight.project \in Project /\ (inFlight.version # NULL => inFlight.version \in Nat)
  <1>1. Version \subseteq Nat
    BY SessionAssumption DEF Version
  <1>2. version \in [Project -> Version] /\ rendered \in [Project -> Version]
    BY DEF Typed
  <1>3. page # NULL => page.shown \in [Project -> Version]
    BY DEF Typed, Pages
  <1>4. last # NULL => last.project \in Project /\ last.version \in Version
    BY DEF Typed
  <1>5. inFlight # NULL => inFlight.project \in Project /\ inFlight.version \in Version \cup {NULL}
    BY DEF Typed
  <1> QED
    BY <1>1, <1>2, <1>3, <1>4, <1>5

\* An answer about a state is about a project and one of its versions.
LEMMA StateAnswered ==
  ASSUME Typed, NEW c \in Connection, For(connection[c], "state"), Ok(connection[c])
  PROVE  connection[c].answer.body.project \in Project /\ connection[c].answer.body.version \in Nat
  <1>1. connection[c] \in Links
    BY DEF Typed, For
  <1>2. connection[c].request \in StateAsks
    BY <1>1 DEF For, Links, Asked, Page, TicketAsks, PreviewAsks, ApplyAsks
  <1>3. connection[c].answer.body \in Readings
    BY <1>1, <1>2 DEF Links, Fits, Ok
  <1> QED
    BY <1>3, SessionAssumption DEF Readings, Version

LEMMA ReadingsQuiet ==
  ASSUME ReadingsOrdered, Typed, Typed', FadesFor("state"), (page = NULL <=> page' = NULL), PageKeeps,
         \A p \in Project : version[p] <= version'[p], rendered' = rendered \/ rendered' = version',
         \/ inFlight' = inFlight
         \/ inFlight' = NULL \/ inFlight'.version = NULL,
         \/ last' = last
         \/ /\ last # NULL
            /\ last'.project = last.project /\ last'.version = last.version
  PROVE  ReadingsOrdered'
  <1>0. version' \in [Project -> Nat]
    <2>1. version' \in [Project -> Version]
      BY DEF Typed
    <2>2. Version \subseteq Nat
      BY SessionAssumption DEF Version
    <2> QED
      BY <2>1, <2>2
  <1>1. ASSUME NEW q \in Project, NEW v \in Nat, Between(q, v) PROVE Between(q, v)'
    <2>1. version[q] \in Nat /\ version'[q] \in Nat /\ version[q] <= version'[q]
      BY <1>0, NaturalNumbers
    <2> QED
      BY <1>1, <2>1 DEF Between, PageKeeps
  <1>2. ASSUME NEW p \in Project
        PROVE  rendered'[p] <= version'[p] /\ (page' # NULL => page'.shown[p] <= version'[p])
    <2>1. /\ version[p] \in Nat /\ version'[p] \in Nat /\ version[p] <= version'[p]
          /\ rendered[p] \in Nat /\ (page # NULL => page.shown[p] \in Nat)
      BY <1>0, NaturalNumbers
    <2>2. rendered[p] <= version[p] /\ (page # NULL => page.shown[p] <= version[p])
      BY DEF ReadingsOrdered
    <2>3. rendered'[p] = rendered[p] \/ rendered'[p] = version'[p]
      OBVIOUS
    <2> QED
      BY <2>1, <2>2, <2>3 DEF PageKeeps
  <1>3. last' # NULL => Between(last.project, last.version)'
    BY <1>1, NaturalNumbers DEF ReadingsOrdered
  <1>4. ASSUME inFlight' # NULL, inFlight'.version # NULL
        PROVE  /\ Between(inFlight.project, inFlight.version)'
               /\ last' # NULL /\ last'.project = inFlight'.project => last'.version <= inFlight'.version
    BY <1>1, <1>4, NaturalNumbers DEF ReadingsOrdered
  <1>5. ASSUME NEW c \in Connection, For(connection[c], "state")'
        PROVE  page' # NULL /\ page'.poll = c
    BY <1>5 DEF FadesFor, ReadingsOrdered, PageKeeps
  <1>6. ASSUME NEW c \in Connection, For(connection[c], "state")', Ok(connection[c])',
               NEW q \in Project, q = connection'[c].answer.body.project,
               NEW v \in Nat, v = connection'[c].answer.body.version
        PROVE  /\ Between(q, v)'
               /\ last' # NULL /\ last'.project = q => v <= last'.version
               /\ inFlight' # NULL /\ inFlight'.version # NULL /\ inFlight'.project = q =>
                     v <= inFlight'.version
    <2>1. /\ For(connection[c], "state") /\ Ok(connection[c])
          /\ q = connection[c].answer.body.project /\ v = connection[c].answer.body.version
      BY <1>6 DEF FadesFor
    <2>2. /\ Between(q, v)
          /\ last # NULL /\ last.project = q => v <= last.version
          /\ inFlight # NULL /\ inFlight.version # NULL /\ inFlight.project = q =>
                v <= inFlight.version
      BY <2>1 DEF ReadingsOrdered
    <2> QED
      BY <1>1, <2>2
  <1>7. ASSUME NEW c \in Connection, For(connection[c], "state")', Ok(connection[c])'
        PROVE  /\ connection'[c].answer.body.project \in Project
               /\ connection'[c].answer.body.version \in Nat
    <2>1. For(connection[c], "state") /\ Ok(connection[c]) /\ connection'[c].answer = connection[c].answer
      BY <1>7 DEF FadesFor
    <2> QED
      BY <2>1, StateAnswered
  <1> QED
    BY <1>2, <1>3, <1>4, <1>5, <1>6, <1>7 DEF ReadingsOrdered

\* What the tickets' part of the invariant says when nothing new is asked, held
\* or published.
LEMMA SetsQuiet ==
  ASSUME PublishedOnce, ClicksCount, Typed, Typed',
         \A n \in Nat : Awaited(n)' => Awaited(n),
         \A change \in Bound : Held(change)' => Held(change),
         published' = published, board <= board',
         page' # NULL => page # NULL /\ page'.clicks = page.clicks
  PROVE  PublishedOnce' /\ ClicksCount'
  <1>1. board \in Nat /\ board' \in Nat /\ \A change \in Bound : change.base \in Nat
    <2>1. board \in Changes /\ board' \in Changes
      BY DEF Typed
    <2>2. Changes \subseteq Nat
      BY SessionAssumption DEF Changes
    <2>3. \A change \in Bound : change.base \in Changes
      BY DEF Bound
    <2> QED
      BY <2>1, <2>2, <2>3
  <1>2. \A b \in Nat : b < board => b < board'
    BY <1>1
  <1>3. PublishedOnce'
    BY <1>1, <1>2 DEF PublishedOnce
  <1>4. ClicksCount'
    BY DEF ClicksCount
  <1> QED
    BY <1>3, <1>4

\* A connection that is there is one that was there, or it is no handler's.
ConnectionsStay ==
    \A c \in Connection : connection'[c] # NULL =>
        \/ /\ connection[c] # NULL /\ connection'[c].request = connection[c].request
           /\ connection'[c].phase = "sent" => connection[c].phase = "sent"
        \/ \A h \in running : h.connection # c

LEMMA FadesStay ==
  ASSUME \A c \in Connection : Fades(connection[c], connection'[c])
  PROVE  ConnectionsStay
  BY DEF Fades, ConnectionsStay

LEMMA MatchQuiet ==
  ASSUME HandlersMatch, Typed, ConnectionsStay, running' \subseteq running
  PROVE  HandlersMatch'
  <1>1. \A h \in running' : h \in running /\ h.connection \in Connection
    BY DEF Typed, Handlers
  <1> QED
    BY <1>1 DEF HandlersMatch, ConnectionsStay

LEMMA TicketsQuiet ==
  ASSUME TicketsOnce, Typed, Typed', FadesFor("tickets"), ConnectionsStay,
         running' = running, published' = published, board <= board',
         page' # NULL => /\ page # NULL /\ page'.clicks = page.clicks
                         /\ page'.preview \in {page.preview, NULL}
  PROVE  TicketsOnce'
  <1>1. ASSUME NEW c \in Connection, NEW n, AskedOn(c, n)' PROVE AskedOn(c, n)
    BY <1>1 DEF AskedOn, FadesFor
  <1>2. ASSUME NEW c \in Connection, NEW change, HeldOn(c, change)' PROVE HeldOn(c, change)
    BY <1>2 DEF HeldOn, FadesFor
  <1>3. \A n \in Nat : Awaited(n)' => Awaited(n)
    BY <1>1 DEF Awaited, AskedBy
  <1>4. \A change \in Bound : Held(change)' => Held(change)
    BY <1>2 DEF Held, HeldBy
  <1>5. PublishedOnce' /\ ClicksCount'
    BY <1>3, <1>4, SetsQuiet DEF TicketsOnce
  <1>6. AwaitedOnce'
    BY <1>1 DEF TicketsOnce, AwaitedOnce, AskedBy
  <1>7. HandlersMatch'
    BY MatchQuiet DEF TicketsOnce
  <1> QED
    BY <1>5, <1>6, <1>7 DEF TicketsOnce

\* A step that asks for nothing, answers nothing with 200, reads and publishes
\* nothing.
LEMMA QuietStep ==
  ASSUME WorkbenchInv, Typed', \A c \in Connection : Fades(connection[c], connection'[c]),
         kind' = kind, deliveries' = deliveries, visits' = visits,
         running' = running, published' = published, board <= board',
         shot' = shot \/ shot' \in {"serving", "consumed", "aborted"},
         status' \in {"listening", "closed"} =>
            status \in {"listening", "closed"} \/ Open = {} \/ Open' = {},
         (page = NULL <=> page' = NULL), PageKeeps,
         page' # NULL => page'.clicks = page.clicks /\ page'.preview \in {page.preview, NULL},
         \A p \in Project : version[p] <= version'[p], rendered' = rendered \/ rendered' = version',
         \/ inFlight' = inFlight
         \/ inFlight' = NULL \/ (inFlight'.version = NULL /\ deliveries # 0),
         \/ last' = last
         \/ /\ last # NULL
            /\ last'.project = last.project /\ last'.version = last.version
  PROVE  WorkbenchInv'
  <1>1. FadesFor("page") /\ FadesFor("state") /\ FadesFor("tickets") /\ ConnectionsStay
    BY AllFade, FadesStay
  <1>2. DeliveredOnce'
    BY <1>1, DeliveredQuiet DEF WorkbenchInv
  <1>3. NothingBefore'
    <2>1. CASE deliveries # 0
      BY <2>1, BeforeQuiet DEF WorkbenchInv
    <2>2. CASE deliveries = 0
      <3>1. page' = NULL /\ inFlight' = NULL /\ last' = NULL /\ running' = {} /\ published' = <<>>
        BY <2>2 DEF WorkbenchInv, NothingBefore
      <3>2. \A c \in Connection : connection'[c] # NULL => connection'[c].request.to = "page"
        BY <2>2 DEF WorkbenchInv, NothingBefore, Fades
      <3> QED
        BY <3>1, <3>2 DEF NothingBefore
    <2> QED
      BY <2>1, <2>2
  <1>4. ClosedEmpty'
    <2>1. CASE Open' = {}
      BY <2>1 DEF ClosedEmpty
    <2>2. CASE Open' # {}
      BY <2>2, ClosedQuiet DEF WorkbenchInv
    <2> QED
      BY <2>1, <2>2
  <1>5. ReadingsOrdered'
    BY <1>1, ReadingsQuiet DEF WorkbenchInv
  <1>6. TicketsOnce'
    BY <1>1, TicketsQuiet DEF WorkbenchInv
  <1> QED
    BY <1>2, <1>3, <1>4, <1>5, <1>6 DEF WorkbenchInv

-----------------------------------------------------------------------------
(* The steps of the launcher, and the ends of the session. *)

LEMMA LaunchStays ==
  ASSUME LaunchTypeOK, UNCHANGED launchVars
  PROVE  LaunchTypeOK'
  BY DEF LaunchTypeOK, launchVars

Reasons == {"explicit", "start-error", "address-invalid", "idle", "absolute-lifetime",
            "served-once", "delivery-aborted", "launcher-finalize", "sigint"}
Timers == {"idle", "absolute", "grace", "hard"}

\* Only the life of the session changes, and the connections fade.
LEMMA SessionChange ==
  ASSUME WorkbenchInv, LaunchTypeOK',
         status' \in {"listening", "ready", "closing", "closed"}, reason' \in Reasons,
         timers' \in SUBSET Timers, shot' \in {shot, "serving", "consumed", "aborted"},
         status' \in {"listening", "closed"} =>
            status \in {"listening", "closed"} \/ Open = {} \/ Open' = {},
         connection' \in [Connection -> {NULL} \cup Links],
         \A c \in Connection : Fades(connection[c], connection'[c]),
         faults' \in 0..MaxFaults,
         UNCHANGED <<kind, listed, reading, running, world, pageVars>>
  PROVE  WorkbenchInv'
  <1>0. Typed
    BY DEF WorkbenchInv
  <1>1. Typed'
    BY <1>0 DEF Typed, Reasons, Timers, reading, world, pageVars
  <1>2. board <= board' /\ \A p \in Project : version[p] <= version'[p]
    <2>1. board \in Nat /\ version \in [Project -> Nat]
      <3>1. board \in Changes /\ Changes \subseteq Nat
        BY <1>0, SessionAssumption DEF Typed, Changes
      <3> QED
        BY <1>0, <3>1, NaturalNumbers
    <2> QED
      BY <2>1 DEF world
  <1> QED
    BY <1>1, <1>2, QuietStep DEF reading, world, pageVars, PageKeeps

\* The session's life changes, and nothing of what it serves.
LEMMA LifeChange ==
  ASSUME WorkbenchInv, LaunchTypeOK', status' \in {"listening", "ready", "closing", "closed"},
         reason' \in Reasons, timers' \in SUBSET Timers,
         status' \in {"listening", "closed"} => status \in {"listening", "closed"} \/ Open = {},
         UNCHANGED <<kind, listed, shot, reading, connection, running, world, faults>>,
         UNCHANGED pageVars
  PROVE  WorkbenchInv'
  <1>1. connection' \in [Connection -> {NULL} \cup Links] /\ faults' \in 0..MaxFaults
    BY DEF WorkbenchInv, Typed
  <1>2. \A c \in Connection : Fades(connection[c], connection'[c])
    BY DEF Fades
  <1> QED
    BY <1>1, <1>2, SessionChange

\* closeSession.
LEMMA Closing ==
  ASSUME Typed, NEW why \in Reasons, CloseFor(why)
  PROVE  /\ status' \in {"ready", "listening", "closing", "closed"} /\ reason' \in Reasons
         /\ timers' \in SUBSET Timers
         /\ status' \in {"listening", "closed"} => status \in {"listening", "closed"}
         /\ status' = "closing" \/ status' = status
  BY DEF Typed, CloseFor, Reasons, Timers

\* Only the launch moves, and a report is rendered from what the projects hold.
LEMMA LaunchMoves ==
  ASSUME WorkbenchInv, LaunchTypeOK', UNCHANGED sessionVars, UNCHANGED <<visits, deliveries, page>>,
         rendered' \in {rendered, version}
  PROVE  WorkbenchInv'
  <1>0. Typed
    BY DEF WorkbenchInv
  <1>1. Typed'
    BY <1>0 DEF Typed, sessionVars, session, reading, world
  <1>2. \A c \in Connection : Fades(connection[c], connection'[c])
    BY DEF Fades, sessionVars
  <1>3. board <= board' /\ \A p \in Project : version[p] <= version'[p]
    <2>1. board \in Nat /\ version \in [Project -> Nat]
      <3>1. board \in Changes /\ Changes \subseteq Nat
        BY <1>0, SessionAssumption DEF Typed, Changes
      <3> QED
        BY <1>0, <3>1, NaturalNumbers
    <2> QED
      BY <2>1 DEF sessionVars, world
  <1>4. page' = page /\ rendered' \in {rendered, version'}
    BY DEF sessionVars, world
  <1> QED
    BY <1>1, <1>2, <1>3, <1>4, QuietStep DEF sessionVars, session, reading, world, PageKeeps

\* Every step of the launcher.
LEMMA LaunchKeeps ==
  ASSUME WorkbenchInv, LaunchStep
  PROVE  WorkbenchInv'
  <1>0. Typed /\ LaunchTypeOK
    BY DEF WorkbenchInv, Typed
  <1>1. CASE Generate
    <2>1. LaunchTypeOK'
      BY <1>0, <1>1 DEF LaunchTypeOK, Generate, Fails
    <2> QED
      BY <1>1, <2>1, LaunchMoves DEF Generate
  <1>2. CASE Stage \/ RenameReport \/ PublicationFails \/ ConfirmPublication \/ OtherPublishes
               \/ OpenFile \/ CatalogFails
    <2>1. LaunchTypeOK'
      BY <1>0, <1>2 DEF LaunchTypeOK, Stage, RenameReport, PublicationFails, ConfirmPublication,
                        OtherPublishes, OpenFile, CatalogFails, Fails
    <2> QED
      BY <1>2, <2>1, LaunchMoves DEF Stage, RenameReport, PublicationFails, ConfirmPublication,
                                     OtherPublishes, OpenFile, CatalogFails, pageVars
  <1>3. CASE StartServer
    <2>1. LaunchTypeOK'
      BY <1>0, <1>3 DEF LaunchTypeOK, StartServer
    <2>2. /\ status' \in {"listening", "ready", "closing", "closed"} /\ reason' \in Reasons
          /\ timers' \in SUBSET Timers
          /\ status' \in {"listening", "closed"} => status \in {"listening", "closed"} \/ Open = {}
      <3>1. "address-invalid" \in Reasons
        BY DEF Reasons
      <3>2. status = "listening" /\ reason \in Reasons /\ timers \in SUBSET Timers
        BY <1>0, <1>3 DEF StartServer, Listen, Typed, Reasons, Timers
      <3> QED
        BY <1>0, <1>3, <3>1, <3>2, Closing DEF StartServer, Listen, Reasons, Timers
    <2> QED
      BY <1>3, <2>1, <2>2, LifeChange DEF StartServer, Listen
  <1>4. CASE OpenChrome
    <2>1. LaunchTypeOK'
      BY <1>0, <1>4 DEF LaunchTypeOK, OpenChrome, Fails
    <2>2. CASE UNCHANGED sessionVars
      BY <1>4, <2>1, <2>2, LaunchMoves DEF OpenChrome, pageVars
    <2>3. CASE CloseSession("launcher-finalize")
      <3>1. "launcher-finalize" \in Reasons
        BY DEF Reasons
      <3> QED
        BY <1>0, <1>4, <2>1, <2>3, <3>1, Closing, LifeChange DEF OpenChrome, CloseSession
    <2> QED
      BY <1>4, <2>2, <2>3 DEF OpenChrome
  <1>5. CASE SessionOver
    <2>1. LaunchTypeOK'
      BY <1>0, <1>5 DEF LaunchTypeOK, SessionOver, Fails
    <2> QED
      BY <1>5, <2>1, LaunchMoves DEF SessionOver, pageVars
  <1>6. CASE Interrupt
    <2>1. LaunchTypeOK' /\ "sigint" \in Reasons
      BY <1>0, <1>6, LaunchStays DEF Interrupt, Reasons
    <2> QED
      BY <1>0, <1>6, <2>1, Closing, LifeChange DEF Interrupt, CloseSession
  <1> QED
    BY <1>1, <1>2, <1>3, <1>4, <1>5, <1>6 DEF LaunchStep

\* A request is answered.
LEMMA AnsweredLink ==
  ASSUME connection \in [Connection -> {NULL} \cup Links], NEW c \in Connection,
         connection[c] \in Links, NEW code, NEW body, [code |-> code, body |-> body] \in Answers,
         code = 200 => Fits(connection[c].request, body)
  PROVE  \E y \in Links :
            /\ Answered(c, code, body) = [connection EXCEPT ![c] = y]
            /\ y.request = connection[c].request /\ y.phase = "answered"
            /\ y.answer = [code |-> code, body |-> body]
  <1> PICK x : x = connection[c]
    OBVIOUS
  <1> PICK a : a = [code |-> code, body |-> body]
    OBVIOUS
  <1> PICK y : y = [x EXCEPT !.phase = "answered", !.answer = a]
    OBVIOUS
  <1>1. y \in Links /\ y.request = x.request /\ y.phase = "answered" /\ y.answer = a
    <2>1. x \in Links /\ a \in Answers /\ (a.code = 200 => Fits(x.request, a.body))
      OBVIOUS
    <2> QED
      BY <2>1 DEF Links
  <1>2. Answered(c, code, body) = [connection EXCEPT ![c] = y]
    BY DEF Answered
  <1> QED
    BY <1>1, <1>2

LEMMA AnsweredRelinks ==
  ASSUME connection \in [Connection -> {NULL} \cup Links], NEW c \in Connection,
         connection[c] \in Links, NEW code, NEW body, [code |-> code, body |-> body] \in Answers,
         code = 200 => Fits(connection[c].request, body),
         connection' = Answered(c, code, body)
  PROVE  \E y \in Links :
            /\ Relinks(c, y) /\ y.request = connection[c].request /\ y.phase = "answered"
            /\ y.answer = [code |-> code, body |-> body]
  <1> PICK y \in Links :
        /\ Answered(c, code, body) = [connection EXCEPT ![c] = y]
        /\ y.request = connection[c].request /\ y.phase = "answered"
        /\ y.answer = [code |-> code, body |-> body]
    BY AnsweredLink
  <1> QED
    BY DEF Relinks

LEMMA DestroyedFades ==
  ASSUME Typed, connection' = Destroyed
  PROVE  /\ connection' \in [Connection -> {NULL} \cup Links] /\ Open' = {}
         /\ \A c \in Connection : Fades(connection[c], connection'[c])
  <1>1. ASSUME NEW c \in Connection
        PROVE  /\ connection'[c] \in {NULL} \cup Links /\ Fades(connection[c], connection'[c])
               /\ connection'[c] # NULL => connection'[c].phase \notin {"sent", "waiting", "answered"}
    <2>1. CASE c \in Open
      <3> PICK y : y = [connection[c] EXCEPT !.phase = "cut"]
        OBVIOUS
      <3>1. connection'[c] = y /\ connection[c] # NULL
        BY <2>1 DEF Destroyed, Open
      <3>2. connection[c] \in Links
        BY <3>1 DEF Typed
      <3>3. y \in Links /\ y.request = connection[c].request /\ y.phase = "cut"
        BY <3>2, LinkLabelled
      <3> QED
        BY <3>1, <3>3 DEF Fades, Ok
    <2>2. CASE c \notin Open
      BY <2>2 DEF Destroyed, Open, Typed, Fades
    <2> QED
      BY <2>1, <2>2
  <1> QED
    BY <1>1 DEF Destroyed, Open

\* The session ends, at a deadline or because nobody is left.
LEMMA EndsKeep ==
  ASSUME WorkbenchInv, UNCHANGED <<pageVars, launchVars>>,
         ServerClosed \/ GraceEnds \/ HardDeadline \/ IdleEnds \/ LifetimeEnds
  PROVE  WorkbenchInv'
  <1>0. Typed /\ LaunchTypeOK' /\ reason \in Reasons /\ timers \in SUBSET Timers
        /\ status \in {"listening", "ready", "closing", "closed"} /\ faults \in 0..MaxFaults
    BY LaunchStays DEF WorkbenchInv, Typed, Reasons, Timers
  <1>1. CASE ServerClosed
    BY <1>0, <1>1, LifeChange DEF ServerClosed, FinalizeClosed
  <1>2. CASE IdleEnds \/ LifetimeEnds
    <2>1. "idle" \in Reasons /\ "absolute-lifetime" \in Reasons
      BY DEF Reasons
    <2> QED
      BY <1>0, <1>2, <2>1, Closing, LifeChange DEF IdleEnds, LifetimeEnds
  <1>3. CASE GraceEnds
    BY <1>0, <1>3, DestroyedFades, SessionChange DEF GraceEnds
  <1>4. CASE HardDeadline
    <2>1. status' = "closed" /\ timers' = {} /\ connection' = Destroyed
      BY <1>4 DEF HardDeadline, FinalizeClosed
    <2> QED
      BY <1>0, <1>4, <2>1, DestroyedFades, SessionChange DEF HardDeadline
  <1> QED
    BY <1>1, <1>2, <1>3, <1>4

\* A request is refused, its response is finished, or its connection is lost.
LEMMA ResponsesKeep ==
  ASSUME WorkbenchInv, UNCHANGED <<pageVars, launchVars>>, NEW c \in Connection,
         Refuse(c) \/ Finish(c) \/ Lose(c)
  PROVE  WorkbenchInv'
  <1>0. Typed /\ LaunchTypeOK' /\ reason \in Reasons /\ timers \in SUBSET Timers
        /\ status \in {"listening", "ready", "closing", "closed"} /\ faults \in 0..MaxFaults
        /\ connection \in [Connection -> {NULL} \cup Links]
    BY LaunchStays DEF WorkbenchInv, Typed, Reasons, Timers
  <1>1. CASE Refuse(c)
    <2>1. connection[c] \in Links /\ connection[c].phase = "sent" /\ connection[c] # NULL
      BY <1>0, <1>1 DEF Refuse, Requests
    <2>2. [code |-> 404, body |-> NULL] \in Answers
      BY DEF Answers
    <2> PICK y \in Links :
          /\ Relinks(c, y) /\ y.request = connection[c].request /\ y.phase = "answered"
          /\ y.answer = [code |-> 404, body |-> NULL]
      BY <1>0, <1>1, <2>1, <2>2, AnsweredRelinks DEF Refuse
    <2>4. Fades(connection[c], y)
      BY <2>1 DEF Fades, Ok
    <2>5. connection' \in [Connection -> {NULL} \cup Links]
      BY <1>0, Relinking
    <2>6. \A d \in Connection : Fades(connection[d], connection'[d])
      BY <1>0, <2>4, OneFades
    <2> QED
      BY <1>0, <1>1, <2>5, <2>6, SessionChange DEF Refuse, session
  <1>2. CASE Finish(c)
    <2>1. connection[c] \in Links /\ connection[c].phase = "answered" /\ connection[c] # NULL
      BY <1>0, <1>2 DEF Finish
    <2> PICK y : y = [connection[c] EXCEPT !.phase = "delivered"]
      OBVIOUS
    <2>2. y \in Links /\ y.request = connection[c].request /\ y.phase = "delivered"
          /\ y.answer = connection[c].answer
      BY <2>1, LinkDelivered
    <2>3. Relinks(c, y) /\ Fades(connection[c], y)
      BY <1>2, <2>1, <2>2 DEF Finish, Relinks, Fades, Ok
    <2>4. connection' \in [Connection -> {NULL} \cup Links]
      BY <1>0, <2>2, <2>3, Relinking
    <2>5. \A d \in Connection : Fades(connection[d], connection'[d])
      BY <1>0, <2>2, <2>3, OneFades
    <2>6. /\ status' \in {"listening", "ready", "closing", "closed"} /\ reason' \in Reasons
          /\ timers' \in SUBSET Timers /\ shot' \in {shot, "serving", "consumed", "aborted"}
          /\ status' \in {"listening", "closed"} => status \in {"listening", "closed"}
      <3>1. "served-once" \in Reasons /\ "idle" \in Timers
        BY DEF Reasons, Timers
      <3> QED
        BY <1>0, <1>2, <3>1, Closing DEF Finish, ScheduleIdle
    <2> QED
      BY <1>0, <1>2, <2>4, <2>5, <2>6, SessionChange DEF Finish
  <1>3. CASE Lose(c)
    <2>1. connection[c] \in Links /\ connection[c] # NULL
      BY <1>0, <1>3 DEF Lose, Open
    <2> PICK y : y = [connection[c] EXCEPT !.phase = "cut"]
      OBVIOUS
    <2>2. y \in Links /\ y.request = connection[c].request /\ y.phase = "cut"
      BY <2>1, LinkLabelled
    <2>3. Relinks(c, y) /\ Fades(connection[c], y)
      BY <1>3, <2>1, <2>2 DEF Lose, Relinks, Fades, Ok
    <2>4. connection' \in [Connection -> {NULL} \cup Links]
      BY <1>0, <2>2, <2>3, Relinking
    <2>5. \A d \in Connection : Fades(connection[d], connection'[d])
      BY <1>0, <2>2, <2>3, OneFades
    <2>6. /\ status' \in {"listening", "ready", "closing", "closed"} /\ reason' \in Reasons
          /\ timers' \in SUBSET Timers /\ shot' \in {shot, "serving", "consumed", "aborted"}
          /\ status' \in {"listening", "closed"} => status \in {"listening", "closed"}
      <3>1. "delivery-aborted" \in Reasons
        BY DEF Reasons
      <3> QED
        BY <1>0, <1>3, <3>1, Closing DEF Lose, session
    <2>7. faults' \in 0..MaxFaults
      BY <1>0, <1>3, SessionAssumption DEF Lose
    <2> QED
      BY <1>0, <1>3, <2>4, <2>5, <2>6, <2>7, SessionChange DEF Lose
  <1> QED
    BY <1>1, <1>2, <1>3

-----------------------------------------------------------------------------
(* The readings of a project. *)

\* A request for a state, and its record.
LEMMA StateRequest ==
  ASSUME NEW x \in Links, x.request.to = "state"
  PROVE  x.request \in StateAsks
  BY DEF Links, Asked, Page, TicketAsks, PreviewAsks, ApplyAsks

\* A reading answers the request with 204, or with what was read.
LEMMA StateAnswerLink ==
  ASSUME connection \in [Connection -> {NULL} \cup Links], NEW c \in Connection,
         connection[c] \in Links, connection[c].request.to = "state",
         NEW q \in Project, NEW v \in Version, NEW payload, payload.project = q, payload.version = v
  PROVE  \E y \in Links :
            /\ StateAnswer(c, payload) = [connection EXCEPT ![c] = y]
            /\ y.request = connection[c].request /\ y.phase = "answered"
            /\ Ok(y) => y.answer.body.project = q /\ y.answer.body.version = v
  <1>1. connection[c].request \in StateAsks
    BY StateRequest
  <1>2. CASE v = connection[c].request.digest
    <2>1. [code |-> 204, body |-> NULL] \in Answers
      BY DEF Answers
    <2> PICK y \in Links :
          /\ Answered(c, 204, NULL) = [connection EXCEPT ![c] = y]
          /\ y.request = connection[c].request /\ y.phase = "answered"
          /\ y.answer = [code |-> 204, body |-> NULL]
      BY <2>1, AnsweredLink
    <2>2. StateAnswer(c, payload) = Answered(c, 204, NULL)
      BY <1>2 DEF StateAnswer
    <2>3. ~Ok(y)
      BY DEF Ok
    <2> QED
      BY <2>2, <2>3
  <1>3. CASE v # connection[c].request.digest
    <2> PICK body : body = [project |-> q, version |-> v]
      OBVIOUS
    <2>1. body \in Readings /\ body.project = q /\ body.version = v
      BY DEF Readings
    <2>2. [code |-> 200, body |-> body] \in Answers
      BY <2>1 DEF Answers
    <2>3. Fits(connection[c].request, body)
      BY <1>1, <2>1 DEF Fits, StateAsks, PreviewAsks, ApplyAsks
    <2> PICK y \in Links :
          /\ Answered(c, 200, body) = [connection EXCEPT ![c] = y]
          /\ y.request = connection[c].request /\ y.phase = "answered"
          /\ y.answer = [code |-> 200, body |-> body]
      BY <2>2, <2>3, AnsweredLink
    <2>4. StateAnswer(c, payload) = Answered(c, 200, body)
      BY <1>3 DEF StateAnswer
    <2>5. y.answer.body = body
      OBVIOUS
    <2>6. StateAnswer(c, payload) = [connection EXCEPT ![c] = y]
      BY <2>4
    <2>7. y.answer.body.project = q /\ y.answer.body.version = v
      BY <2>1, <2>5
    <2> QED
      BY <2>6, <2>7
  <1> QED
    BY <1>2, <1>3

\* The request is answered with version v of project q.
Serves(x, y, q, v) ==
    /\ x # NULL /\ x.request.to = "state" /\ y.request = x.request /\ y.phase = "answered"
    /\ Ok(y) => y.answer.body.project = q /\ y.answer.body.version = v

LEMMA NumbersGrow ==
  ASSUME Typed, UNCHANGED world
  PROVE  board <= board' /\ \A p \in Project : version[p] <= version'[p]
  <1>1. board \in Changes /\ Changes \subseteq Nat
    BY SessionAssumption DEF Typed, Changes
  <1>2. board \in Nat /\ version \in [Project -> Nat]
    BY <1>1, NaturalNumbers
  <1> QED
    BY <1>2 DEF world

\* A reading that was kept, or that completes, serves requests.
LEMMA ReadingServed ==
  ASSUME WorkbenchInv, Typed', NEW q \in Project, NEW v \in Nat,
         status' = "ready" \/ (status' = status /\ connection' = connection),
         \A d \in Connection :
            Fades(connection[d], connection'[d]) \/ Serves(connection[d], connection'[d], q, v),
         \/ last' = last /\ inFlight' = inFlight /\ last # NULL /\ last.project = q /\ last.version = v
         \/ /\ inFlight' = NULL /\ inFlight # NULL /\ inFlight.version # NULL
            /\ inFlight.project = q /\ inFlight.version = v
            /\ last'.project = q /\ last'.version = v,
         deliveries # 0,
         UNCHANGED <<kind, shot, running, world, pageVars>>
  PROVE  WorkbenchInv'
  <1>0. /\ Typed /\ DeliveredOnce /\ NothingBefore /\ ClosedEmpty /\ ReadingsOrdered /\ TicketsOnce
        /\ page' = page /\ published' = published /\ version' = version /\ rendered' = rendered
        /\ deliveries' = deliveries /\ visits' = visits
    BY DEF WorkbenchInv, world, pageVars
  <1>1. FadesFor("page") /\ FadesFor("tickets") /\ ConnectionsStay
    BY DEF FadesFor, Fades, Serves, For, Ok, ConnectionsStay
  <1>2. DeliveredOnce'
    BY <1>0, <1>1, DeliveredQuiet
  <1>3. NothingBefore'
    BY <1>0, BeforeQuiet
  <1>4. ClosedEmpty'
    BY <1>0, ReadyQuiet DEF ClosedEmpty, Open
  <1>5. TicketsOnce'
    <2>1. board <= board'
      BY <1>0, NumbersGrow
    <2>2. page' # NULL => page # NULL /\ page'.clicks = page.clicks /\ page'.preview \in {page.preview, NULL}
      BY <1>0
    <2> QED
      BY <1>0, <1>1, <2>1, <2>2, TicketsQuiet
  <1>6. ReadingsOrdered'
    <2>1. Between(q, v)
      BY <1>0 DEF ReadingsOrdered
    <2>2. \A p, n : Between(p, n)' <=> Between(p, n)
      BY <1>0 DEF Between
    <2>3. last' # NULL => last'.project \in Project /\ last'.version \in Nat /\ Between(last.project, last.version)'
      BY <1>0, <2>1, <2>2, NaturalNumbers DEF ReadingsOrdered
    <2>4. ASSUME inFlight' # NULL, inFlight'.version # NULL
          PROVE  /\ Between(inFlight.project, inFlight.version)'
                 /\ last' # NULL /\ last'.project = inFlight'.project => last'.version <= inFlight'.version
      BY <1>0, <2>2, <2>4 DEF ReadingsOrdered
    <2>5. ASSUME NEW d \in Connection, For(connection[d], "state")'
          PROVE  page' # NULL /\ page'.poll = d
      BY <1>0, <2>5 DEF ReadingsOrdered, Fades, Serves, For
    <2>6. ASSUME NEW d \in Connection, For(connection[d], "state")', Ok(connection[d])',
                 NEW p, p = connection'[d].answer.body.project,
                 NEW n, n = connection'[d].answer.body.version
          PROVE  /\ Between(p, n)'
                 /\ last' # NULL /\ last'.project = p => n <= last'.version
                 /\ inFlight' # NULL /\ inFlight'.version # NULL /\ inFlight'.project = p =>
                       n <= inFlight'.version
      <3>1. CASE Serves(connection[d], connection'[d], q, v)
        <4>1. p = q /\ n = v
          BY <2>6, <3>1 DEF Serves
        <4> QED
          BY <1>0, <2>1, <2>2, <4>1 DEF ReadingsOrdered
      <3>2. CASE Fades(connection[d], connection'[d])
        <4>1. /\ For(connection[d], "state") /\ Ok(connection[d])
              /\ connection'[d].answer = connection[d].answer
          BY <2>6, <3>2 DEF Fades, For, Ok
        <4>2. /\ Between(p, n)
              /\ last # NULL /\ last.project = p => n <= last.version
              /\ inFlight # NULL /\ inFlight.version # NULL /\ inFlight.project = p =>
                    n <= inFlight.version
          BY <1>0, <2>6, <4>1 DEF ReadingsOrdered
        <4> QED
          BY <2>2, <4>2
      <3> QED
        BY <3>1, <3>2
    <2>7. \A p \in Project : rendered'[p] <= version'[p] /\ (page' # NULL => page'.shown[p] <= version'[p])
      BY <1>0 DEF ReadingsOrdered
    <2> QED
      BY <2>3, <2>4, <2>5, <2>6, <2>7 DEF ReadingsOrdered
  <1> QED
    BY <1>2, <1>3, <1>4, <1>5, <1>6 DEF WorkbenchInv

\* The server changes its timers, its readings and its answers.
LEMMA ServerTyped ==
  ASSUME Typed, LaunchTypeOK', timers' \in SUBSET Timers, faults' \in 0..MaxFaults,
         connection' \in [Connection -> {NULL} \cup Links],
         inFlight' \in {NULL} \cup [project : Project, version : Version \cup {NULL}],
         last' \in {NULL} \cup [project : Project, version : Version, recent : BOOLEAN],
         UNCHANGED <<kind, listed, status, shot, reason, running, world, pageVars>>
  PROVE  Typed'
  BY DEF Typed, Timers, world, pageVars

\* It reads nothing and answers nothing with 200.
LEMMA ServerQuiet ==
  ASSUME WorkbenchInv, Typed', \A d \in Connection : Fades(connection[d], connection'[d]),
         inFlight' = inFlight \/ inFlight' = NULL \/ (inFlight'.version = NULL /\ deliveries # 0),
         \/ last' = last
         \/ /\ last # NULL
            /\ last'.project = last.project /\ last'.version = last.version,
         UNCHANGED <<kind, listed, status, shot, running, world, pageVars>>
  PROVE  WorkbenchInv'
  <1>0. Typed
    BY DEF WorkbenchInv
  <1>1. board <= board' /\ \A p \in Project : version[p] <= version'[p]
    BY <1>0, NumbersGrow
  <1>2. ClosedEmpty' \/ status' \in {"listening", "closed"}
    BY DEF ClosedEmpty
  <1> QED
    BY <1>1, QuietStep DEF world, pageVars, PageKeeps

\* A page for a state was delivered before it is asked for.
LEMMA DeliveredBefore ==
  ASSUME WorkbenchInv,
         \/ inFlight # NULL
         \/ running # {}
         \/ page # NULL
         \/ \E c \in Connection : connection[c] # NULL /\ connection[c].request.to # "page"
  PROVE  deliveries # 0
  BY DEF WorkbenchInv, NothingBefore

\* A state is asked for.
LEMMA AdmitStateKeeps ==
  ASSUME WorkbenchInv, UNCHANGED <<pageVars, launchVars>>, NEW c \in Connection, AdmitState(c)
  PROVE  WorkbenchInv'
  <1> PICK p : p = connection[c].request.project
    OBVIOUS
  <1>0. /\ Typed /\ LaunchTypeOK' /\ connection \in [Connection -> {NULL} \cup Links]
        /\ connection[c] \in Links /\ connection[c] # NULL /\ connection[c].phase = "sent"
        /\ connection[c].request.to = "state"
        /\ faults' \in 0..MaxFaults /\ timers' \in SUBSET Timers
        /\ UNCHANGED <<kind, listed, status, shot, reason, last, running, world>>
    BY LaunchStays DEF WorkbenchInv, Typed, AdmitState, Requests, ScheduleIdle, Timers
  <1>1. p \in Project /\ deliveries # 0
    BY <1>0, StateRequest, DeliveredBefore DEF StateAsks
  <1>2. CASE last # NULL /\ last.project = p /\ connection' = StateAnswer(c, last) /\ inFlight' = inFlight
    <2>1. last.project \in Project /\ last.version \in Version /\ last.version \in Nat
      BY <1>0, <1>2, NaturalNumbers DEF Typed
    <2> PICK y \in Links :
          /\ StateAnswer(c, last) = [connection EXCEPT ![c] = y]
          /\ y.request = connection[c].request /\ y.phase = "answered"
          /\ Ok(y) => y.answer.body.project = last.project /\ y.answer.body.version = last.version
      BY <1>0, <2>1, StateAnswerLink
    <2>2. Relinks(c, y) /\ connection' \in [Connection -> {NULL} \cup Links]
      BY <1>0, <1>2, Relinking DEF Relinks
    <2>3. Typed'
      BY <1>0, <1>2, <2>2, ServerTyped DEF Typed
    <2>4. connection'[c] = y /\ \A d \in Connection : d # c => connection'[d] = connection[d]
      BY <1>0, <2>2, Relinking
    <2>5. \A d \in Connection :
             \/ Fades(connection[d], connection'[d])
             \/ Serves(connection[d], connection'[d], last.project, last.version)
      BY <1>0, <2>4 DEF Fades, Serves
    <2>6. status' = "ready"
      BY DEF AdmitState, Ready
    <2> QED
      BY <1>0, <1>1, <1>2, <2>1, <2>3, <2>5, <2>6, ReadingServed
  <1>3. CASE connection' = Answered(c, 503, NULL) /\ inFlight' = inFlight
    <2>1. [code |-> 503, body |-> NULL] \in Answers
      BY DEF Answers
    <2> PICK y \in Links :
          /\ Relinks(c, y) /\ y.request = connection[c].request /\ y.phase = "answered"
          /\ y.answer = [code |-> 503, body |-> NULL]
      BY <1>0, <1>3, <2>1, AnsweredRelinks
    <2>2. Fades(connection[c], y)
      BY <1>0 DEF Fades, Ok
    <2>3. Typed'
      BY <1>0, <1>3, Relinking, ServerTyped DEF Typed
    <2> QED
      BY <1>0, <1>3, <2>2, <2>3, OneFades, ServerQuiet
  <1>4. CASE /\ connection' = [connection EXCEPT ![c].phase = "waiting"]
             /\ inFlight' = inFlight \/ inFlight' = [project |-> p, version |-> NULL]
    <2> PICK y : y = [connection[c] EXCEPT !.phase = "waiting"]
      OBVIOUS
    <2>1. y \in Links /\ y.request = connection[c].request /\ y.phase = "waiting"
      BY <1>0, LinkLabelled
    <2>2. Relinks(c, y) /\ Fades(connection[c], y)
      BY <1>0, <1>4, <2>1 DEF Relinks, Fades, Ok
    <2>3. /\ inFlight' \in {NULL} \cup [project : Project, version : Version \cup {NULL}]
          /\ inFlight' = inFlight \/ inFlight'.version = NULL
      BY <1>0, <1>1, <1>4 DEF Typed
    <2>4. Typed'
      BY <1>0, <2>1, <2>2, <2>3, Relinking, ServerTyped DEF Typed
    <2> QED
      BY <1>0, <1>1, <2>1, <2>2, <2>3, <2>4, OneFades, ServerQuiet
  <1> QED
    BY <1>2, <1>3, <1>4 DEF AdmitState

\* A reading fails, or is no longer recent.
LEMMA ReadingEnds ==
  ASSUME WorkbenchInv, UNCHANGED <<pageVars, launchVars>>, RefreshFails \/ SecondPasses
  PROVE  WorkbenchInv'
  <1>0. /\ Typed /\ LaunchTypeOK' /\ connection \in [Connection -> {NULL} \cup Links]
        /\ timers \in SUBSET Timers /\ faults \in 0..MaxFaults
    BY LaunchStays DEF WorkbenchInv, Typed, Timers
  <1>1. CASE RefreshFails
    <2>1. ASSUME NEW d \in Connection
          PROVE  connection'[d] \in {NULL} \cup Links /\ Fades(connection[d], connection'[d])
      <3>0. connection[d] \in {NULL} \cup Links
        BY <1>0
      <3>1. CASE d \notin Waiting
        BY <1>1, <3>0, <3>1 DEF RefreshFails, Fades
      <3>2. CASE d \in Waiting /\ Ready
        <4>1. connection[d] \in Links /\ connection[d].phase = "waiting" /\ connection[d] # NULL
          BY <1>0, <3>2 DEF Waiting
        <4>2. [code |-> 503, body |-> NULL] \in Answers
          BY DEF Answers
        <4> PICK y \in Links :
              /\ Answered(d, 503, NULL) = [connection EXCEPT ![d] = y]
              /\ y.request = connection[d].request /\ y.phase = "answered"
              /\ y.answer = [code |-> 503, body |-> NULL]
          BY <1>0, <4>1, <4>2, AnsweredLink
        <4>3. connection'[d] = y
          BY <1>0, <1>1, <3>2 DEF RefreshFails
        <4> QED
          BY <4>1, <4>3 DEF Fades, Ok
      <3>3. CASE d \in Waiting /\ ~Ready
        <4>1. connection[d] \in Links /\ connection[d] # NULL
          BY <1>0, <3>3 DEF Waiting
        <4> PICK y : y = [connection[d] EXCEPT !.phase = "cut"]
          OBVIOUS
        <4>2. y \in Links /\ y.request = connection[d].request /\ y.phase = "cut"
          BY <4>1, LinkLabelled
        <4>3. connection'[d] = y
          BY <1>0, <1>1, <3>3 DEF RefreshFails
        <4> QED
          BY <4>1, <4>2, <4>3 DEF Fades, Ok
      <3> QED
        BY <3>1, <3>2, <3>3
    <2>2. connection' \in [Connection -> {NULL} \cup Links]
      BY <1>1, <2>1 DEF RefreshFails
    <2>3. faults' \in 0..MaxFaults
      BY <1>0, <1>1, SessionAssumption DEF RefreshFails
    <2>4. Typed'
      BY <1>0, <1>1, <2>2, <2>3, ServerTyped DEF RefreshFails, session, Typed
    <2> QED
      BY <1>1, <2>1, <2>4, ServerQuiet DEF RefreshFails, session
  <1>2. CASE SecondPasses
    <2>1. /\ last' \in [project : Project, version : Version, recent : BOOLEAN]
          /\ last'.project = last.project /\ last'.version = last.version /\ last # NULL
      BY <1>0, <1>2 DEF SecondPasses, Typed
    <2>3. \A d \in Connection : Fades(connection[d], connection'[d])
      BY <1>2 DEF SecondPasses, Fades
    <2>4. Typed'
      BY <1>0, <1>2, <2>1, ServerTyped DEF SecondPasses, session, Typed
    <2> QED
      BY <1>2, <2>1, <2>3, <2>4, ServerQuiet DEF SecondPasses, session
  <1> QED
    BY <1>1, <1>2

\* A project is read.
LEMMA RefreshReadsKeeps ==
  ASSUME WorkbenchInv, UNCHANGED <<pageVars, launchVars>>, RefreshReads
  PROVE  WorkbenchInv'
  <1> PICK q : q = inFlight.project
    OBVIOUS
  <1>0. /\ Typed /\ LaunchTypeOK' /\ timers \in SUBSET Timers /\ inFlight # NULL /\ deliveries # 0
        /\ DeliveredOnce /\ NothingBefore /\ ClosedEmpty /\ ReadingsOrdered /\ TicketsOnce
        /\ page' = page /\ version' = version /\ rendered' = rendered /\ last' = last
        /\ connection' = connection
    BY LaunchStays, DeliveredBefore DEF WorkbenchInv, Typed, Timers, RefreshReads, pageVars, world
  <1>1. /\ q \in Project /\ version[q] \in Nat /\ version[q] \in Version
        /\ inFlight' \in [project : Project, version : Version \cup {NULL}]
        /\ inFlight'.project = q /\ inFlight'.version = version[q]
    BY <1>0, NaturalNumbers DEF Typed, RefreshReads
  <1>2. Typed'
    BY <1>0, <1>1, ServerTyped DEF RefreshReads, session, Typed
  <1>3. DeliveredOnce' /\ ClosedEmpty'
    BY <1>0 DEF RefreshReads, session, pageVars, DeliveredOnce, Carries, For, Ok, ClosedEmpty, Open
  <1>4. NothingBefore'
    BY <1>0 DEF NothingBefore, pageVars
  <1>5. TicketsOnce'
    <2>1. FadesFor("tickets") /\ ConnectionsStay
      BY <1>0 DEF FadesFor, For, Ok, ConnectionsStay
    <2>2. board <= board' /\ running' = running /\ published' = published
      BY <1>0, NumbersGrow DEF RefreshReads, world
    <2> QED
      BY <1>0, <1>2, <2>1, <2>2, TicketsQuiet
  <1>6. ReadingsOrdered'
    <2>1. /\ \A p \in Project : version[p] \in Nat /\ (page # NULL => page.shown[p] \in Nat)
          /\ last # NULL => last.version \in Nat /\ last.project \in Project
      BY <1>0, NaturalNumbers
    <2>2. \A p, n : Between(p, n)' <=> Between(p, n)
      BY <1>0 DEF Between
    <2>3. Between(q, version[q])
      BY <1>0, <1>1, <2>1 DEF Between, ReadingsOrdered
    <2>4. ASSUME NEW c \in Connection, For(connection[c], "state"), Ok(connection[c])
          PROVE  connection[c].answer.body.project = q => connection[c].answer.body.version <= version[q]
      BY <1>0, <2>4 DEF ReadingsOrdered, Between
    <2>5. last # NULL /\ last.project = q => last.version <= version[q]
      BY <1>0 DEF ReadingsOrdered, Between
    <2> QED
      BY <1>0, <1>1, <2>2, <2>3, <2>4, <2>5 DEF ReadingsOrdered, For, Ok
  <1> QED
    BY <1>3, <1>4, <1>5, <1>6, <1>2 DEF WorkbenchInv

\* A reading completes, and serves every request that waits for it.
LEMMA RefreshCompletesKeeps ==
  ASSUME WorkbenchInv, UNCHANGED <<pageVars, launchVars>>, RefreshCompletes
  PROVE  WorkbenchInv'
  <1> PICK q, v : q = inFlight.project /\ v = inFlight.version
    OBVIOUS
  <1>0. /\ Typed /\ LaunchTypeOK' /\ connection \in [Connection -> {NULL} \cup Links]
        /\ timers \in SUBSET Timers /\ inFlight # NULL /\ inFlight.version # NULL /\ deliveries # 0
    BY LaunchStays, DeliveredBefore DEF WorkbenchInv, Typed, Timers, RefreshCompletes
  <1>1. q \in Project /\ v \in Version /\ v \in Nat
    BY <1>0, NaturalNumbers DEF Typed
  <1>2. ASSUME NEW d \in Connection
        PROVE  /\ connection'[d] \in {NULL} \cup Links
               /\ \/ Fades(connection[d], connection'[d])
                  \/ Serves(connection[d], connection'[d], q, v)
    <2>1. CASE d \in Waiting /\ Ready
      <3>1. connection[d] \in Links /\ connection[d] # NULL /\ connection[d].request.to = "state"
        BY <1>0, <2>1 DEF Waiting
      <3> PICK y \in Links :
            /\ StateAnswer(d, inFlight) = [connection EXCEPT ![d] = y]
            /\ y.request = connection[d].request /\ y.phase = "answered"
            /\ Ok(y) => y.answer.body.project = q /\ y.answer.body.version = v
        BY <1>0, <1>1, <3>1, StateAnswerLink
      <3>2. connection'[d] = y
        BY <1>0, <2>1 DEF RefreshCompletes
      <3> QED
        BY <3>1, <3>2 DEF Serves
    <2>2. CASE ~(d \in Waiting /\ Ready)
      BY <1>0, <2>2 DEF RefreshCompletes, Fades
    <2> QED
      BY <2>1, <2>2
  <1>3. connection' \in [Connection -> {NULL} \cup Links]
    BY <1>2 DEF RefreshCompletes
  <1>4. /\ last' \in [project : Project, version : Version, recent : BOOLEAN]
        /\ last'.project = q /\ last'.version = v /\ inFlight' = NULL
    BY <1>1 DEF RefreshCompletes
  <1>5. Typed'
    BY <1>0, <1>3, <1>4, ServerTyped DEF RefreshCompletes, session, Typed
  <1>6. status' = "ready" \/ (status' = status /\ connection' = connection)
    <2>1. CASE Ready
      BY <2>1 DEF Ready, RefreshCompletes, session
    <2>2. CASE ~Ready
      BY <1>0, <2>2 DEF RefreshCompletes, session
    <2> QED
      BY <2>1, <2>2
  <1> QED
    BY <1>0, <1>1, <1>2, <1>4, <1>5, <1>6, ReadingServed DEF RefreshCompletes, session

\* A page is asked for, and answered.
LEMMA AdmitPageKeeps ==
  ASSUME WorkbenchInv, UNCHANGED <<pageVars, launchVars>>, NEW c \in Connection, AdmitPage(c)
  PROVE  WorkbenchInv'
  <1>0. /\ Typed /\ LaunchTypeOK' /\ connection \in [Connection -> {NULL} \cup Links]
        /\ connection[c] \in Links /\ connection[c] # NULL /\ connection[c].phase = "sent"
        /\ connection[c].request.to = "page"
        /\ DeliveredOnce /\ NothingBefore /\ ClosedEmpty /\ ReadingsOrdered /\ TicketsOnce
        /\ page' = page /\ version' = version /\ rendered' = rendered /\ last' = last
        /\ visits' = visits /\ deliveries' = deliveries /\ published' = published
        /\ kind' = kind /\ inFlight' = inFlight /\ running' = running /\ status' = "ready"
    BY LaunchStays DEF WorkbenchInv, Typed, AdmitPage, Requests, pageVars, world, reading, Ready
  <1>1. [code |-> 200, body |-> NULL] \in Answers /\ Fits(connection[c].request, NULL)
    BY <1>0 DEF Answers, Fits, StateAsks, PreviewAsks, ApplyAsks
  <1> PICK y \in Links :
        /\ Relinks(c, y) /\ y.request = connection[c].request /\ y.phase = "answered"
        /\ y.answer = [code |-> 200, body |-> NULL]
    BY <1>0, <1>1, AnsweredRelinks DEF AdmitPage
  <1>2. /\ connection' \in [Connection -> {NULL} \cup Links] /\ connection'[c] = y
        /\ \A d \in Connection : d # c => connection'[d] = connection[d]
    BY <1>0, Relinking
  <1>3. Typed'
    <2>1. shot' \in {NULL, "available", "serving", "consumed", "aborted"}
      BY <1>0 DEF AdmitPage, Typed
    <2> QED
      BY <1>0, <1>2, <2>1 DEF Typed, AdmitPage, world, reading, pageVars
  <1>4. FadesFor("state") /\ FadesFor("tickets") /\ ConnectionsStay
    BY <1>0, <1>2, OthersFade DEF For, ConnectionsStay
  <1>5. board <= board' /\ \A p \in Project : version[p] <= version'[p]
    BY <1>0, NumbersGrow DEF AdmitPage
  <1>6. DeliveredOnce'
    <2>1. \A d \in Connection : d # c => (Carries(d)' <=> Carries(d))
      BY <1>0, <1>2 DEF Carries, For, Ok
    <2>2. CASE kind = "oneShot"
      <3>1. deliveries = 0 /\ shot' = "serving" /\ \A d \in Connection : ~Carries(d)
        BY <1>0, <2>2 DEF DeliveredOnce, AdmitPage
      <3> QED
        BY <1>0, <2>1, <2>2, <3>1, SessionAssumption DEF DeliveredOnce
    <2>3. CASE kind # "oneShot"
      <3>1. Carries(c)
        BY <1>0, <2>3 DEF Carries, For
      <3> QED
        BY <1>0, <2>1, <2>3, <3>1 DEF DeliveredOnce
    <2> QED
      BY <2>2, <2>3
  <1>7. NothingBefore'
    BY <1>0, <1>2, BeforeQuiet
  <1>8. ReadingsOrdered'
    BY <1>0, <1>3, <1>4, <1>5, ReadingsQuiet DEF PageKeeps
  <1>9. TicketsOnce'
    BY <1>0, <1>3, <1>4, <1>5, TicketsQuiet
  <1> QED
    BY <1>0, <1>3, <1>6, <1>7, <1>8, <1>9, ReadyQuiet DEF WorkbenchInv

-----------------------------------------------------------------------------
(* Tickets. *)

\* A request about tickets is a preview or a confirmation.
LEMMA TicketRequest ==
  ASSUME NEW x \in Links, x.request.to = "tickets"
  PROVE  /\ x.request \in TicketAsks
         /\ x.request \in PreviewAsks <=> x.request.action = "preview"
         /\ x.request \in ApplyAsks <=> x.request.action = "apply"
  BY DEF Links, Asked, Page, StateAsks, TicketAsks, PreviewAsks, ApplyAsks

LEMMA HandlerRequest ==
  ASSUME NEW h \in Handlers
  PROVE  /\ h.request \in TicketAsks /\ h.request.to = "tickets"
         /\ h.request \in PreviewAsks <=> h.request.action = "preview"
         /\ h.request \in ApplyAsks <=> h.request.action = "apply"
  BY DEF Handlers, TicketAsks, PreviewAsks, ApplyAsks

\* A handler is called for a request that was sent.
LEMMA AdmitTicketsKeeps ==
  ASSUME WorkbenchInv, UNCHANGED <<pageVars, launchVars>>, NEW c \in Connection, AdmitTickets(c)
  PROVE  WorkbenchInv'
  <1> PICK h : h = [connection |-> c, request |-> connection[c].request, step |-> "called",
                    output |-> NULL]
    OBVIOUS
  <1> PICK y : y = [connection[c] EXCEPT !.phase = "waiting"]
    OBVIOUS
  <1>0. /\ Typed /\ LaunchTypeOK' /\ connection \in [Connection -> {NULL} \cup Links]
        /\ connection[c] \in Links /\ connection[c] # NULL /\ connection[c].phase = "sent"
        /\ connection[c].request.to = "tickets"
        /\ DeliveredOnce /\ NothingBefore /\ ClosedEmpty /\ ReadingsOrdered /\ TicketsOnce
        /\ page' = page /\ version' = version /\ rendered' = rendered /\ last' = last
        /\ visits' = visits /\ deliveries' = deliveries /\ published' = published
        /\ kind' = kind /\ inFlight' = inFlight /\ shot' = shot /\ status' = "ready"
    BY LaunchStays DEF WorkbenchInv, Typed, AdmitTickets, Requests, pageVars, world, reading, Ready
  <1>1. deliveries # 0
    BY <1>0, DeliveredBefore
  <1>2. y \in Links /\ y.request = connection[c].request /\ y.phase = "waiting"
    BY <1>0, LinkLabelled
  <1>3. Relinks(c, y) /\ Fades(connection[c], y)
    BY <1>0, <1>2 DEF AdmitTickets, Relinks, Fades, Ok
  <1>4. /\ connection' \in [Connection -> {NULL} \cup Links] /\ connection'[c] = y
        /\ \A d \in Connection : d # c => connection'[d] = connection[d]
        /\ \A d \in Connection : Fades(connection[d], connection'[d])
    BY <1>0, <1>2, <1>3, Relinking, OneFades
  <1>5. h \in Handlers /\ h.connection = c /\ h.request = connection[c].request /\ h.step = "called"
    <2>1. connection[c].request \in TicketAsks
      BY <1>0, TicketRequest
    <2> QED
      BY <2>1 DEF Handlers
  <1>6. running' = running \cup {h}
    BY DEF AdmitTickets
  <1>7. Typed'
    BY <1>0, <1>4, <1>5, <1>6 DEF Typed, AdmitTickets, ScheduleIdle, world, reading, pageVars
  <1>8. FadesFor("page") /\ FadesFor("state") /\ FadesFor("tickets")
    BY <1>4, AllFade
  <1>9. board <= board' /\ \A p \in Project : version[p] <= version'[p]
    BY <1>0, NumbersGrow DEF AdmitTickets
  <1>10. DeliveredOnce'
    BY <1>0, <1>8, DeliveredQuiet
  <1>11. NothingBefore'
    BY <1>0, <1>1, BeforeQuiet
  <1>12. ReadingsOrdered'
    BY <1>0, <1>7, <1>8, <1>9, ReadingsQuiet DEF PageKeeps
  <1>13. TicketsOnce'
    <2>1. \A g \in running : g.connection # c
      BY <1>0 DEF TicketsOnce, HandlersMatch
    <2>2. HandlersMatch'
      <3>1. ASSUME NEW g \in running', connection'[g.connection] # NULL
            PROVE  /\ connection'[g.connection].request = g.request
                   /\ connection'[g.connection].phase # "sent"
        <4>1. CASE g = h
          BY <1>2, <1>4, <1>5, <4>1
        <4>2. CASE g \in running
          <5>1. g.connection \in Connection /\ g.connection # c
            BY <1>0, <2>1, <4>2 DEF Typed, Handlers
          <5> QED
            BY <1>0, <1>4, <3>1, <4>2, <5>1 DEF TicketsOnce, HandlersMatch
        <4> QED
          BY <1>6, <4>1, <4>2
      <3>2. \A g, f \in running' : g.connection = f.connection => g = f
        BY <1>0, <1>5, <1>6, <2>1 DEF TicketsOnce, HandlersMatch
      <3> QED
        BY <3>1, <3>2 DEF HandlersMatch
    <2>3. ASSUME NEW d \in Connection, NEW n, AskedOn(d, n)' PROVE AskedOn(d, n) /\ d # c
      BY <1>2, <1>4, <2>3 DEF AskedOn, For
    <2>4. ASSUME NEW n, AskedBy(h, n) PROVE AskedOn(c, n)
      BY <1>0, <1>5, <2>4 DEF AskedBy, AskedOn, For
    <2>5. ASSUME NEW n \in Nat, Awaited(n)' PROVE Awaited(n)
      BY <1>6, <2>3, <2>4, <2>5 DEF Awaited, AskedBy
    <2>6. ASSUME NEW change \in Bound, Held(change)' PROVE Held(change)
      <3>1. ASSUME NEW d \in Connection, HeldOn(d, change)' PROVE HeldOn(d, change)
        BY <1>8, <3>1 DEF HeldOn, FadesFor
      <3>2. ASSUME HeldBy(h, change) PROVE HeldOn(c, change)
        BY <1>0, <1>5, <3>2 DEF HeldBy, HeldOn, For
      <3>3. ASSUME NEW g \in running', HeldBy(g, change)' PROVE Held(change)
        BY <1>6, <3>2, <3>3 DEF Held, HeldBy
      <3> QED
        BY <1>0, <2>6, <3>1, <3>3 DEF Held
    <2>7. PublishedOnce' /\ ClicksCount'
      BY <1>0, <1>7, <1>9, <2>5, <2>6, SetsQuiet DEF TicketsOnce
    <2>8. AwaitedOnce'
      <3>1. AwaitedOnce
        BY <1>0 DEF TicketsOnce
      <3>2. \A g, n : AskedBy(g, n)' <=> AskedBy(g, n)
        BY DEF AskedBy
      <3>3. \A d, e \in Connection, n \in Nat : AskedOn(d, n)' /\ AskedOn(e, n)' => d = e
        BY <2>3, <3>1 DEF AwaitedOnce
      <3>4. \A g, f \in running', n \in Nat : AskedBy(g, n) /\ AskedBy(f, n) => g = f
        BY <1>6, <2>4, <3>1 DEF AwaitedOnce
      <3>5. \A d \in Connection, g \in running', n \in Nat : ~(AskedOn(d, n)' /\ AskedBy(g, n))
        BY <1>6, <2>3, <2>4, <3>1 DEF AwaitedOnce
      <3> QED
        BY <3>2, <3>3, <3>4, <3>5 DEF AwaitedOnce
    <2> QED
      BY <2>2, <2>7, <2>8 DEF TicketsOnce
  <1> QED
    BY <1>0, <1>7, <1>10, <1>11, <1>12, <1>13, ReadyQuiet DEF WorkbenchInv

\* Handler h becomes g.
Becomes(h, g) ==
    /\ running' = (running \ {h}) \cup {g} /\ g.connection = h.connection /\ g.request = h.request
    /\ g.step # "called" /\ connection' = connection

\* Its request is the same, and it asks for no preview any more.
LEMMA HandlerMoves ==
  ASSUME Typed, TicketsOnce, NEW h \in running, NEW g, Becomes(h, g)
  PROVE  /\ HandlersMatch' /\ AwaitedOnce'
         /\ \A n \in Nat : Awaited(n)' => Awaited(n)
         /\ \A n \in Nat : AskedBy(h, n) => ~Awaited(n)'
  <1>0. /\ running' = (running \ {h}) \cup {g} /\ g.connection = h.connection /\ g.request = h.request
        /\ g.step # "called" /\ connection' = connection
    BY DEF Becomes
  <1>1. HandlersMatch'
    BY <1>0 DEF TicketsOnce, HandlersMatch
  <1>2. /\ \A n : \A f \in running' : AskedBy(f, n)' => f \in running /\ f # h /\ AskedBy(f, n)
        /\ \A n : \A c \in Connection : AskedOn(c, n)' <=> AskedOn(c, n)
    BY <1>0 DEF AskedBy, AskedOn, For
  <1>3. AwaitedOnce'
    BY <1>2 DEF TicketsOnce, AwaitedOnce
  <1>4. \A n \in Nat : Awaited(n)' => Awaited(n)
    BY <1>2 DEF Awaited
  <1>5. \A n \in Nat : AskedBy(h, n) => ~Awaited(n)'
    BY <1>2 DEF Awaited, TicketsOnce, AwaitedOnce
  <1> QED
    BY <1>1, <1>3, <1>4, <1>5

\* Nothing but the handlers and the tickets change.
LEMMA HandlerFrame ==
  ASSUME WorkbenchInv, Typed', TicketsOnce', running # {},
         UNCHANGED <<kind, listed, session, reading, connection, version, pageVars>>
  PROVE  WorkbenchInv'
  <1>0. Typed /\ DeliveredOnce /\ NothingBefore /\ ClosedEmpty /\ ReadingsOrdered
    BY DEF WorkbenchInv
  <1>1. DeliveredOnce' /\ ClosedEmpty'
    BY <1>0 DEF session, pageVars, DeliveredOnce, Carries, For, Ok, ClosedEmpty, Open
  <1>2. NothingBefore'
    BY <1>0, DeliveredBefore DEF NothingBefore, pageVars
  <1>3. FadesFor("state")
    BY DEF FadesFor
  <1>4. \A p \in Project : version[p] <= version'[p]
    BY <1>0, NaturalNumbers
  <1>5. ReadingsOrdered'
    BY <1>0, <1>3, <1>4, ReadingsQuiet DEF reading, pageVars, PageKeeps
  <1> QED
    BY <1>1, <1>2, <1>5 DEF WorkbenchInv

\* The shape of a handler after it moved.
Moved(h, step, output) == [h EXCEPT !.step = step, !.output = output]

LEMMA HandlerMoved ==
  ASSUME NEW h \in Handlers, NEW step \in {"applied", "returned", "failed"},
         NEW output \in {NULL} \cup Bound \cup Changes,
         step = "returned" => Fits(h.request, output), step = "applied" => h.request \in ApplyAsks
  PROVE  /\ Moved(h, step, output) \in Handlers
         /\ Moved(h, step, output).connection = h.connection
         /\ Moved(h, step, output).request = h.request
         /\ Moved(h, step, output).step = step /\ Moved(h, step, output).output = output
  BY DEF Handlers, Moved

\* A preview is bound to the stores it was computed from.
LEMMA PreviewKeeps ==
  ASSUME WorkbenchInv, UNCHANGED <<pageVars, launchVars>>, NEW h \in running, HandlerPreviews(h)
  PROVE  WorkbenchInv'
  <1> PICK x : x = [h.request.change EXCEPT !.base = board]
    OBVIOUS
  <1> PICK g : g = Moved(h, "returned", x)
    OBVIOUS
  <1> PICK n : n = h.request.change.operation
    OBVIOUS
  <1>0. /\ Typed /\ LaunchTypeOK' /\ h \in Handlers /\ TicketsOnce /\ h.step = "called"
        /\ HandlersMatch /\ AwaitedOnce /\ PublishedOnce /\ ClicksCount
        /\ running' = (running \ {h}) \cup {g} /\ connection' = connection /\ page' = page
        /\ published' = published /\ board' = board
    BY LaunchStays DEF WorkbenchInv, Typed, HandlerPreviews, Returns, Moved, world, TicketsOnce, pageVars
  <1>1. h.request \in PreviewAsks
    BY <1>0, HandlerRequest DEF HandlerPreviews
  <1>2. x \in Bound /\ x.operation = n /\ n \in Nat
    <2>1. h.request.change \in Wish /\ board \in Changes
      BY <1>0, <1>1 DEF PreviewAsks, Typed
    <2> QED
      BY <2>1 DEF Wish, Bound
  <1>3. Fits(h.request, x)
    BY <1>1, <1>2 DEF Fits, PreviewAsks, StateAsks, ApplyAsks
  <1>4. /\ g \in Handlers /\ g.connection = h.connection /\ g.request = h.request
        /\ g.step = "returned" /\ g.output = x
    BY <1>0, <1>2, <1>3, HandlerMoved
  <1>5. Typed'
    BY <1>0, <1>4 DEF Typed, HandlerPreviews, session, reading, world, pageVars
  <1>6. Becomes(h, g)
    BY <1>0, <1>4 DEF Becomes
  <1>7. /\ HandlersMatch' /\ AwaitedOnce' /\ \A m \in Nat : Awaited(m)' => Awaited(m)
        /\ Awaited(n) /\ ~Awaited(n)'
    <2>1. AskedBy(h, n)
      BY <1>0, <1>1 DEF AskedBy
    <2> QED
      BY <1>0, <1>2, <1>6, <2>1, HandlerMoves DEF Awaited
  <1>8. ASSUME NEW change \in Bound, Held(change)' PROVE Held(change) \/ change = x
    <2>1. ASSUME NEW f \in running', HeldBy(f, change)' PROVE Held(change) \/ change = x
      <3>1. CASE f = g
        <4>1. f.request \notin ApplyAsks
          BY <1>1, <1>4, <3>1 DEF PreviewAsks, ApplyAsks
        <4> QED
          BY <1>4, <2>1, <3>1, <4>1 DEF HeldBy
      <3>2. CASE f \in running
        BY <2>1, <3>2 DEF HeldBy, Held
      <3> QED
        BY <1>0, <3>1, <3>2
    <2>2. \A c \in Connection : HeldOn(c, change)' <=> HeldOn(c, change)
      BY <1>0 DEF HeldOn, For, Ok
    <2> QED
      BY <1>0, <1>8, <2>1, <2>2 DEF Held
  <1>9. /\ \A i \in DOMAIN published : published[i] # n
        /\ \A change \in Bound : Held(change) => change.operation # n
    BY <1>0, <1>2, <1>7 DEF PublishedOnce
  <1>10. PublishedOnce'
    <2>1. ASSUME NEW m \in Nat, Awaited(m)'
          PROVE  /\ \A i \in DOMAIN published' : published'[i] # m
                 /\ \A change \in Bound : Held(change)' => change.operation # m
      BY <1>0, <1>2, <1>7, <1>8, <2>1 DEF PublishedOnce
    <2>2. ASSUME NEW change \in Bound, NEW other \in Bound, Held(change)', Held(other)',
                 change.operation = other.operation
          PROVE  change = other
      BY <1>0, <1>2, <1>8, <1>9, <2>2 DEF PublishedOnce
    <2>3. ASSUME NEW i \in DOMAIN published', NEW change \in Bound, Held(change)',
                 change.operation = published'[i]
          PROVE  change.base < board'
      BY <1>0, <1>2, <1>8, <1>9, <2>3 DEF PublishedOnce
    <2>4. \A i, j \in DOMAIN published' : published'[i] = published'[j] => i = j
      BY <1>0 DEF PublishedOnce
    <2> QED
      BY <2>1, <2>2, <2>3, <2>4 DEF PublishedOnce
  <1>11. ClicksCount'
    BY <1>0, <1>2, <1>7, <1>8 DEF ClicksCount
  <1> QED
    BY <1>0, <1>5, <1>7, <1>10, <1>11, HandlerFrame DEF HandlerPreviews, TicketsOnce, world

\* The same change is held after a handler moved, unless it returned a preview.
LEMMA HandlerHolds ==
  ASSUME NEW h \in running, NEW g, Becomes(h, g), h.request \in ApplyAsks, page' = page
  PROVE  \A change \in Bound : Held(change)' => Held(change)
  <1>0. /\ running' = (running \ {h}) \cup {g} /\ g.request = h.request /\ connection' = connection
    BY DEF Becomes
  <1>1. h.request \notin PreviewAsks
    BY DEF PreviewAsks, ApplyAsks
  <1>2. ASSUME NEW change \in Bound, NEW f \in running', HeldBy(f, change)' PROVE Held(change)
    <2>1. CASE f = g
      BY <1>0, <1>1, <1>2, <2>1 DEF HeldBy, Held
    <2>2. CASE f \in running
      BY <1>2, <2>2 DEF HeldBy, Held
    <2> QED
      BY <1>0, <2>1, <2>2
  <1>3. \A change \in Bound : \A c \in Connection : HeldOn(c, change)' <=> HeldOn(c, change)
    BY <1>0 DEF HeldOn, For, Ok
  <1> QED
    BY <1>2, <1>3 DEF Held

\* A confirmed change is published, or refused because the stores have changed.
LEMMA ApplyKeeps ==
  ASSUME WorkbenchInv, UNCHANGED <<pageVars, launchVars>>, NEW h \in running, HandlerApplies(h)
  PROVE  WorkbenchInv'
  <1> PICK x : x = h.request.change
    OBVIOUS
  <1>0. /\ Typed /\ LaunchTypeOK' /\ h \in Handlers /\ TicketsOnce
        /\ HandlersMatch /\ AwaitedOnce /\ PublishedOnce /\ ClicksCount
        /\ connection' = connection /\ page' = page
    BY LaunchStays DEF WorkbenchInv, Typed, HandlerApplies, TicketsOnce, pageVars
  <1>1. h.request \in ApplyAsks /\ x \in Bound /\ x.operation \in Nat /\ Held(x)
    <2>1. h.request \in ApplyAsks
      BY <1>0, HandlerRequest DEF HandlerApplies
    <2>2. x \in Bound /\ HeldBy(h, x)
      BY <2>1 DEF ApplyAsks, HeldBy
    <2> QED
      BY <2>1, <2>2 DEF Held, Bound
  <1>2. ASSUME NEW step \in {"applied", "failed"}, NEW g, g = Moved(h, step, NULL),
               running' = (running \ {h}) \cup {g}
        PROVE  /\ g \in Handlers /\ Becomes(h, g)
    BY <1>0, <1>1, <1>2, HandlerMoved DEF Becomes
  <1>3. CASE /\ x.base = board /\ board < MaxChanges /\ board' = board + 1
             /\ published' = Append(published, x.operation) /\ Returns(h, "applied", NULL)
    <2> PICK g : g = Moved(h, "applied", NULL)
      OBVIOUS
    <2>0. running' = (running \ {h}) \cup {g}
      BY <1>3 DEF Returns, Moved
    <2>1. g \in Handlers /\ Becomes(h, g)
      BY <1>2, <2>0
    <2>2. board \in Nat /\ board' \in Changes /\ published \in Seq(Nat) /\ published' \in Seq(Nat)
      BY <1>0, <1>1, <1>3, SessionAssumption DEF Typed, Changes
    <2>3. Typed'
      BY <1>0, <2>0, <2>1, <2>2 DEF Typed, HandlerApplies, session, reading, pageVars
    <2>4. HandlersMatch' /\ AwaitedOnce' /\ \A m \in Nat : Awaited(m)' => Awaited(m)
      BY <1>0, <2>1, HandlerMoves
    <2>5. \A change \in Bound : Held(change)' => Held(change)
      BY <1>0, <1>1, <2>1, HandlerHolds
    <2>6. /\ DOMAIN published = 1..Len(published) /\ DOMAIN published' = 1..(Len(published) + 1)
          /\ \A i \in DOMAIN published : published'[i] = published[i]
          /\ published'[Len(published) + 1] = x.operation /\ Len(published) \in Nat
      BY <1>1, <1>3, <2>2
    <2>7. \A i \in DOMAIN published : published[i] # x.operation
      BY <1>0, <1>1, <1>3, <2>2 DEF PublishedOnce
    <2>8. ASSUME NEW i \in DOMAIN published'
          PROVE  \/ i \in DOMAIN published /\ published'[i] = published[i]
                 \/ i = Len(published) + 1 /\ published'[i] = x.operation
      BY <2>6
    <2>9. PublishedOnce'
      <3>1. ASSUME NEW m \in Nat, Awaited(m)'
            PROVE  /\ \A i \in DOMAIN published' : published'[i] # m
                   /\ \A change \in Bound : Held(change)' => change.operation # m
        BY <1>0, <1>1, <2>4, <2>5, <2>8, <3>1 DEF PublishedOnce
      <3>2. ASSUME NEW change \in Bound, NEW other \in Bound, Held(change)', Held(other)',
                   change.operation = other.operation
            PROVE  change = other
        BY <1>0, <2>5, <3>2 DEF PublishedOnce
      <3>3. ASSUME NEW i \in DOMAIN published', NEW change \in Bound, Held(change)',
                   change.operation = published'[i]
            PROVE  change.base < board'
        <4>1. CASE published'[i] = x.operation
          <5>1. change = x
            BY <1>0, <1>1, <2>5, <3>3, <4>1 DEF PublishedOnce
          <5> QED
            BY <1>3, <2>2, <5>1
        <4>2. CASE i \in DOMAIN published /\ published'[i] = published[i]
          <5>1. change.base < board
            BY <1>0, <2>5, <3>3, <4>2 DEF PublishedOnce
          <5>2. change.base \in Nat
            BY SessionAssumption DEF Bound, Changes
          <5> QED
            BY <1>3, <2>2, <5>1, <5>2
        <4> QED
          BY <2>8, <4>1, <4>2
      <3>4. \A i, j \in DOMAIN published' : published'[i] = published'[j] => i = j
        BY <1>0, <2>7, <2>8 DEF PublishedOnce
      <3> QED
        BY <3>1, <3>2, <3>3, <3>4 DEF PublishedOnce
    <2>10. ClicksCount'
      BY <1>0, <1>1, <2>4, <2>5, <2>8 DEF ClicksCount
    <2> QED
      BY <2>3, <2>4, <2>9, <2>10, HandlerFrame DEF HandlerApplies, TicketsOnce
  <1>4. CASE Returns(h, "failed", NULL) /\ UNCHANGED <<board, published>>
    <2> PICK g : g = Moved(h, "failed", NULL)
      OBVIOUS
    <2>0. running' = (running \ {h}) \cup {g}
      BY <1>4 DEF Returns, Moved
    <2>1. g \in Handlers /\ Becomes(h, g)
      BY <1>2, <2>0
    <2>2. Typed'
      BY <1>0, <1>4, <2>0, <2>1 DEF Typed, HandlerApplies, session, reading, pageVars
    <2>3. HandlersMatch' /\ AwaitedOnce' /\ \A m \in Nat : Awaited(m)' => Awaited(m)
      BY <1>0, <2>1, HandlerMoves
    <2>4. \A change \in Bound : Held(change)' => Held(change)
      BY <1>0, <1>1, <2>1, HandlerHolds
    <2>5. board <= board'
      BY <1>0, <1>4, SessionAssumption DEF Typed, Changes
    <2>6. PublishedOnce' /\ ClicksCount'
      BY <1>0, <1>4, <2>2, <2>3, <2>4, <2>5, SetsQuiet
    <2> QED
      BY <2>2, <2>3, <2>6, HandlerFrame DEF HandlerApplies, TicketsOnce
  <1> QED
    BY <1>3, <1>4 DEF HandlerApplies

\* The tickets are read again.
LEMMA ReadsKeeps ==
  ASSUME WorkbenchInv, UNCHANGED <<pageVars, launchVars>>, NEW h \in running, HandlerReads(h)
  PROVE  WorkbenchInv'
  <1> PICK g : g = Moved(h, "returned", board)
    OBVIOUS
  <1>0. /\ Typed /\ LaunchTypeOK' /\ h \in Handlers /\ TicketsOnce /\ page' = page
        /\ running' = (running \ {h}) \cup {g} /\ connection' = connection
        /\ published' = published /\ board' = board /\ board \in Changes
    BY LaunchStays DEF WorkbenchInv, Typed, HandlerReads, Returns, Moved, TicketsOnce, pageVars, world
  <1>1. h.request \in ApplyAsks
    BY <1>0 DEF HandlerReads, Handlers
  <1>2. Fits(h.request, board)
    BY <1>0, <1>1 DEF Fits, PreviewAsks, StateAsks, ApplyAsks
  <1>3. g \in Handlers /\ Becomes(h, g)
    BY <1>0, <1>2, HandlerMoved DEF Becomes
  <1>4. Typed'
    BY <1>0, <1>3 DEF Typed, HandlerReads, session, reading, world, pageVars
  <1>5. HandlersMatch' /\ AwaitedOnce' /\ \A m \in Nat : Awaited(m)' => Awaited(m)
    BY <1>0, <1>3, HandlerMoves
  <1>6. \A change \in Bound : Held(change)' => Held(change)
    BY <1>0, <1>1, <1>3, HandlerHolds
  <1>7. board <= board'
    BY <1>0, SessionAssumption DEF Changes
  <1>8. PublishedOnce' /\ ClicksCount'
    BY <1>0, <1>4, <1>5, <1>6, <1>7, SetsQuiet DEF TicketsOnce
  <1> QED
    BY <1>4, <1>5, <1>8, HandlerFrame DEF HandlerReads, TicketsOnce, world

\* The handler refuses.
LEMMA FailKeeps ==
  ASSUME WorkbenchInv, UNCHANGED <<pageVars, launchVars>>, NEW h \in running, HandlerFails(h)
  PROVE  WorkbenchInv'
  <1> PICK g : g = Moved(h, "failed", NULL)
    OBVIOUS
  <1>0. /\ Typed /\ LaunchTypeOK' /\ h \in Handlers /\ TicketsOnce /\ page' = page
        /\ running' = (running \ {h}) \cup {g} /\ connection' = connection
        /\ published' = published /\ board' = board /\ board \in Changes
    BY LaunchStays DEF WorkbenchInv, Typed, HandlerFails, Returns, Moved, TicketsOnce, pageVars, world
  <1>1. /\ g \in Handlers /\ g.connection = h.connection /\ g.request = h.request /\ g.step = "failed"
    BY <1>0, HandlerMoved
  <1>2. Becomes(h, g)
    BY <1>0, <1>1 DEF Becomes
  <1>3. faults' \in 0..MaxFaults
    BY <1>0, SessionAssumption DEF Typed, HandlerFails
  <1>4. Typed'
    BY <1>0, <1>1, <1>3 DEF Typed, HandlerFails, session, reading, world, pageVars
  <1>5. HandlersMatch' /\ AwaitedOnce' /\ \A m \in Nat : Awaited(m)' => Awaited(m)
    BY <1>0, <1>2, HandlerMoves
  <1>6. ASSUME NEW change \in Bound, Held(change)' PROVE Held(change)
    <2>1. ASSUME NEW f \in running', HeldBy(f, change)' PROVE Held(change)
      <3>1. CASE f = g
        BY <1>1, <2>1, <3>1 DEF HeldBy, Held
      <3>2. CASE f \in running
        BY <2>1, <3>2 DEF HeldBy, Held
      <3> QED
        BY <1>0, <3>1, <3>2
    <2>2. \A c \in Connection : HeldOn(c, change)' <=> HeldOn(c, change)
      BY <1>0 DEF HeldOn, For, Ok
    <2> QED
      BY <1>0, <1>6, <2>1, <2>2 DEF Held
  <1>7. board <= board'
    BY <1>0, SessionAssumption DEF Changes
  <1>8. PublishedOnce' /\ ClicksCount'
    BY <1>0, <1>4, <1>5, <1>6, <1>7, SetsQuiet DEF TicketsOnce
  <1> QED
    BY <1>4, <1>5, <1>8, HandlerFrame DEF HandlerFails, TicketsOnce, world

\* A handler's answer takes the place of its output.
LEMMA AnswerKeeps ==
  ASSUME WorkbenchInv, UNCHANGED <<pageVars, launchVars>>, NEW h \in running, HandlerAnswers(h)
  PROVE  WorkbenchInv'
  <1> PICK c : c = h.connection
    OBVIOUS
  <1>0. /\ Typed /\ LaunchTypeOK' /\ connection \in [Connection -> {NULL} \cup Links]
        /\ h \in Handlers /\ c \in Connection /\ h.step \in {"returned", "failed"}
        /\ DeliveredOnce /\ NothingBefore /\ ClosedEmpty /\ ReadingsOrdered /\ TicketsOnce
        /\ page' = page /\ version' = version /\ rendered' = rendered /\ last' = last
        /\ visits' = visits /\ deliveries' = deliveries /\ published' = published
        /\ kind' = kind /\ inFlight' = inFlight /\ shot' = shot /\ status' = status
        /\ running' = running \ {h} /\ deliveries # 0 /\ board' = board
    BY LaunchStays, DeliveredBefore
       DEF WorkbenchInv, Typed, HandlerAnswers, pageVars, world, reading, session, Handlers
  <1>1. h.request \in TicketAsks /\ h.request.to = "tickets"
    BY <1>0, HandlerRequest
  <1>2. \E y \in {NULL} \cup Links :
           /\ Relinks(c, y)
           /\ \/ y = connection[c]
              \/ /\ connection[c] # NULL /\ y.request = h.request /\ connection[c].request = h.request
                 /\ connection[c].phase = "waiting" /\ y.phase = "answered"
                 /\ Ok(y) => h.step = "returned" /\ y.answer.body = h.output
    <2>1. CASE ~(connection[c] # NULL /\ connection[c].phase = "waiting")
      <3>1. Relinks(c, connection[c])
        BY <1>0, <2>1 DEF HandlerAnswers, Relinks
      <3>2. connection[c] \in {NULL} \cup Links
        BY <1>0
      <3> QED
        BY <3>1, <3>2
    <2>2. CASE connection[c] # NULL /\ connection[c].phase = "waiting"
      <3>1. connection[c] \in Links /\ connection[c].request = h.request
        BY <1>0, <2>2 DEF TicketsOnce, HandlersMatch
      <3>2. CASE h.step = "failed"
        <4>1. [code |-> 400, body |-> NULL] \in Answers
          BY DEF Answers
        <4>2. connection' = Answered(c, 400, NULL)
          BY <2>2, <3>2 DEF HandlerAnswers
        <4> PICK y \in Links :
              /\ Relinks(c, y) /\ y.request = connection[c].request /\ y.phase = "answered"
              /\ y.answer = [code |-> 400, body |-> NULL]
          BY <1>0, <3>1, <4>1, <4>2, AnsweredRelinks
        <4>3. ~Ok(y)
          BY DEF Ok
        <4> QED
          BY <2>2, <3>1, <4>3
      <3>3. CASE h.step = "returned"
        <4> PICK b : b = h.output
          OBVIOUS
        <4>1. Fits(connection[c].request, b) /\ [code |-> 200, body |-> b] \in Answers
          BY <1>0, <3>1, <3>3 DEF Handlers, Answers
        <4>2. connection' = Answered(c, 200, b)
          BY <2>2, <3>3 DEF HandlerAnswers
        <4> PICK y \in Links :
              /\ Relinks(c, y) /\ y.request = connection[c].request /\ y.phase = "answered"
              /\ y.answer = [code |-> 200, body |-> b]
          BY <1>0, <3>1, <4>1, <4>2, AnsweredRelinks
        <4>3. y.answer.body = b
          OBVIOUS
        <4> QED
          BY <2>2, <3>1, <3>3, <4>3
      <3> QED
        BY <1>0, <3>2, <3>3
    <2> QED
      BY <2>1, <2>2
  <1> PICK y \in {NULL} \cup Links :
           /\ Relinks(c, y)
           /\ \/ y = connection[c]
              \/ /\ connection[c] # NULL /\ y.request = h.request /\ connection[c].request = h.request
                 /\ connection[c].phase = "waiting" /\ y.phase = "answered"
                 /\ Ok(y) => h.step = "returned" /\ y.answer.body = h.output
    BY <1>2
  <1>3. /\ connection' \in [Connection -> {NULL} \cup Links] /\ connection'[c] = y
        /\ \A d \in Connection : d # c => connection'[d] = connection[d]
    BY <1>0, Relinking
  <1>4. Typed'
    BY <1>0, <1>3 DEF Typed, HandlerAnswers, session, reading, world, pageVars
  <1>5. FadesFor("page") /\ FadesFor("state") /\ ConnectionsStay
    BY <1>0, <1>1, <1>3 DEF FadesFor, For, Ok, ConnectionsStay
  <1>6. board <= board' /\ \A p \in Project : version[p] <= version'[p]
    BY <1>0, NumbersGrow DEF HandlerAnswers
  <1>7. DeliveredOnce'
    BY <1>0, <1>5, DeliveredQuiet
  <1>8. NothingBefore'
    BY <1>0, BeforeQuiet
  <1>9. ClosedEmpty'
    BY <1>0, <1>3 DEF ClosedEmpty, Open
  <1>10. ReadingsOrdered'
    BY <1>0, <1>4, <1>5, <1>6, ReadingsQuiet DEF PageKeeps
  <1>11. TicketsOnce'
    <2>1. HandlersMatch'
      BY <1>0, <1>5, MatchQuiet DEF TicketsOnce
    <2>2. ASSUME NEW d \in Connection, NEW n, AskedOn(d, n)' PROVE AskedOn(d, n)
      BY <1>3, <2>2 DEF AskedOn, For
    <2>3. \A n \in Nat : Awaited(n)' => Awaited(n)
      BY <1>0, <2>2 DEF Awaited, AskedBy
    <2>4. ASSUME NEW change \in Bound, NEW d \in Connection, HeldOn(d, change)' PROVE Held(change)
      <3>1. CASE connection'[d] = connection[d]
        BY <2>4, <3>1 DEF Held, HeldOn, For, Ok
      <3>2. CASE /\ d = c /\ connection[c] # NULL /\ y.request = h.request
                 /\ Ok(y) => h.step = "returned" /\ y.answer.body = h.output
        <4>1. HeldBy(h, change)
          BY <1>3, <2>4, <3>2 DEF HeldOn, HeldBy
        <4> QED
          BY <4>1 DEF Held
      <3> QED
        BY <1>3, <3>1, <3>2
    <2>5. \A change \in Bound : Held(change)' => Held(change)
      BY <1>0, <2>4 DEF Held, HeldBy
    <2>6. AwaitedOnce'
      BY <1>0, <2>2 DEF TicketsOnce, AwaitedOnce, AskedBy
    <2>7. PublishedOnce' /\ ClicksCount'
      BY <1>0, <1>4, <1>6, <2>3, <2>5, SetsQuiet DEF TicketsOnce
    <2> QED
      BY <2>1, <2>6, <2>7 DEF TicketsOnce
  <1> QED
    BY <1>4, <1>7, <1>8, <1>9, <1>10, <1>11 DEF WorkbenchInv

\* Somebody works in a project, or changes a ticket with another tool.
LEMMA WorldKeeps ==
  ASSUME WorkbenchInv, UNCHANGED <<pageVars, launchVars>>,
         (\E p \in Project : ProjectChanges(p)) \/ TicketsChange
  PROVE  WorkbenchInv'
  <1>0. Typed /\ LaunchTypeOK' /\ version \in [Project -> Nat] /\ board \in Nat
    <2>1. Typed /\ LaunchTypeOK' /\ board \in Changes
      BY LaunchStays DEF WorkbenchInv, Typed
    <2>2. Changes \subseteq Nat
      BY SessionAssumption DEF Changes
    <2> QED
      BY <2>1, <2>2, NaturalNumbers
  <1>1. ASSUME Typed', board <= board', \A p \in Project : version[p] <= version'[p],
               UNCHANGED <<kind, listed, session, reading, connection, running, published, faults>>
        PROVE  WorkbenchInv'
    <2>1. \A d \in Connection : Fades(connection[d], connection'[d])
      BY <1>1 DEF Fades
    <2> QED
      BY <1>1, <2>1, QuietStep DEF session, reading, pageVars, PageKeeps
  <1>2. ASSUME NEW p \in Project, ProjectChanges(p) PROVE WorkbenchInv'
    <2>1. version[p] + 1 \in Version
      BY <1>0, <1>2, SessionAssumption DEF ProjectChanges, Version
    <2>2. version' \in [Project -> Version] /\ \A q \in Project : version[q] <= version'[q]
      BY <1>0, <1>2, <2>1 DEF ProjectChanges, Typed
    <2>3. Typed'
      BY <1>0, <1>2, <2>2 DEF Typed, ProjectChanges, session, reading, pageVars
    <2> QED
      BY <1>0, <1>1, <1>2, <2>2, <2>3 DEF ProjectChanges
  <1>3. ASSUME TicketsChange PROVE WorkbenchInv'
    <2>1. board' \in Changes /\ board <= board'
      BY <1>0, <1>3, SessionAssumption DEF TicketsChange, Changes
    <2>2. Typed' /\ \A q \in Project : version[q] <= version'[q]
      BY <1>0, <1>3, <2>1 DEF Typed, TicketsChange, session, reading, pageVars
    <2> QED
      BY <1>1, <1>3, <2>1, <2>2 DEF TicketsChange
  <1> QED
    BY <1>2, <1>3

\* Every step of the server.
LEMMA ServerKeeps ==
  ASSUME WorkbenchInv, UNCHANGED <<pageVars, launchVars>>, ServerStep \/ IdleEnds
  PROVE  WorkbenchInv'
  <1>1. CASE ServerClosed \/ GraceEnds \/ HardDeadline \/ IdleEnds \/ LifetimeEnds
    BY <1>1, EndsKeep
  <1>2. CASE \E c \in Connection : HandleRequest(c) \/ Finish(c) \/ Lose(c)
    BY <1>2, AdmitStateKeeps, AdmitTicketsKeeps, AdmitPageKeeps, ResponsesKeep DEF HandleRequest
  <1>3. CASE RefreshReads \/ RefreshCompletes \/ RefreshFails \/ SecondPasses
    BY <1>3, RefreshReadsKeeps, RefreshCompletesKeeps, ReadingEnds
  <1>4. CASE \E h \in running :
                \/ HandlerPreviews(h) \/ HandlerApplies(h) \/ HandlerReads(h) \/ HandlerFails(h)
                \/ HandlerAnswers(h)
    BY <1>4, PreviewKeeps, ApplyKeeps, ReadsKeeps, FailKeeps, AnswerKeeps
  <1>5. CASE (\E p \in Project : ProjectChanges(p)) \/ TicketsChange
    BY <1>5, WorldKeeps
  <1> QED
    BY <1>1, <1>2, <1>3, <1>4, <1>5 DEF ServerStep

-----------------------------------------------------------------------------
(* The page. *)

\* A request takes a connection that nobody uses.
LEMMA Sending ==
  ASSUME Typed, NEW c \in Connection, NEW request \in Asked, Free(c), connection' = Sent(c, request)
  PROVE  /\ connection[c] = NULL /\ \A h \in running : h.connection # c
         /\ \E y \in Links : Relinks(c, y) /\ y.request = request /\ y.phase = "sent" /\ ~Ok(y)
  <1> PICK y : y = [request |-> request, phase |-> "sent", answer |-> NULL]
    OBVIOUS
  <1>1. y \in Links /\ y.request = request /\ y.phase = "sent" /\ ~Ok(y)
    BY DEF Links, Ok
  <1>2. Relinks(c, y)
    BY DEF Relinks, Sent
  <1> QED
    BY <1>1, <1>2 DEF Free

\* What a page's step may change.
LEMMA PageTyped ==
  ASSUME Typed, UNCHANGED launchVars, connection' \in [Connection -> {NULL} \cup Links],
         page' \in {NULL} \cup Pages, visits' \in 0..MaxVisits, deliveries' \in {0, 1},
         UNCHANGED <<kind, listed, session, reading, running, world, faults, rendered>>
  PROVE  /\ Typed' /\ board <= board' /\ \A p \in Project : version[p] <= version'[p]
  <1>1. LaunchTypeOK'
    BY LaunchStays DEF Typed
  <1>2. Typed'
    BY <1>1 DEF Typed, session, reading, world
  <1> QED
    BY <1>2, NumbersGrow

\* The browser asks for the page.
LEMMA NavigateKeeps ==
  ASSUME WorkbenchInv, UNCHANGED launchVars, NEW c \in Connection, Navigate(c)
  PROVE  WorkbenchInv'
  <1>0. /\ Typed /\ connection \in [Connection -> {NULL} \cup Links] /\ Page \in Asked
        /\ DeliveredOnce /\ NothingBefore /\ ReadingsOrdered /\ TicketsOnce
        /\ kind' = kind /\ shot' = shot /\ status' = "ready" /\ running' = running
        /\ inFlight' = inFlight /\ last' = last /\ published' = published
        /\ page' = page /\ rendered' = rendered /\ deliveries' = deliveries
        /\ visits \in 0..MaxVisits /\ deliveries \in {0, 1}
    BY DEF WorkbenchInv, Typed, Navigate, session, reading, world, Asked
  <1>1. connection[c] = NULL /\ \A h \in running : h.connection # c
    BY <1>0, Sending DEF Navigate
  <1> PICK y \in Links : Relinks(c, y) /\ y.request = Page /\ y.phase = "sent" /\ ~Ok(y)
    BY <1>0, Sending DEF Navigate
  <1>2. /\ connection' \in [Connection -> {NULL} \cup Links] /\ connection'[c] = y
        /\ \A d \in Connection : d # c => connection'[d] = connection[d]
    BY <1>0, Relinking
  <1>3. visits' = visits + 1 /\ visits' \in 0..MaxVisits
    BY <1>0, PageAssumption DEF Navigate
  <1>4. Typed' /\ board <= board' /\ \A p \in Project : version[p] <= version'[p]
    BY <1>0, <1>2, <1>3, PageTyped DEF Navigate, Typed
  <1>5. FadesFor("state") /\ FadesFor("tickets") /\ ConnectionsStay
    BY <1>0, <1>1, <1>2, OthersFade DEF For, Page, ConnectionsStay
  <1>6. DeliveredOnce'
    <2>1. \A d \in Connection : d # c => (Carries(d)' <=> Carries(d))
      BY <1>0, <1>2 DEF Carries, For, Ok
    <2>2. CASE kind = "oneShot"
      <3>1. ~Carries(c)' /\ ~Carries(c)
        BY <1>0, <1>1, <1>2, <2>2 DEF Carries, For
      <3> QED
        BY <1>0, <2>1, <2>2, <3>1 DEF DeliveredOnce
    <2>3. CASE kind # "oneShot"
      <3>1. visits = 0 /\ visits' = 1
        BY <1>0, <1>3, <2>3 DEF DeliveredOnce, Navigate
      <3>2. deliveries = 0 /\ \A d \in Connection : ~Carries(d)
        BY <1>0, <2>3, <3>1 DEF DeliveredOnce
      <3> QED
        BY <1>0, <2>1, <2>3, <3>1, <3>2 DEF DeliveredOnce
    <2> QED
      BY <2>2, <2>3
  <1>7. NothingBefore'
    BY <1>0, <1>2, BeforeQuiet DEF Page
  <1>8. ReadingsOrdered'
    BY <1>0, <1>4, <1>5, ReadingsQuiet DEF PageKeeps
  <1>9. TicketsOnce'
    BY <1>0, <1>4, <1>5, TicketsQuiet
  <1> QED
    BY <1>0, <1>4, <1>6, <1>7, <1>8, <1>9, ReadyQuiet DEF WorkbenchInv

\* The client has the end of its request.
LEMMA Forgetting ==
  ASSUME Typed, NEW c \in Connection, connection' = Forgotten(c)
  PROVE  /\ connection' \in [Connection -> {NULL} \cup Links] /\ connection'[c] = NULL
         /\ \A d \in Connection : d # c => connection'[d] = connection[d]
         /\ \A d \in Connection : Fades(connection[d], connection'[d])
  <1>1. connection \in [Connection -> {NULL} \cup Links]
    BY DEF Typed
  <1>2. Relinks(c, NULL) /\ NULL \in {NULL} \cup Links /\ Fades(connection[c], NULL)
    BY DEF Relinks, Forgotten, Fades
  <1> QED
    BY <1>1, <1>2, Relinking, OneFades

\* A page that arrives is the first.
LEMMA LoadKeeps ==
  ASSUME WorkbenchInv, UNCHANGED launchVars, NEW c \in Connection, Load(c)
  PROVE  WorkbenchInv'
  <1>0. /\ Typed /\ connection \in [Connection -> {NULL} \cup Links]
        /\ DeliveredOnce /\ NothingBefore /\ ClosedEmpty /\ ReadingsOrdered /\ TicketsOnce
        /\ kind' = kind /\ shot' = shot /\ status' = status /\ running' = running
        /\ inFlight' = inFlight /\ last' = last /\ published' = published
        /\ version' = version /\ rendered' = rendered /\ visits' = visits /\ visits \in 0..MaxVisits
        /\ deliveries \in {0, 1} /\ listed \subseteq Project /\ listed # {}
        /\ connection[c] # NULL /\ connection[c].request.to = "page"
        /\ connection[c].phase \in {"delivered", "cut"}
    BY DEF WorkbenchInv, Typed, Load, Settled, session, reading, world
  <1>1. /\ connection' \in [Connection -> {NULL} \cup Links] /\ connection'[c] = NULL
        /\ \A d \in Connection : d # c => connection'[d] = connection[d]
        /\ \A d \in Connection : Fades(connection[d], connection'[d])
    BY <1>0, Forgetting DEF Load
  <1>2. CASE Code(c) # 200
    <2>1. deliveries' = deliveries /\ page' = page
      BY <1>2 DEF Load
    <2>2. Typed' /\ board <= board' /\ \A p \in Project : version[p] <= version'[p]
      BY <1>0, <1>1, <2>1, PageTyped DEF Load, Typed
    <2> QED
      BY <1>0, <1>1, <2>1, <2>2, QuietStep DEF PageKeeps
  <1>3. CASE Code(c) = 200
    <2>1. connection[c].phase = "delivered" /\ connection[c].answer.code = 200
      BY <1>0, <1>3 DEF Code
    <2>2. Carries(c)
      BY <1>0, <2>1 DEF Carries, For, Ok
    <2>3. deliveries = 0 /\ \A d \in Connection : Carries(d) => d = c
      BY <1>0, <2>2 DEF DeliveredOnce
    <2>4. /\ page = NULL /\ inFlight = NULL /\ last = NULL /\ running = {} /\ published = <<>>
          /\ \A d \in Connection : connection[d] # NULL => connection[d].request.to = "page"
      BY <1>0, <2>3 DEF NothingBefore
    <2>5. deliveries' = 1 /\ page' = LoadedPage
      BY <1>3, <2>3, <2>4 DEF Load
    <2>6. /\ LoadedPage \in Pages /\ LoadedPage.shown = rendered /\ LoadedPage.preview = NULL
      <3>1. (CHOOSE p \in listed : TRUE) \in Project /\ rendered \in [Project -> Version]
        BY <1>0 DEF Typed
      <3>2. 0 \in Changes /\ 0 \in 0..MaxClicks /\ LiveEnabled \in BOOLEAN
        BY PageAssumption, SessionAssumption DEF Changes, LiveEnabled
      <3>3. [p \in Project |-> NULL] \in [Project -> Version \cup {NULL}]
        OBVIOUS
      <3> QED
        BY <3>1, <3>2, <3>3 DEF LoadedPage, Pages
    <2>7. Typed' /\ board <= board' /\ \A p \in Project : version[p] <= version'[p]
      BY <1>0, <1>1, <2>5, <2>6, PageTyped DEF Load
    <2>8. DeliveredOnce'
      <3>1. \A d \in Connection : ~Carries(d)'
        BY <1>0, <1>1, <2>3 DEF Carries, For, Ok
      <3> QED
        BY <1>0, <2>2, <2>5, <3>1 DEF DeliveredOnce
    <2>9. NothingBefore'
      BY <2>5 DEF NothingBefore
    <2>10. ClosedEmpty'
      BY <1>0, <1>1, ClosedQuiet
    <2>11. \A d \in Connection : connection'[d] # NULL => connection'[d].request.to = "page"
      BY <1>1, <2>4
    <2>12. ReadingsOrdered'
      <3>1. \A p \in Project : rendered[p] <= version[p] /\ LoadedPage.shown[p] <= version[p]
        BY <1>0, <2>6 DEF ReadingsOrdered
      <3>2. \A d \in Connection : ~For(connection[d], "state")'
        BY <2>11 DEF For
      <3> QED
        BY <1>0, <2>4, <2>5, <3>1, <3>2 DEF ReadingsOrdered
    <2>13. TicketsOnce'
      <3>1. /\ \A d \in Connection : ~For(connection[d], "tickets")'
            /\ running' = {} /\ published' = <<>> /\ page'.preview = NULL
        BY <1>0, <2>4, <2>5, <2>6, <2>11 DEF For
      <3>2. DOMAIN published' = {}
        BY <3>1
      <3>3. \A n : ~Awaited(n)'
        BY <3>1 DEF Awaited, AskedOn
      <3>4. \A change : ~Held(change)'
        BY <3>1 DEF Held, HeldOn
      <3> QED
        BY <3>1, <3>2, <3>3, <3>4
           DEF TicketsOnce, HandlersMatch, AwaitedOnce, PublishedOnce, ClicksCount, AskedOn
    <2> QED
      BY <2>7, <2>8, <2>9, <2>10, <2>12, <2>13 DEF WorkbenchInv
  <1> QED
    BY <1>2, <1>3

\* The page is left, and its requests with it.
LEMMA LeaveKeeps ==
  ASSUME WorkbenchInv, UNCHANGED launchVars, Leave
  PROVE  WorkbenchInv'
  <1>0. /\ Typed /\ connection \in [Connection -> {NULL} \cup Links] /\ page # NULL /\ page' = NULL
        /\ DeliveredOnce /\ NothingBefore /\ ClosedEmpty /\ ReadingsOrdered /\ TicketsOnce
        /\ kind' = kind /\ shot' = shot /\ status' = status /\ running' = running
        /\ inFlight' = inFlight /\ last' = last /\ published' = published
        /\ version' = version /\ rendered' = rendered /\ visits' = visits /\ visits \in 0..MaxVisits
        /\ deliveries' = deliveries /\ deliveries \in {0, 1}
    BY DEF WorkbenchInv, Typed, Leave, Showing, session, reading, world
  <1>1. ASSUME NEW d \in Connection
        PROVE  /\ connection'[d] \in {NULL} \cup Links /\ Fades(connection[d], connection'[d])
               /\ connection'[d] # NULL => connection'[d].request.to = "page"
    BY <1>0 DEF Leave, Fades
  <1>2. connection' \in [Connection -> {NULL} \cup Links]
    BY <1>1 DEF Leave
  <1>3. Typed' /\ board <= board' /\ \A p \in Project : version[p] <= version'[p]
    BY <1>0, <1>2, PageTyped DEF Leave, Typed
  <1>4. FadesFor("page") /\ FadesFor("tickets") /\ ConnectionsStay
    BY <1>1, AllFade, FadesStay
  <1>5. DeliveredOnce'
    BY <1>0, <1>4, DeliveredQuiet
  <1>6. NothingBefore'
    BY <1>0, DeliveredBefore, BeforeQuiet
  <1>7. ClosedEmpty'
    BY <1>0, <1>1, ClosedQuiet
  <1>8. ReadingsOrdered'
    <2>1. \A d \in Connection : ~For(connection[d], "state")'
      BY <1>1 DEF For
    <2> QED
      BY <1>0, <2>1 DEF ReadingsOrdered, Between
  <1>9. TicketsOnce'
    BY <1>0, <1>3, <1>4, TicketsQuiet
  <1> QED
    BY <1>3, <1>5, <1>6, <1>7, <1>8, <1>9 DEF WorkbenchInv

\* The page turns to another project, or its timer finds a request under way.
LEMMA PageTurns ==
  ASSUME WorkbenchInv, UNCHANGED launchVars, PollBusy \/ \E p \in Project : SelectProject(p)
  PROVE  WorkbenchInv'
  <1>0. /\ Typed /\ connection' = connection /\ page \in Pages /\ page # NULL
        /\ connection \in [Connection -> {NULL} \cup Links] /\ visits \in 0..MaxVisits
        /\ deliveries \in {0, 1}
        /\ UNCHANGED <<kind, listed, session, reading, running, world, faults, rendered, visits, deliveries>>
    BY DEF WorkbenchInv, Typed, PollBusy, SelectProject, Showing, sessionVars
  <1>1. /\ page' \in Pages /\ page'.shown = page.shown /\ page'.poll = page.poll
        /\ page'.clicks = page.clicks /\ page'.preview = page.preview
    <2>1. CASE PollBusy
      BY <1>0, <2>1 DEF PollBusy, Pages
    <2>2. ASSUME NEW p \in Project, SelectProject(p)
          PROVE  /\ page' \in Pages /\ page'.shown = page.shown /\ page'.poll = page.poll
                 /\ page'.clicks = page.clicks /\ page'.preview = page.preview
      <3> PICK due : due = Due
        OBVIOUS
      <3>1. due \in BOOLEAN
        BY <1>0 DEF Due, LiveEnabled, Pages
      <3>2. page' = [page EXCEPT !.current = p, !.due = due]
        BY <2>2 DEF SelectProject
      <3> QED
        BY <1>0, <3>1, <3>2 DEF Pages
    <2> QED
      BY <2>1, <2>2
  <1>2. page' # NULL
    BY <1>1, PageAssumption
  <1>3. Typed' /\ board <= board' /\ \A p \in Project : version[p] <= version'[p]
    BY <1>0, <1>1, PageTyped
  <1>4. \A d \in Connection : Fades(connection[d], connection'[d])
    BY <1>0 DEF Fades
  <1> QED
    BY <1>0, <1>1, <1>2, <1>3, <1>4, QuietStep DEF session, reading, world, PageKeeps

\* The page asks for the state of its project, when it has no other request for one.
LEMMA PollKeeps ==
  ASSUME WorkbenchInv, UNCHANGED launchVars, NEW c \in Connection, Poll(c)
  PROVE  WorkbenchInv'
  <1> PICK digest : digest = IF page.digests[page.current] = NULL THEN MaxVersion + 1
                             ELSE page.digests[page.current]
    OBVIOUS
  <1> PICK request : request = StateOf(page.current, digest)
    OBVIOUS
  <1>0. /\ Typed /\ connection \in [Connection -> {NULL} \cup Links] /\ page \in Pages /\ page # NULL
        /\ DeliveredOnce /\ NothingBefore /\ ReadingsOrdered /\ TicketsOnce
        /\ kind' = kind /\ shot' = shot /\ status' = "ready" /\ running' = running
        /\ inFlight' = inFlight /\ last' = last /\ published' = published
        /\ version' = version /\ rendered' = rendered /\ visits' = visits /\ visits \in 0..MaxVisits
        /\ deliveries' = deliveries /\ deliveries \in {0, 1} /\ page.poll = NULL /\ Free(c)
        /\ connection' = Sent(c, request) /\ page' = [page EXCEPT !.due = FALSE, !.poll = c]
    BY DEF WorkbenchInv, Typed, Poll, Showing, session, reading, world
  <1>1. request \in StateAsks
    <2>1. page.current \in Project /\ page.digests \in [Project -> Version \cup {NULL}]
      BY <1>0 DEF Pages
    <2>2. MaxVersion + 1 \in Nat /\ Version \subseteq Nat
      BY SessionAssumption DEF Version
    <2>3. page.digests[page.current] \in Version \cup {NULL}
      BY <2>1
    <2>4. digest \in Nat
      BY <2>2, <2>3
    <2> QED
      BY <2>1, <2>4 DEF StateOf, StateAsks
  <1>2. request \in Asked /\ request.to = "state"
    BY <1>1 DEF Asked, StateAsks
  <1>3. connection[c] = NULL /\ \A h \in running : h.connection # c
    BY <1>0, <1>2, Sending
  <1> PICK y \in Links : Relinks(c, y) /\ y.request = request /\ y.phase = "sent" /\ ~Ok(y)
    BY <1>0, <1>2, Sending
  <1>4. /\ connection' \in [Connection -> {NULL} \cup Links] /\ connection'[c] = y
        /\ \A d \in Connection : d # c => connection'[d] = connection[d]
    BY <1>0, Relinking
  <1>5. /\ page' \in Pages /\ page'.shown = page.shown /\ page'.poll = c
        /\ page'.clicks = page.clicks /\ page'.preview = page.preview
    BY <1>0 DEF Pages
  <1>6. page' # NULL
    BY <1>5, PageAssumption
  <1>7. Typed' /\ board <= board' /\ \A p \in Project : version[p] <= version'[p]
    BY <1>0, <1>4, <1>5, PageTyped DEF Poll
  <1>8. FadesFor("page") /\ FadesFor("tickets") /\ ConnectionsStay
    BY <1>0, <1>2, <1>3, <1>4, OthersFade DEF For, ConnectionsStay
  <1>9. DeliveredOnce'
    BY <1>0, <1>8, DeliveredQuiet
  <1>10. NothingBefore'
    BY <1>0, DeliveredBefore, BeforeQuiet
  <1>11. ReadingsOrdered'
    <2>1. \A d \in Connection : ~For(connection[d], "state")
      BY <1>0, SessionAssumption DEF ReadingsOrdered, Connection
    <2>2. \A d \in Connection : For(connection[d], "state")' => d = c /\ ~Ok(connection[d])'
      BY <1>4, <2>1 DEF For
    <2>3. \A q, v : Between(q, v)' <=> Between(q, v)
      BY <1>0, <1>5, <1>6 DEF Between
    <2> QED
      BY <1>0, <1>5, <1>6, <2>2, <2>3 DEF ReadingsOrdered
  <1>12. TicketsOnce'
    BY <1>0, <1>5, <1>7, <1>8, TicketsQuiet
  <1> QED
    BY <1>0, <1>7, <1>9, <1>10, <1>11, <1>12, ReadyQuiet DEF WorkbenchInv

\* The project on the page takes the place of what the page showed of it.
Replaced(x, p, v, due) ==
    [[x EXCEPT !.poll = NULL] EXCEPT !.shown[p] = v, !.digests[p] = v, !.due = due]

LEMMA PageReplaced ==
  ASSUME NEW x \in Pages, NEW p \in Project, NEW v \in Version, NEW due \in BOOLEAN
  PROVE  /\ Replaced(x, p, v, due) \in Pages
         /\ Replaced(x, p, v, due).clicks = x.clicks /\ Replaced(x, p, v, due).preview = x.preview
         /\ Replaced(x, p, v, due).shown = [x.shown EXCEPT ![p] = v]
  <1> PICK y : y = Replaced(x, p, v, due)
    OBVIOUS
  <1> PICK shown : shown = [x.shown EXCEPT ![p] = v]
    OBVIOUS
  <1> PICK digests : digests = [x.digests EXCEPT ![p] = v]
    OBVIOUS
  <1>1. shown \in [Project -> Version] /\ digests \in [Project -> Version \cup {NULL}]
    BY DEF Pages
  <1>2. y = [x EXCEPT !.poll = NULL, !.shown = shown, !.digests = digests, !.due = due]
    BY DEF Pages, Replaced
  <1>3. y \in Pages /\ y.clicks = x.clicks /\ y.preview = x.preview /\ y.shown = shown
    BY <1>1, <1>2 DEF Pages
  <1> QED
    BY <1>3

\* What an answer about a state makes of the page.
LEMMA ReceivedState ==
  ASSUME WorkbenchInv, NEW c \in Connection, ReceiveState(c)
  PROVE  /\ page' \in Pages /\ page'.clicks = page.clicks /\ page'.preview = page.preview
         /\ \/ page'.shown = page.shown
            \/ \E q \in Project, v \in Nat :
                  /\ For(connection[c], "state") /\ Ok(connection[c])
                  /\ connection[c].answer.body.project = q /\ connection[c].answer.body.version = v
                  /\ page'.shown = [page.shown EXCEPT ![q] = v]
  <1> PICK p, v : p = connection[c].request.project /\ v = connection[c].answer.body.version
    OBVIOUS
  <1> PICK due : due = Due
    OBVIOUS
  <1>0. /\ Typed /\ page \in Pages /\ connection[c] \in Links /\ connection[c] # NULL
        /\ connection[c].request.to = "state" /\ connection[c].phase \in {"delivered", "cut"}
    BY DEF WorkbenchInv, Typed, ReceiveState, Settled, Showing
  <1>1. due \in BOOLEAN
    BY <1>0 DEF Due, LiveEnabled, Pages
  <1>2. CASE page' = [[page EXCEPT !.poll = NULL] EXCEPT !.active = FALSE, !.due = FALSE]
    BY <1>0, <1>2 DEF Pages
  <1>3. CASE page' = [[page EXCEPT !.poll = NULL] EXCEPT !.due = due]
    BY <1>0, <1>1, <1>3 DEF Pages
  <1>4. CASE /\ Code(c) = 200 /\ connection[c].answer.body.project = p
             /\ page' = [[page EXCEPT !.poll = NULL] EXCEPT !.shown[p] = v, !.digests[p] = v, !.due = due]
    <2>1. For(connection[c], "state") /\ Ok(connection[c])
      BY <1>0, <1>4 DEF Code, For, Ok
    <2>2. connection[c].request \in StateAsks
      BY <1>0, StateRequest
    <2>3. connection[c].answer.body \in Readings
      BY <1>0, <2>1, <2>2 DEF Links, Fits, Ok
    <2>4. p \in Project /\ v \in Version /\ v \in Nat
      BY <1>4, <2>3, SessionAssumption DEF Readings, Version
    <2>6. page' = Replaced(page, p, v, due)
      BY <1>4 DEF Replaced
    <2>8. /\ page' \in Pages /\ page'.clicks = page.clicks /\ page'.preview = page.preview
          /\ page'.shown = [page.shown EXCEPT ![p] = v]
      BY <1>0, <1>1, <2>4, <2>6, PageReplaced
    <2>9. /\ connection[c].answer.body.project = p /\ connection[c].answer.body.version = v
          /\ page'.shown = [page.shown EXCEPT ![p] = v]
      BY <1>4, <2>8
    <2> QED
      BY <2>1, <2>4, <2>8, <2>9
  <1>5. CASE Code(c) = 404
    <2>1. page' = [[page EXCEPT !.poll = NULL] EXCEPT !.active = FALSE, !.due = FALSE]
      BY <1>5 DEF ReceiveState
    <2> QED
      BY <1>2, <2>1
  <1>6. CASE Code(c) # 404 /\ Code(c) = 200 /\ connection[c].answer.body.project = p
    <2>1. page' = [[page EXCEPT !.poll = NULL] EXCEPT !.shown[p] = v, !.digests[p] = v, !.due = due]
      BY <1>6 DEF ReceiveState
    <2> QED
      BY <1>4, <1>6, <2>1
  <1>7. CASE Code(c) # 404 /\ ~(Code(c) = 200 /\ connection[c].answer.body.project = p)
    <2>1. page' = [[page EXCEPT !.poll = NULL] EXCEPT !.due = due]
      BY <1>7 DEF ReceiveState
    <2> QED
      BY <1>3, <2>1
  <1> QED
    BY <1>5, <1>6, <1>7

\* The page takes the answer about a state.
LEMMA ReceiveStateKeeps ==
  ASSUME WorkbenchInv, UNCHANGED launchVars, NEW c \in Connection, ReceiveState(c)
  PROVE  WorkbenchInv' /\ \A p \in Project : page.shown[p] <= page'.shown[p]
  <1>0. /\ Typed /\ page \in Pages /\ page # NULL
        /\ DeliveredOnce /\ NothingBefore /\ ClosedEmpty /\ ReadingsOrdered /\ TicketsOnce
        /\ kind' = kind /\ shot' = shot /\ status' = status /\ running' = running
        /\ inFlight' = inFlight /\ last' = last /\ published' = published
        /\ version' = version /\ rendered' = rendered /\ visits' = visits /\ visits \in 0..MaxVisits
        /\ deliveries' = deliveries /\ deliveries \in {0, 1} /\ For(connection[c], "state")
    BY DEF WorkbenchInv, Typed, ReceiveState, Settled, Showing, session, reading, world, For
  <1>1. /\ connection' \in [Connection -> {NULL} \cup Links] /\ connection'[c] = NULL
        /\ \A d \in Connection : d # c => connection'[d] = connection[d]
        /\ \A d \in Connection : Fades(connection[d], connection'[d])
    BY <1>0, Forgetting DEF ReceiveState
  <1>2. /\ page' \in Pages /\ page'.clicks = page.clicks /\ page'.preview = page.preview
        /\ \/ page'.shown = page.shown
           \/ \E q \in Project, v \in Nat :
                 /\ For(connection[c], "state") /\ Ok(connection[c])
                 /\ connection[c].answer.body.project = q /\ connection[c].answer.body.version = v
                 /\ page'.shown = [page.shown EXCEPT ![q] = v]
    BY ReceivedState
  <1>3. page' # NULL
    BY <1>2, PageAssumption
  <1>4. Typed' /\ board <= board' /\ \A p \in Project : version[p] <= version'[p]
    <2>1. UNCHANGED <<kind, listed, session, reading, running, world, faults, rendered>>
      BY DEF ReceiveState
    <2> QED
      BY <1>0, <1>1, <1>2, <2>1, PageTyped
  <1>5. FadesFor("page") /\ FadesFor("tickets") /\ ConnectionsStay
    BY <1>1, AllFade, FadesStay
  <1>6. DeliveredOnce'
    BY <1>0, <1>5, DeliveredQuiet
  <1>7. NothingBefore'
    BY <1>0, DeliveredBefore, BeforeQuiet
  <1>8. ClosedEmpty'
    BY <1>0, <1>1, ClosedQuiet
  <1>9. TicketsOnce'
    BY <1>0, <1>2, <1>4, <1>5, TicketsQuiet
  <1>10. \A d \in Connection : ~For(connection[d], "state")'
    BY <1>0, <1>1 DEF ReadingsOrdered, For
  <1>11. page.shown \in [Project -> Nat] /\ version \in [Project -> Nat] /\ rendered \in [Project -> Nat]
    BY <1>0, NaturalNumbers
  <1>12. CASE page'.shown = page.shown
    <2>1. \A q, v : Between(q, v)' <=> Between(q, v)
      BY <1>0, <1>3, <1>12 DEF Between
    <2>2. ReadingsOrdered'
      BY <1>0, <1>3, <1>10, <1>12, <2>1 DEF ReadingsOrdered
    <2>3. \A p \in Project : page.shown[p] <= page'.shown[p]
      BY <1>11, <1>12
    <2> QED
      BY <1>4, <1>6, <1>7, <1>8, <1>9, <2>2, <2>3 DEF WorkbenchInv
  <1>13. ASSUME NEW q \in Project, NEW v \in Nat, Ok(connection[c]),
                connection[c].answer.body.project = q, connection[c].answer.body.version = v,
                page'.shown = [page.shown EXCEPT ![q] = v]
         PROVE  WorkbenchInv' /\ \A p \in Project : page.shown[p] <= page'.shown[p]
    <2>1. /\ Between(q, v)
          /\ last # NULL /\ last.project = q => v <= last.version
          /\ inFlight # NULL /\ inFlight.version # NULL /\ inFlight.project = q =>
                v <= inFlight.version
      BY <1>0, <1>13 DEF ReadingsOrdered
    <2>2. page'.shown[q] = v /\ \A p \in Project : p # q => page'.shown[p] = page.shown[p]
      BY <1>11, <1>13
    <2>3. ASSUME NEW p \in Project, NEW n, Between(p, n), p = q => v <= n
          PROVE  Between(p, n)'
      BY <1>0, <1>3, <2>2, <2>3 DEF Between
    <2>4. \A p \in Project : page.shown[p] <= page'.shown[p] /\ page'.shown[p] <= version'[p]
      BY <1>0, <1>11, <2>1, <2>2 DEF Between, ReadingsOrdered
    <2>5. last' # NULL => Between(last.project, last.version)'
      BY <1>0, <2>1, <2>3, NaturalNumbers DEF ReadingsOrdered
    <2>6. inFlight' # NULL /\ inFlight'.version # NULL =>
             /\ Between(inFlight.project, inFlight.version)'
             /\ last' # NULL /\ last'.project = inFlight'.project => last'.version <= inFlight'.version
      BY <1>0, <2>1, <2>3, NaturalNumbers DEF ReadingsOrdered
    <2>7. \A p \in Project : rendered'[p] <= version'[p]
      BY <1>0 DEF ReadingsOrdered
    <2>8. ReadingsOrdered'
      BY <1>3, <1>10, <2>4, <2>5, <2>6, <2>7 DEF ReadingsOrdered
    <2> QED
      BY <1>4, <1>6, <1>7, <1>8, <1>9, <2>4, <2>8 DEF WorkbenchInv
  <1> QED
    BY <1>2, <1>12, <1>13

\* Another preview is asked for, under a number that nothing has.
LEMMA AskPreviewKeeps ==
  ASSUME WorkbenchInv, UNCHANGED launchVars, NEW c \in Connection, AskPreview(c)
  PROVE  WorkbenchInv'
  <1> PICK n : n = page.clicks + 1
    OBVIOUS
  <1> PICK request : request = Ticket("preview", Change(n, NULL))
    OBVIOUS
  <1>0. /\ Typed /\ connection \in [Connection -> {NULL} \cup Links] /\ page \in Pages /\ page # NULL
        /\ DeliveredOnce /\ NothingBefore /\ ReadingsOrdered /\ TicketsOnce
        /\ kind' = kind /\ shot' = shot /\ status' = "ready" /\ running' = running
        /\ inFlight' = inFlight /\ last' = last /\ published' = published
        /\ version' = version /\ rendered' = rendered /\ visits' = visits /\ visits \in 0..MaxVisits
        /\ deliveries' = deliveries /\ deliveries \in {0, 1} /\ Free(c)
        /\ connection' = Sent(c, request) /\ page' = [page EXCEPT !.clicks = n]
        /\ page.clicks < MaxClicks
    BY DEF WorkbenchInv, Typed, AskPreview, Showing, session, reading, world
  <1>1. page.clicks \in Nat /\ n \in Nat /\ page.clicks < n /\ n \in 0..MaxClicks
    <2>1. page.clicks \in 0..MaxClicks
      BY <1>0 DEF Pages
    <2> QED
      BY <1>0, <2>1, PageAssumption
  <1>2. /\ request \in PreviewAsks /\ request \in Asked /\ request.to = "tickets"
        /\ request.change.operation = n /\ request \notin ApplyAsks
    <2>1. Change(n, NULL) \in Wish /\ Change(n, NULL).operation = n
      BY <1>1 DEF Change, Wish
    <2> QED
      BY <2>1 DEF Ticket, PreviewAsks, ApplyAsks, TicketAsks, Asked
  <1>3. connection[c] = NULL /\ \A h \in running : h.connection # c
    BY <1>0, <1>2, Sending
  <1> PICK y \in Links : Relinks(c, y) /\ y.request = request /\ y.phase = "sent" /\ ~Ok(y)
    BY <1>0, <1>2, Sending
  <1>4. /\ connection' \in [Connection -> {NULL} \cup Links] /\ connection'[c] = y
        /\ \A d \in Connection : d # c => connection'[d] = connection[d]
    BY <1>0, Relinking
  <1>5. /\ page' \in Pages /\ page'.shown = page.shown /\ page'.poll = page.poll
        /\ page'.clicks = n /\ page'.preview = page.preview
    BY <1>0, <1>1 DEF Pages
  <1>6. page' # NULL
    BY <1>5, PageAssumption
  <1>7. Typed' /\ board <= board' /\ \A p \in Project : version[p] <= version'[p]
    BY <1>0, <1>4, <1>5, PageTyped DEF AskPreview
  <1>8. FadesFor("page") /\ FadesFor("state") /\ ConnectionsStay
    BY <1>0, <1>2, <1>3, <1>4, OthersFade DEF For, ConnectionsStay
  <1>9. DeliveredOnce'
    BY <1>0, <1>8, DeliveredQuiet
  <1>10. NothingBefore'
    BY <1>0, DeliveredBefore, BeforeQuiet
  <1>11. ReadingsOrdered'
    BY <1>0, <1>5, <1>6, <1>7, <1>8, ReadingsQuiet DEF PageKeeps
  <1>12. TicketsOnce'
    <2>1. HandlersMatch /\ AwaitedOnce /\ PublishedOnce /\ ClicksCount
      BY <1>0 DEF TicketsOnce
    <2>2. HandlersMatch'
      BY <1>0, <1>8, <2>1, MatchQuiet
    <2>3. ASSUME NEW d \in Connection, NEW m, AskedOn(d, m)'
          PROVE  AskedOn(d, m) \/ (d = c /\ m = n)
      BY <1>2, <1>4, <2>3 DEF AskedOn, For
    <2>4. \A m \in Nat : Awaited(m)' => Awaited(m) \/ m = n
      BY <1>0, <2>3 DEF Awaited, AskedBy
    <2>5. ASSUME NEW change \in Bound, NEW d \in Connection, HeldOn(d, change)' PROVE HeldOn(d, change)
      <3>1. d # c
        BY <1>2, <1>4, <2>5 DEF HeldOn, For
      <3> QED
        BY <1>4, <2>5, <3>1 DEF HeldOn, For, Ok
    <2>6. \A change \in Bound : Held(change)' => Held(change)
      BY <1>0, <1>5, <2>5 DEF Held, HeldBy
    <2>7. /\ \A m \in Nat : Awaited(m) => m # n
          /\ \A change \in Bound : Held(change) => change.operation # n
          /\ \A i \in DOMAIN published : published[i] # n
      <3>1. \A change \in Bound : change.operation \in Nat
        BY DEF Bound
      <3>2. \A i \in DOMAIN published : published[i] \in Nat
        BY <1>0 DEF Typed
      <3> QED
        BY <1>0, <1>1, <2>1, <3>1, <3>2 DEF ClicksCount
    <2>8. AwaitedOnce'
      <3>1. \A d, e \in Connection, m \in Nat : AskedOn(d, m)' /\ AskedOn(e, m)' => d = e
        BY <2>1, <2>3, <2>7 DEF AwaitedOnce, Awaited
      <3>2. \A h, g \in running, m \in Nat : AskedBy(h, m) /\ AskedBy(g, m) => h = g
        BY <2>1 DEF AwaitedOnce
      <3>3. \A d \in Connection, h \in running, m \in Nat : ~(AskedOn(d, m)' /\ AskedBy(h, m))
        BY <2>1, <2>3, <2>7 DEF AwaitedOnce, Awaited
      <3>4. \A h : \A m : AskedBy(h, m)' <=> AskedBy(h, m)
        BY DEF AskedBy
      <3> QED
        BY <1>0, <3>1, <3>2, <3>3, <3>4 DEF AwaitedOnce
    <2>9. PublishedOnce'
      <3>1. ASSUME NEW m \in Nat, Awaited(m)'
            PROVE  /\ \A i \in DOMAIN published : published[i] # m
                   /\ \A change \in Bound : Held(change)' => change.operation # m
        BY <2>1, <2>4, <2>6, <2>7, <3>1 DEF PublishedOnce
      <3>2. board \in Nat /\ board' \in Nat /\ \A change \in Bound : change.base \in Nat
        <4>1. board \in Changes /\ board' \in Changes /\ \A change \in Bound : change.base \in Changes
          BY <1>0, <1>7 DEF Typed, Bound
        <4>2. Changes \subseteq Nat
          BY SessionAssumption DEF Changes
        <4> QED
          BY <4>1, <4>2
      <3>3. \A i \in DOMAIN published, change \in Bound :
               Held(change)' /\ change.operation = published[i] => change.base < board'
        BY <1>7, <2>1, <2>6, <3>2 DEF PublishedOnce
      <3> QED
        BY <1>0, <2>1, <2>6, <3>1, <3>3 DEF PublishedOnce
    <2>10. ClicksCount'
      <3>1. \A m \in Nat : m <= page.clicks \/ m = n => m <= n
        BY <1>1
      <3>2. \A change \in Bound : change.operation \in Nat
        BY DEF Bound
      <3>3. \A i \in DOMAIN published : published[i] \in Nat
        BY <1>0 DEF Typed
      <3> QED
        BY <1>0, <1>5, <2>1, <2>4, <2>6, <3>1, <3>2, <3>3 DEF ClicksCount
    <2> QED
      BY <2>2, <2>8, <2>9, <2>10 DEF TicketsOnce
  <1> QED
    BY <1>0, <1>7, <1>9, <1>10, <1>11, <1>12, ReadyQuiet DEF WorkbenchInv

\* The previewed change is confirmed, once more perhaps.
LEMMA ConfirmKeeps ==
  ASSUME WorkbenchInv, UNCHANGED launchVars, NEW c \in Connection, Confirm(c)
  PROVE  WorkbenchInv'
  <1> PICK request : request = Ticket("apply", page.preview)
    OBVIOUS
  <1>0. /\ Typed /\ connection \in [Connection -> {NULL} \cup Links] /\ page \in Pages /\ page # NULL
        /\ DeliveredOnce /\ NothingBefore /\ ReadingsOrdered /\ TicketsOnce
        /\ kind' = kind /\ shot' = shot /\ status' = "ready" /\ running' = running
        /\ inFlight' = inFlight /\ last' = last /\ published' = published
        /\ version' = version /\ rendered' = rendered /\ visits' = visits /\ visits \in 0..MaxVisits
        /\ deliveries' = deliveries /\ deliveries \in {0, 1} /\ Free(c) /\ page' = page
        /\ connection' = Sent(c, request) /\ page.preview # NULL
    BY DEF WorkbenchInv, Typed, Confirm, Showing, session, reading, world, pageVars
  <1>1. /\ request \in ApplyAsks /\ request \in Asked /\ request.to = "tickets"
        /\ request.change = page.preview /\ request \notin PreviewAsks
    <2>1. page.preview \in Bound
      BY <1>0 DEF Pages
    <2> QED
      BY <2>1 DEF Ticket, ApplyAsks, PreviewAsks, TicketAsks, Asked
  <1>2. connection[c] = NULL /\ \A h \in running : h.connection # c
    BY <1>0, <1>1, Sending
  <1> PICK y \in Links : Relinks(c, y) /\ y.request = request /\ y.phase = "sent" /\ ~Ok(y)
    BY <1>0, <1>1, Sending
  <1>3. /\ connection' \in [Connection -> {NULL} \cup Links] /\ connection'[c] = y
        /\ \A d \in Connection : d # c => connection'[d] = connection[d]
    BY <1>0, Relinking
  <1>4. Typed' /\ board <= board' /\ \A p \in Project : version[p] <= version'[p]
    BY <1>0, <1>3, PageTyped DEF Confirm
  <1>5. FadesFor("page") /\ FadesFor("state") /\ ConnectionsStay
    BY <1>0, <1>1, <1>2, <1>3, OthersFade DEF For, ConnectionsStay
  <1>6. DeliveredOnce'
    BY <1>0, <1>5, DeliveredQuiet
  <1>7. NothingBefore'
    BY <1>0, DeliveredBefore, BeforeQuiet
  <1>8. ReadingsOrdered'
    BY <1>0, <1>4, <1>5, ReadingsQuiet DEF PageKeeps
  <1>9. TicketsOnce'
    <2>1. HandlersMatch /\ AwaitedOnce /\ PublishedOnce /\ ClicksCount
      BY <1>0 DEF TicketsOnce
    <2>2. HandlersMatch'
      BY <1>0, <1>5, <2>1, MatchQuiet
    <2>3. ASSUME NEW d \in Connection, NEW m, AskedOn(d, m)' PROVE AskedOn(d, m)
      BY <1>1, <1>3, <2>3 DEF AskedOn, For
    <2>4. \A m \in Nat : Awaited(m)' => Awaited(m)
      BY <1>0, <2>3 DEF Awaited, AskedBy
    <2>5. ASSUME NEW change \in Bound, NEW d \in Connection, HeldOn(d, change)' PROVE Held(change)
      <3>1. CASE d = c
        BY <1>0, <1>1, <1>3, <2>5, <3>1 DEF HeldOn, Held
      <3>2. CASE d # c
        BY <1>3, <2>5, <3>2 DEF HeldOn, For, Ok, Held
      <3> QED
        BY <3>1, <3>2
    <2>6. \A change \in Bound : Held(change)' => Held(change)
      BY <1>0, <2>5 DEF Held, HeldBy
    <2>7. AwaitedOnce'
      BY <1>0, <2>1, <2>3 DEF AwaitedOnce, AskedBy
    <2>8. PublishedOnce' /\ ClicksCount'
      BY <1>0, <1>4, <2>1, <2>4, <2>6, SetsQuiet
    <2> QED
      BY <2>2, <2>7, <2>8 DEF TicketsOnce
  <1> QED
    BY <1>0, <1>4, <1>6, <1>7, <1>8, <1>9, ReadyQuiet DEF WorkbenchInv

\* What an answer about tickets makes of the page.
LEMMA ReceivedTickets ==
  ASSUME WorkbenchInv, NEW c \in Connection, ReceiveTickets(c)
  PROVE  /\ page' \in Pages /\ page'.clicks = page.clicks /\ page'.shown = page.shown
         /\ page'.poll = page.poll
         /\ page'.preview # NULL => Held(page'.preview) /\ page'.preview \in Bound
  <1> PICK body : body = connection[c].answer.body
    OBVIOUS
  <1>0. /\ Typed /\ page \in Pages /\ page # NULL /\ connection[c] \in Links /\ connection[c] # NULL
        /\ connection[c].request.to = "tickets" /\ connection[c].phase \in {"delivered", "cut"}
    BY DEF WorkbenchInv, Typed, ReceiveTickets, Settled, Showing
  <1>1. Code(c) = 200 => Ok(connection[c]) /\ Fits(connection[c].request, body)
    BY <1>0 DEF Code, Ok, Links
  <1>2. CASE page' = page
    BY <1>0, <1>2 DEF Pages, Held
  <1>3. CASE page' = [page EXCEPT !.preview = NULL]
    BY <1>0, <1>3 DEF Pages
  <1>4. CASE /\ Code(c) = 200 /\ connection[c].request.action = "preview"
             /\ page' = [page EXCEPT !.preview = body]
    <2>1. connection[c].request \in PreviewAsks
      BY <1>0, <1>4, TicketRequest
    <2>2. body \in Bound
      BY <1>1, <1>4, <2>1 DEF Fits
    <2>3. HeldOn(c, body)
      BY <1>0, <1>1, <1>4, <2>1 DEF HeldOn, For
    <2>4. Held(body)
      BY <2>3 DEF Held
    <2>5. /\ page' \in Pages /\ page'.clicks = page.clicks /\ page'.shown = page.shown
          /\ page'.poll = page.poll /\ page'.preview = body
      BY <1>0, <1>4, <2>2 DEF Pages
    <2> QED
      BY <2>2, <2>4, <2>5
  <1>5. CASE /\ Code(c) = 200 /\ connection[c].request.action = "apply"
             /\ page' = [page EXCEPT !.preview = NULL, !.tickets = body]
    <2>1. connection[c].request \in ApplyAsks
      BY <1>0, <1>5, TicketRequest
    <2>2. body \in Changes
      BY <1>1, <1>5, <2>1 DEF Fits
    <2> QED
      BY <1>0, <1>5, <2>2 DEF Pages
  <1>6. \/ page' = page \/ page' = [page EXCEPT !.preview = NULL]
        \/ /\ Code(c) = 200 /\ connection[c].request.action = "preview"
           /\ page' = [page EXCEPT !.preview = body]
        \/ /\ Code(c) = 200 /\ connection[c].request.action = "apply"
           /\ page' = [page EXCEPT !.preview = NULL, !.tickets = body]
    BY DEF ReceiveTickets
  <1> QED
    BY <1>2, <1>3, <1>4, <1>5, <1>6

\* The page takes the answer about its tickets.
LEMMA ReceiveTicketsKeeps ==
  ASSUME WorkbenchInv, UNCHANGED launchVars, NEW c \in Connection, ReceiveTickets(c)
  PROVE  WorkbenchInv' /\ page'.shown = page.shown
  <1>0. /\ Typed /\ page \in Pages /\ page # NULL
        /\ DeliveredOnce /\ NothingBefore /\ ClosedEmpty /\ ReadingsOrdered /\ TicketsOnce
        /\ kind' = kind /\ shot' = shot /\ status' = status /\ running' = running
        /\ inFlight' = inFlight /\ last' = last /\ published' = published
        /\ version' = version /\ rendered' = rendered /\ visits' = visits /\ visits \in 0..MaxVisits
        /\ deliveries' = deliveries /\ deliveries \in {0, 1}
    BY DEF WorkbenchInv, Typed, ReceiveTickets, Showing, session, reading, world
  <1>1. /\ connection' \in [Connection -> {NULL} \cup Links]
        /\ \A d \in Connection : Fades(connection[d], connection'[d])
    BY <1>0, Forgetting DEF ReceiveTickets
  <1>2. /\ page' \in Pages /\ page'.clicks = page.clicks /\ page'.shown = page.shown
        /\ page'.poll = page.poll /\ page' # NULL
        /\ page'.preview # NULL => Held(page'.preview) /\ page'.preview \in Bound
    BY ReceivedTickets, PageAssumption
  <1>3. Typed' /\ board <= board' /\ \A p \in Project : version[p] <= version'[p]
    <2>1. UNCHANGED <<kind, listed, session, reading, running, world, faults, rendered>>
      BY DEF ReceiveTickets
    <2> QED
      BY <1>0, <1>1, <1>2, <2>1, PageTyped
  <1>4. FadesFor("page") /\ FadesFor("state") /\ FadesFor("tickets") /\ ConnectionsStay
    BY <1>1, AllFade, FadesStay
  <1>5. DeliveredOnce'
    BY <1>0, <1>4, DeliveredQuiet
  <1>6. NothingBefore'
    BY <1>0, DeliveredBefore, BeforeQuiet
  <1>7. ClosedEmpty'
    BY <1>0, <1>1, ClosedQuiet
  <1>8. ReadingsOrdered'
    BY <1>0, <1>2, <1>3, <1>4, ReadingsQuiet DEF PageKeeps
  <1>9. TicketsOnce'
    <2>1. HandlersMatch /\ AwaitedOnce /\ PublishedOnce /\ ClicksCount
      BY <1>0 DEF TicketsOnce
    <2>2. HandlersMatch'
      BY <1>0, <1>4, <2>1, MatchQuiet
    <2>3. ASSUME NEW d \in Connection, NEW m, AskedOn(d, m)' PROVE AskedOn(d, m)
      BY <1>4, <2>3 DEF AskedOn, FadesFor
    <2>4. \A m \in Nat : Awaited(m)' => Awaited(m)
      BY <1>0, <2>3 DEF Awaited, AskedBy
    <2>5. ASSUME NEW change \in Bound, NEW d \in Connection, HeldOn(d, change)' PROVE HeldOn(d, change)
      BY <1>4, <2>5 DEF HeldOn, FadesFor
    <2>6. \A change \in Bound : Held(change)' => Held(change)
      BY <1>0, <1>2, <2>5 DEF Held, HeldBy
    <2>7. AwaitedOnce'
      BY <1>0, <2>1, <2>3 DEF AwaitedOnce, AskedBy
    <2>8. PublishedOnce' /\ ClicksCount'
      BY <1>0, <1>2, <1>3, <2>1, <2>4, <2>6, SetsQuiet
    <2> QED
      BY <2>2, <2>7, <2>8 DEF TicketsOnce
  <1> QED
    BY <1>2, <1>3, <1>5, <1>6, <1>7, <1>8, <1>9 DEF WorkbenchInv

\* Every step of the page; and none shows anything older.
LEMMA PageKeepsInv ==
  ASSUME WorkbenchInv, UNCHANGED launchVars, PageStep
  PROVE  /\ WorkbenchInv'
         /\ page # NULL /\ page' # NULL => \A p \in Project : page.shown[p] <= page'.shown[p]
  <1>0. page # NULL => page \in Pages /\ \A p \in Project : page.shown[p] \in Nat
    BY NaturalNumbers DEF WorkbenchInv, Typed
  <1>1. CASE \E c \in Connection : Navigate(c)
    BY <1>0, <1>1, NavigateKeeps DEF Navigate
  <1>2. ASSUME NEW c \in Connection, Load(c)
        PROVE  /\ WorkbenchInv'
               /\ page # NULL /\ page' # NULL => \A p \in Project : page.shown[p] <= page'.shown[p]
    <2>1. page # NULL => page' = page
      BY <1>2 DEF Load
    <2> QED
      BY <1>0, <1>2, <2>1, LoadKeeps
  <1>3. CASE \E c \in Connection : Poll(c)
    <2> PICK c \in Connection : Poll(c)
      BY <1>3
    <2>1. page'.shown = page.shown
      BY <1>0 DEF Poll, Showing, Pages
    <2> QED
      BY <1>0, <2>1, PollKeeps
  <1>4. CASE \E c \in Connection : ReceiveState(c)
    BY <1>4, ReceiveStateKeeps
  <1>5. CASE \E c \in Connection : AskPreview(c)
    <2> PICK c \in Connection : AskPreview(c)
      BY <1>5
    <2>1. page'.shown = page.shown
      BY <1>0 DEF AskPreview, Showing, Pages
    <2> QED
      BY <1>0, <2>1, AskPreviewKeeps
  <1>6. CASE \E c \in Connection : Confirm(c)
    BY <1>0, <1>6, ConfirmKeeps DEF Confirm, pageVars
  <1>7. CASE \E c \in Connection : ReceiveTickets(c)
    BY <1>0, <1>7, ReceiveTicketsKeeps
  <1>8. CASE PollBusy \/ \E p \in Project : SelectProject(p)
    <2>1. page'.shown = page.shown
      BY <1>0, <1>8 DEF PollBusy, SelectProject, Showing, Pages
    <2> QED
      BY <1>0, <1>8, <2>1, PageTurns
  <1>9. CASE Leave
    BY <1>9, LeaveKeeps DEF Leave
  <1> QED
    BY <1>1, <1>2, <1>3, <1>4, <1>5, <1>6, <1>7, <1>8, <1>9 DEF PageStep

-----------------------------------------------------------------------------
(* The invariant, and what follows. *)

LEMMA InitialState == Init => WorkbenchInv
  <1> SUFFICES ASSUME Init PROVE WorkbenchInv
    OBVIOUS
  <1>1. 0 \in Version /\ 0 \in Changes /\ 0 \in 0..MaxFaults /\ 0 \in 0..MaxVisits /\ 0 \in {0, 1}
    BY SessionAssumption, PageAssumption DEF Version, Changes
  <1>2. kind \in Kind /\ listed \subseteq Project /\ listed # {}
    <2>1. KindOf(asked) \in Kind
      BY DEF KindOf, Kind
    <2>2. (CHOOSE p \in Project : TRUE) \in Project
      BY SessionAssumption
    <2> QED
      BY <2>1, <2>2, SessionAssumption DEF Init
  <1>3. /\ version = [p \in Project |-> 0] /\ rendered = version
        /\ connection = [c \in Connection |-> NULL] /\ running = {} /\ published = <<>>
        /\ inFlight = NULL /\ last = NULL /\ page = NULL /\ visits = 0 /\ deliveries = 0
        /\ status = "listening" /\ board = 0 /\ faults = 0 /\ timers = {} /\ reason = "explicit"
    BY DEF Init, InitSession, InitPage
  <1>4. shot \in {NULL, "available"} /\ (kind = "oneShot" => shot = "available")
    BY DEF Init, InitSession
  <1>5. LaunchTypeOK
    BY DEF Init, LaunchTypeOK
  <1>6. Typed
    <2>1. version \in [Project -> Version] /\ rendered \in [Project -> Version]
      BY <1>1, <1>3
    <2>2. connection \in [Connection -> {NULL} \cup Links] /\ published \in Seq(Nat)
      BY <1>3
    <2> QED
      BY <1>1, <1>2, <1>3, <1>4, <1>5, <2>1, <2>2 DEF Typed
  <1>7. \A c \in Connection : connection[c] = NULL
    BY <1>3
  <1>8. DeliveredOnce
    BY <1>3, <1>4, <1>7, SessionAssumption DEF DeliveredOnce, Carries, For
  <1>9. NothingBefore /\ ClosedEmpty
    BY <1>3, <1>7 DEF NothingBefore, ClosedEmpty, Open
  <1>10. ReadingsOrdered
    BY <1>3, <1>7 DEF ReadingsOrdered, For
  <1>11. TicketsOnce
    <2>1. /\ \A n : ~Awaited(n)
          /\ \A change : ~Held(change)
      BY <1>3, <1>7 DEF Awaited, AskedOn, Held, HeldOn, For
    <2>2. DOMAIN published = {}
      BY <1>3
    <2> QED
      BY <1>3, <1>7, <2>1, <2>2
         DEF TicketsOnce, HandlersMatch, AwaitedOnce, PublishedOnce, ClicksCount, AskedOn, For
  <1> QED
    BY <1>6, <1>8, <1>9, <1>10, <1>11 DEF WorkbenchInv

\* Nothing happens.
LEMMA StutterKeeps ==
  ASSUME WorkbenchInv, UNCHANGED vars
  PROVE  WorkbenchInv'
  <1>1. LaunchTypeOK'
    BY LaunchStays DEF WorkbenchInv, Typed, vars
  <1> QED
    BY <1>1, LaunchMoves DEF vars, pageVars

LEMMA StepKeeps == WorkbenchInv /\ [Next]_vars => WorkbenchInv'
  <1> SUFFICES ASSUME WorkbenchInv, [Next]_vars PROVE WorkbenchInv'
    OBVIOUS
  <1>1. CASE LaunchStep
    BY <1>1, LaunchKeeps
  <1>2. CASE (ServerStep \/ IdleEnds) /\ UNCHANGED <<pageVars, launchVars>>
    BY <1>2, ServerKeeps
  <1>3. CASE PageStep /\ UNCHANGED launchVars
    BY <1>3, PageKeepsInv
  <1>4. CASE UNCHANGED vars
    BY <1>4, StutterKeeps
  <1> QED
    BY <1>1, <1>2, <1>3, <1>4 DEF Next, IdleWithoutHeartbeat, BrowserStep

\* WorkbenchInv is inductive, whatever connections are lost, readings fail, deadlines
\* pass, and however often the user previews, confirms, leaves and navigates.
THEOREM Invariance == WorkbenchSpec => []WorkbenchInv
  BY InitialState, StepKeeps, PTL DEF WorkbenchSpec

\* A page for one consumer is delivered once, each confirmed ticket change is
\* published once, however often it is confirmed, and a closed session has no
\* connection.
THEOREM OnceOnly == WorkbenchSpec => []AtMostOnce
  <1>1. WorkbenchInv => AtMostOnce
    <2> SUFFICES ASSUME WorkbenchInv PROVE AtMostOnce
      OBVIOUS
    <2>0. Typed /\ DeliveredOnce /\ ClosedEmpty /\ TicketsOnce
      BY DEF WorkbenchInv
    <2>1. ASSUME NEW c \in Connection, connection[c] # NULL
          PROVE  connection[c].phase \in {"sent", "waiting", "answered", "delivered", "cut"}
      <3>1. connection[c] \in Links
        BY <2>0, <2>1 DEF Typed
      <3> QED
        BY <3>1 DEF Links
    <2>2. \A h \in running : h.connection \in Connection
      BY <2>0 DEF Typed, Handlers
    <2>3. SessionTypeOK
      BY <2>0, <2>1, <2>2 DEF SessionTypeOK, Typed
    <2>4. PageTypeOK
      BY <2>0, PageAssumption DEF PageTypeOK, Typed
    <2>5. WorkbenchTypeOK
      BY <2>0, <2>3, <2>4 DEF WorkbenchTypeOK, Typed
    <2>6. deliveries <= 1
      BY <2>0 DEF Typed
    <2>7. \A i, j \in DOMAIN published : published[i] = published[j] => i = j
      BY <2>0 DEF TicketsOnce, PublishedOnce
    <2> QED
      BY <2>0, <2>5, <2>6, <2>7 DEF AtMostOnce, ClosedEmpty
  <1> QED
    BY <1>1, Invariance, PTL

\* The page never goes back: with one request for a state at a time, an answer that
\* was read before can only be followed by one that was read later.
THEOREM NeverOlder == WorkbenchSpec => ShownNeverOlder
  <1>1. WorkbenchInv /\ [Next]_vars =>
          [page # NULL /\ page' # NULL => \A p \in Project : page'.shown[p] >= page.shown[p]]_vars
    <2> SUFFICES ASSUME WorkbenchInv, [Next]_vars, page # NULL, page' # NULL, NEW p \in Project
                 PROVE  page'.shown[p] >= page.shown[p]
      OBVIOUS
    <2>1. page.shown[p] \in Nat
      BY NaturalNumbers DEF WorkbenchInv
    <2>2. page'.shown[p] \in Nat
      <3>1. Typed'
        BY StepKeeps DEF WorkbenchInv
      <3>2. page' \in Pages /\ Version \subseteq Nat
        BY <3>1, SessionAssumption DEF Typed, Version
      <3> QED
        BY <3>2 DEF Pages
    <2>3. page' = page \/ (PageStep /\ UNCHANGED launchVars)
      BY DEF Next, BrowserStep, LaunchStep, Generate, Stage, RenameReport, PublicationFails,
             ConfirmPublication, OtherPublishes, OpenFile, CatalogFails, StartServer, OpenChrome, SessionOver,
             Interrupt, pageVars, vars
    <2> QED
      BY <2>1, <2>2, <2>3, PageKeepsInv
  <1> QED
    BY <1>1, Invariance, PTL DEF WorkbenchSpec, ShownNeverOlder
=============================================================================
