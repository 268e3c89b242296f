--------------------------- MODULE MissionDeskProofs ---------------------------
(***************************************************************************)
(* What holds of the My Work tools for any number of processes, missions,   *)
(* tickets, calls and corrections.  Inv is inductive: every ticket of the    *)
(* store is a right one (TicketsInv), every call was recorded on its ticket  *)
(* before it was made (CallsInv), what a process remembers of the store      *)
(* still fits it (DeskInv), and without a race nobody is about to make a     *)
(* call that somebody made or is about to make (Alone).                      *)
(***************************************************************************)
EXTENDS MissionDesk, SequenceTheorems, WellFoundedInduction, TLAPS

-----------------------------------------------------------------------------
(* Types. *)

\* A value, or the absence of one.
Maybe(S) == S \cup {NoValue}

\* What the observers can report of a receipt.
Observations ==
    [receipt : Receipt, lifecycle : {"running", "failed", "completed"},
     pr : {"none", "merged", "open", "closed"}]

\* The fields of a ticket of the store.
Ticket ==
    [state : TICKET_STATES, duplicate_of : Maybe(1 .. MaxTickets), mission : Fingerprint,
     contract : Maybe(Fingerprint), submitted : BOOLEAN, continued : SUBSET Nat,
     launch : Maybe(Receipt), run : Maybe(Receipt), synced : Maybe(Observations),
     blocker : Maybe({"attempt", "failed", "closed", "no_pr"}), activity : Nat]

\* A call that the controller took.
Call ==
    [ticket : 1 .. MaxTickets, agent : 1 .. MaxCalls, number : 0 .. MaxCorrections,
     fingerprint : Fingerprint]

\* What a process remembers, by the tool that it runs.
PrepareState ==
    [at : {"creating", "contracting", "prepared"}, tool : {"prepare", "launch"},
     ticket : 1 .. MaxTickets, fingerprint : Fingerprint]
LaunchState ==
    [at : {"submitting", "calling", "launch_failing"}, ticket : 1 .. MaxTickets,
     tool : {"launch"}, fingerprint : Fingerprint, saw : BOOLEAN]
AttachState ==
    [at : {"attaching", "recording", "launch_failing"}, tool : {"launch", "attach"},
     ticket : 1 .. MaxTickets, receipt : Receipt, supplied : Maybe(Fingerprint)]
RunState ==
    [at : {"run_submitting", "run_calling", "run_failing"}, ticket : 1 .. MaxTickets,
     number : 1 .. MaxCorrections, agent : 1 .. MaxCalls, fingerprint : Fingerprint,
     contract : Fingerprint, saw : BOOLEAN]
RunRecordState ==
    [at : {"run_recording", "run_failing"}, ticket : 1 .. MaxTickets,
     contract : Fingerprint, receipt : Receipt]
SyncState ==
    [at : {"syncing"}, ticket : Nat, before : Seq(Maybe(Receipt))]
SeenState ==
    [at : {"observed"}, ticket : Nat, before : Seq(Maybe(Receipt)), seen : Observations]

-----------------------------------------------------------------------------
(* The inductive invariant. *)

\* The receipt, if any, of a call made under fingerprint m.
Belongs(r, m, cs) ==
    r = NoValue \/ /\ r \in Receipt /\ r.fingerprint = m
                   /\ r.id \in 1 .. Len(cs)
                   /\ cs[r.id].agent = r.agent /\ cs[r.id].fingerprint = m

\* A right ticket: a duplicate exactly when it names what it duplicates, room
\* left in its activity, receipts of calls made for its own mission, the run
\* by the agent of the launch.  Its contract is for its mission unless a ticket
\* once got another number than its mission was made for.
TicketOK(t, cs, mis) ==
    /\ t \in Ticket
    /\ (t.state = "Duplicate") <=> (t.duplicate_of # NoValue)
    /\ t.activity <= MAX_ACTIVITY
    /\ Belongs(t.launch, t.mission, cs) /\ Belongs(t.run, t.mission, cs)
    /\ t.run # NoValue => t.launch # NoValue /\ t.run.agent = t.launch.agent
    /\ t.contract \notin {NoValue, t.mission} => mis

\* The receipt of a call that was made.
Known(r, cs) ==
    r.id \in 1 .. Len(cs) /\ cs[r.id].agent = r.agent

\* What a process remembers when it prepares, launches, attaches, continues or
\* synchronises fits the store that it read earlier.
PrepareOK(d, ts, mis) ==
    /\ d \in PrepareState
    /\ d.at = "creating" => d.ticket <= Len(ts) + 1
    /\ d.at # "creating" => d.ticket \in 1 .. Len(ts)
    /\ d.at = "contracting" => mis \/ d.fingerprint = ts[d.ticket].mission

LaunchOK(d, ts) ==
    /\ d \in LaunchState /\ d.ticket \in 1 .. Len(ts)
    /\ d.at = "submitting" => d.saw = FALSE
    /\ d.at = "calling" => ts[d.ticket].submitted = TRUE

AttachOK(d, ts, cs) ==
    /\ d \in AttachState /\ d.ticket \in 1 .. Len(ts)
    /\ Known(d.receipt, cs)
    /\ d.receipt.fingerprint \in {cs[d.receipt.id].fingerprint, NoValue}
    /\ d.at = "recording" => d.receipt.fingerprint = ts[d.ticket].mission

RunOK(d, ts) ==
    /\ d \in RunState /\ d.ticket \in 1 .. Len(ts)
    /\ ts[d.ticket].launch # NoValue
    /\ d.at = "run_submitting" => d.saw = FALSE
    /\ d.at = "run_calling" => d.number \in ts[d.ticket].continued

RunRecordOK(d, ts, cs) ==
    /\ d \in RunRecordState /\ d.ticket \in 1 .. Len(ts)
    /\ Known(d.receipt, cs)
    /\ d.receipt.fingerprint = cs[d.receipt.id].fingerprint

SyncOK(d, ts) ==
    /\ d \in SyncState /\ Len(d.before) <= Len(ts) /\ d.ticket \in 1 .. Len(d.before)

SeenOK(d, ts, mg) ==
    /\ d \in SeenState /\ Len(d.before) <= Len(ts) /\ d.ticket \in 1 .. Len(d.before)
    /\ d.seen.pr = "merged" => d.seen.receipt.agent \in mg

\* A process is free or runs one of the tools.
DeskOK(d, ts, cs, mg, mis) ==
    \/ d = Free
    \/ PrepareOK(d, ts, mis) \/ LaunchOK(d, ts) \/ AttachOK(d, ts, cs)
    \/ RunOK(d, ts) \/ RunRecordOK(d, ts, cs)
    \/ SyncOK(d, ts) \/ SeenOK(d, ts, mg)

\* The store holds right tickets, and duplicates name another ticket of it.
TicketsInv ==
    /\ tickets \in Seq(Ticket) /\ Len(tickets) <= MaxTickets
    /\ \A i \in 1 .. Len(tickets) :
          /\ TicketOK(tickets[i], calls, misnumbered)
          /\ tickets[i].duplicate_of \in Maybe((1 .. Len(tickets)) \ {i})

\* A call is recorded on its ticket before it is made.
Submitted(t, n) == IF n = 0 THEN t.submitted = TRUE ELSE n \in t.continued

\* Calls were recorded before they were made, and the first call of an agent
\* bears the agent's number.
CallsInv ==
    /\ calls \in Seq(Call) /\ Len(calls) <= MaxCalls
    /\ merged \subseteq 1 .. Len(calls)
    /\ \A x \in 1 .. Len(calls) :
          /\ calls[x].ticket \in 1 .. Len(tickets)
          /\ Submitted(tickets[calls[x].ticket], calls[x].number)
          /\ calls[x].number = 0 => calls[x].agent = x

\* Every process remembers what fits the store.
DeskInv ==
    /\ DOMAIN desk = Process
    /\ \A p \in Process : DeskOK(desk[p], tickets, calls, merged, misnumbered)
    /\ raced \in BOOLEAN /\ misnumbered \in BOOLEAN
    /\ client.missions \subseteq Mission

\* The call that a process is about to make, and those made.
Calling(d) == d.at \in {"calling", "run_calling"}
Number(d) == IF d.at = "calling" THEN 0 ELSE d.number
Made(cs, i, n) == \E x \in 1 .. Len(cs) : cs[x].ticket = i /\ cs[x].number = n

\* Without a race, no process is about to make a call that was made or that
\* another one is about to make, and no call was made twice.
Alone ==
    raced = FALSE =>
        /\ \A p \in Process : Calling(desk[p]) => ~Made(calls, desk[p].ticket, Number(desk[p]))
        /\ \A p, q \in Process :
              /\ p # q /\ Calling(desk[p]) /\ Calling(desk[q])
              /\ desk[p].ticket = desk[q].ticket
              => Number(desk[p]) # Number(desk[q])
        /\ \A x, y \in 1 .. Len(calls) :
              x # y /\ calls[x].ticket = calls[y].ticket => calls[x].number # calls[y].number

\* The inductive invariant.
Inv == TicketsInv /\ CallsInv /\ DeskInv /\ Alone

-----------------------------------------------------------------------------
(* What later states keep. *)

\* A later version of a ticket: its mission, its launch and what was submitted
\* on it stay.
Extends(t, u) ==
    /\ u.mission = t.mission
    /\ t.launch # NoValue => u.launch = t.launch
    /\ t.submitted = TRUE => u.submitted = TRUE
    /\ t.continued \subseteq u.continued

\* A later store, and later calls of the controller.
Grown(ts, us) == Len(ts) <= Len(us) /\ \A i \in 1 .. Len(ts) : Extends(ts[i], us[i])

CallsGrown(cs, ds) == Len(cs) <= Len(ds) /\ \A x \in 1 .. Len(cs) : ds[x] = cs[x]

\* What a process remembers still fits when the store and the calls grow, whoever
\* makes them grow.
LEMMA DeskKept ==
  ASSUME NEW ts \in Seq(Ticket), NEW us \in Seq(Ticket), NEW cs \in Seq(Call), NEW ds \in Seq(Call),
         NEW mg, NEW mh, NEW mis, NEW mit, Grown(ts, us), CallsGrown(cs, ds),
         mg \subseteq mh, mis => mit, NEW d, DeskOK(d, ts, cs, mg, mis)
  PROVE  DeskOK(d, us, ds, mh, mit)
  <1> USE DEF Grown
  <1>0. Len(ts) \in Nat /\ Len(us) \in Nat /\ Len(cs) \in Nat /\ Len(ds) \in Nat
    OBVIOUS
  <1>1. CASE PrepareOK(d, ts, mis)
    <2>1. PrepareOK(d, us, mit)
      BY <1>0, <1>1 DEF PrepareOK, Extends, PrepareState
    <2> QED
      BY <2>1 DEF DeskOK
  <1>2. CASE LaunchOK(d, ts)
    <2>1. LaunchOK(d, us)
      BY <1>0, <1>2 DEF LaunchOK, Extends
    <2> QED
      BY <2>1 DEF DeskOK
  <1>3. CASE AttachOK(d, ts, cs)
    <2>1. AttachOK(d, us, ds)
      BY <1>0, <1>3 DEF AttachOK, Extends, Known, CallsGrown
    <2> QED
      BY <2>1 DEF DeskOK
  <1>4. CASE RunOK(d, ts)
    <2>1. RunOK(d, us)
      BY <1>0, <1>4 DEF RunOK, Extends
    <2> QED
      BY <2>1 DEF DeskOK
  <1>5. CASE RunRecordOK(d, ts, cs)
    <2>1. RunRecordOK(d, us, ds)
      BY <1>0, <1>5 DEF RunRecordOK, Known, CallsGrown
    <2> QED
      BY <2>1 DEF DeskOK
  <1>6. CASE SyncOK(d, ts)
    <2>1. SyncOK(d, us)
      BY <1>0, <1>6 DEF SyncOK, SyncState
    <2> QED
      BY <2>1 DEF DeskOK
  <1>7. CASE SeenOK(d, ts, mg)
    <2>1. SeenOK(d, us, mh)
      BY <1>0, <1>7 DEF SeenOK, SeenState
    <2> QED
      BY <2>1 DEF DeskOK
  <1> QED
    BY <1>1, <1>2, <1>3, <1>4, <1>5, <1>6, <1>7 DEF DeskOK

\* A right ticket stays right when more calls are made.
LEMMA TicketKept ==
  ASSUME NEW cs \in Seq(Call), NEW ds \in Seq(Call), CallsGrown(cs, ds), NEW mis, NEW mit, mis => mit,
         NEW t, TicketOK(t, cs, mis)
  PROVE  TicketOK(t, ds, mit)
  <1>1. \A r, m : Belongs(r, m, cs) => Belongs(r, m, ds)
    BY DEF CallsGrown, Belongs
  <1> QED
    BY <1>1 DEF TicketOK

\* Both orders are reflexive.
LEMMA Reflexive == \A ts, cs : (Len(ts) \in Nat => Grown(ts, ts)) /\ (Len(cs) \in Nat => CallsGrown(cs, cs))
  BY DEF Grown, CallsGrown, Extends

\* What each label says of the state.
LEMMA Shape ==
  ASSUME NEW d, NEW ts, NEW cs, NEW mg, NEW mis, DeskOK(d, ts, cs, mg, mis)
  PROVE  /\ d.at \in {"creating", "contracting", "prepared"} => PrepareOK(d, ts, mis)
         /\ d.at \in {"submitting", "calling"} => LaunchOK(d, ts)
         /\ d.at \in {"attaching", "recording"} => AttachOK(d, ts, cs)
         /\ d.at = "launch_failing" => LaunchOK(d, ts) \/ AttachOK(d, ts, cs)
         /\ d.at \in {"run_submitting", "run_calling"} => RunOK(d, ts)
         /\ d.at = "run_recording" => RunRecordOK(d, ts, cs)
         /\ d.at = "run_failing" => RunOK(d, ts) \/ RunRecordOK(d, ts, cs)
         /\ d.at = "syncing" => SyncOK(d, ts)
         /\ d.at = "observed" => SeenOK(d, ts, mg)
  <1>1. d = Free => d.at = "free"
    BY DEF Free
  <1>2. PrepareOK(d, ts, mis) => d.at \in {"creating", "contracting", "prepared"}
    BY DEF PrepareOK, PrepareState
  <1>3. LaunchOK(d, ts) => d.at \in {"submitting", "calling", "launch_failing"}
    BY DEF LaunchOK, LaunchState
  <1>4. AttachOK(d, ts, cs) => d.at \in {"attaching", "recording", "launch_failing"}
    BY DEF AttachOK, AttachState
  <1>5. RunOK(d, ts) => d.at \in {"run_submitting", "run_calling", "run_failing"}
    BY DEF RunOK, RunState
  <1>6. RunRecordOK(d, ts, cs) => d.at \in {"run_recording", "run_failing"}
    BY DEF RunRecordOK, RunRecordState
  <1>7. SyncOK(d, ts) => d.at = "syncing"
    BY DEF SyncOK, SyncState
  <1>8. SeenOK(d, ts, mg) => d.at = "observed"
    BY DEF SeenOK, SeenState
  <1> QED
    BY <1>1, <1>2, <1>3, <1>4, <1>5, <1>6, <1>7, <1>8 DEF DeskOK

\* The ticket that a process works on is there.
LEMMA TicketThere ==
  ASSUME NEW d, NEW ts, Len(ts) \in Nat, NEW cs, NEW mg, NEW mis, DeskOK(d, ts, cs, mg, mis),
         d.at \notin {"free", "creating"}
  PROVE  d.ticket \in 1 .. Len(ts)
  <1>1. d # Free
    BY DEF Free
  <1>2. SyncOK(d, ts) \/ SeenOK(d, ts, mg) => d.ticket \in 1 .. Len(ts)
    <2>1. SyncOK(d, ts) \/ SeenOK(d, ts, mg) => Len(d.before) \in Nat
      BY DEF SyncOK, SeenOK, SyncState, SeenState
    <2> QED
      BY <2>1 DEF SyncOK, SeenOK
  <1> QED
    BY <1>1, <1>2 DEF DeskOK, PrepareOK, LaunchOK, AttachOK, RunOK, RunRecordOK

\* A new label leaves the rest of what a process remembers.
LEMMA RelabelledLaunch ==
  ASSUME NEW d \in LaunchState, NEW l \in {"submitting", "calling", "launch_failing"},
         NEW e, e = [d EXCEPT !.at = l]
  PROVE  /\ e \in LaunchState /\ e.at = l
         /\ e.ticket = d.ticket /\ e.fingerprint = d.fingerprint
  BY DEF LaunchState

LEMMA RelabelledPrepare ==
  ASSUME NEW d \in PrepareState, NEW l \in {"contracting", "prepared"},
         NEW e, e = [d EXCEPT !.at = l]
  PROVE  /\ e \in PrepareState /\ e.at = l
         /\ e.ticket = d.ticket /\ e.fingerprint = d.fingerprint
  BY DEF PrepareState

LEMMA RelabelledAttach ==
  ASSUME NEW d \in AttachState, NEW l \in {"recording", "launch_failing"},
         NEW e, e = [d EXCEPT !.at = l]
  PROVE  /\ e \in AttachState /\ e.at = l
         /\ e.ticket = d.ticket /\ e.receipt = d.receipt
  BY DEF AttachState

LEMMA RelabelledRun ==
  ASSUME NEW d \in RunState, NEW l \in {"run_calling", "run_failing"},
         NEW e, e = [d EXCEPT !.at = l]
  PROVE  /\ e \in RunState /\ e.at = l
         /\ e.ticket = d.ticket /\ e.number = d.number
  BY DEF RunState

LEMMA RelabelledRunRecord ==
  ASSUME NEW d \in RunRecordState, NEW l \in {"run_failing"},
         NEW e, e = [d EXCEPT !.at = l]
  PROVE  /\ e \in RunRecordState /\ e.at = l
         /\ e.ticket = d.ticket /\ e.receipt = d.receipt
  BY DEF RunRecordState

-----------------------------------------------------------------------------
(* Frames. *)

\* What the processes other than p remember stays.
Others(p) == DOMAIN desk' = Process /\ \A q \in Process : q # p => desk'[q] = desk[q]

\* A step of p is about p alone.
LEMMA StepOthers ==
  ASSUME DOMAIN desk = Process, NEW p \in Process, DeskStep(p) PROVE Others(p)
  <1> USE DEF Others, Becomes, Moves, Ends
  <1>1. CASE ReadForPrepare(p) \/ CreateTicket(p) \/ PersistContract(p) \/ EndPrepare(p)
             \/ ReadForLaunch(p) \/ SubmitLaunch(p)
    <2>1. PICK y : desk' = [desk EXCEPT ![p] = y]
      BY <1>1 DEF ReadForPrepare, CreateTicket, PersistContract, EndPrepare, ReadForLaunch, SubmitLaunch
    <2> QED
      BY <2>1
  <1>2. CASE StartAgent(p) \/ RefuseAgent(p) \/ FailLaunch(p) \/ AttachByHand(p) \/ CheckReceipt(p) \/ RecordLaunch(p)
    <2>1. PICK y : desk' = [desk EXCEPT ![p] = y]
      BY <1>2 DEF StartAgent, RefuseAgent, FailLaunch, AttachByHand, CheckReceipt, GivesUp, RecordLaunch
    <2> QED
      BY <2>1
  <1>3. CASE ReadForContinue(p) \/ SubmitRun(p) \/ StartRun(p) \/ RefuseRun(p) \/ RecordRun(p) \/ FailRun(p)
    <2>1. PICK y : desk' = [desk EXCEPT ![p] = y]
      BY <1>3 DEF ReadForContinue, SubmitRun, StartRun, RefuseRun, RecordRun, FailRun
    <2> QED
      BY <2>1
  <1>4. CASE StartSync(p) \/ SkipSync(p) \/ Observe(p) \/ ApplySync(p) \/ MutateFails(p) \/ Die(p)
    <2>1. PICK y : desk' = [desk EXCEPT ![p] = y]
      BY <1>4 DEF StartSync, SkipSync, Observe, ApplySync, NextTicket, MutateFails, GivesUp, Die
    <2> QED
      BY <2>1
  <1> QED
    BY <1>1, <1>2, <1>3, <1>4 DEF DeskStep

\* A step of p keeps what the other processes rely on.
LEMMA DeskFrame ==
  ASSUME TicketsInv, CallsInv, DeskInv, tickets' \in Seq(Ticket), calls' \in Seq(Call),
         NEW p \in Process, Others(p),
         Grown(tickets, tickets'), CallsGrown(calls, calls'), merged \subseteq merged',
         misnumbered => misnumbered', raced' \in BOOLEAN, misnumbered' \in BOOLEAN, UNCHANGED client,
         DeskOK(desk'[p], tickets', calls', merged', misnumbered')
  PROVE  DeskInv'
  <1>1. ASSUME NEW q \in Process, q # p PROVE DeskOK(desk'[q], tickets', calls', merged', misnumbered')
    <2>1. desk'[q] = desk[q] /\ DeskOK(desk[q], tickets, calls, merged, misnumbered)
      BY <1>1 DEF Others, DeskInv
    <2> QED
      BY <2>1, DeskKept DEF TicketsInv, CallsInv
  <1> QED
    BY <1>1 DEF DeskInv, Others

\* A step after which p is not about to call.
LEMMA AloneFrame ==
  ASSUME Alone, NEW p \in Process, Others(p), ~Calling(desk'[p]), UNCHANGED calls,
         raced \in BOOLEAN, raced' \in BOOLEAN, raced => raced'
  PROVE  Alone'
  <1>1. \A q \in Process : Calling(desk'[q]) => q # p /\ desk'[q] = desk[q]
    BY DEF Others
  <1> QED
    BY <1>1 DEF Alone, Made

\* Replacing one ticket by a later version of it.
LEMMA StoreKeeps ==
  ASSUME TicketsInv, CallsInv, NEW i \in 1 .. Len(tickets), NEW t, Store(i, t),
         misnumbered => misnumbered', UNCHANGED <<calls, merged>>,
         TicketOK(t, calls, misnumbered'), Extends(tickets[i], t),
         t.duplicate_of \in Maybe((1 .. Len(tickets)) \ {i})
  PROVE  TicketsInv' /\ CallsInv' /\ Grown(tickets, tickets') /\ Len(tickets') = Len(tickets)
  <1> USE DEF TicketsInv, CallsInv
  <1>1. t \in Ticket /\ Len(tickets) \in Nat
    BY DEF TicketOK
  <1>2. /\ tickets' \in Seq(Ticket) /\ Len(tickets') = Len(tickets)
        /\ tickets'[i] = t /\ \A k \in 1 .. Len(tickets) : k # i => tickets'[k] = tickets[k]
    BY <1>1 DEF Store
  <1>3. \A k \in 1 .. Len(tickets) : Extends(tickets[k], tickets'[k])
    BY <1>2 DEF Extends
  <1>4. TicketsInv'
    <2>1. ASSUME NEW k \in 1 .. Len(tickets') PROVE TicketOK(tickets'[k], calls', misnumbered')
      <3>1. CASE k = i
        BY <1>2, <3>1
      <3>2. CASE k # i
        BY <1>2, <2>1, <3>2 DEF TicketOK
      <3> QED
        BY <3>1, <3>2
    <2>2. ASSUME NEW k \in 1 .. Len(tickets')
          PROVE  tickets'[k].duplicate_of \in Maybe((1 .. Len(tickets')) \ {k})
      BY <1>2
    <2> QED
      BY <1>2, <2>1, <2>2
  <1>5. CallsInv'
    <2>1. ASSUME NEW x \in 1 .. Len(calls)
          PROVE  Submitted(tickets'[calls[x].ticket], calls[x].number)
      BY <1>3 DEF Submitted, Extends
    <2> QED
      BY <1>2, <2>1
  <1> QED
    BY <1>1, <1>2, <1>3, <1>4, <1>5 DEF Grown

-----------------------------------------------------------------------------
(* The steps of the tools that leave the store and the controller alone. *)

\* The steps that only read, refuse, end or die.
Reads(p) ==
    \/ ReadForPrepare(p) \/ EndPrepare(p) \/ ReadForLaunch(p) \/ RefuseAgent(p)
    \/ AttachByHand(p) \/ CheckReceipt(p) \/ ReadForContinue(p) \/ RefuseRun(p)
    \/ StartSync(p) \/ SkipSync(p) \/ Observe(p) \/ MutateFails(p) \/ Die(p)

\* They change no file and make no call.
LEMMA ReadsChangeNothing ==
  ASSUME NEW p, Reads(p) PROVE UNCHANGED <<tickets, calls, merged, client, raced, misnumbered>>
  BY DEF Reads, ReadForPrepare, EndPrepare, ReadForLaunch, RefuseAgent, AttachByHand, CheckReceipt,
         ReadForContinue, RefuseRun, StartSync, SkipSync, Observe, MutateFails, Die, OnlyDesk, history, bounds

\* What a process remembers fits the store of now.
NowOK(d) == DeskOK(d, tickets, calls, merged, misnumbered)

\* A free process remembers nothing and is not about to call.
LEMMA FreeOK == NowOK(Free) /\ ~Calling(Free)
  BY DEF NowOK, DeskOK, Free, Calling

\* The first of the tickets that exist is one of them.
LEMMA SmallestIndex ==
  ASSUME NEW S \in SUBSET Nat, S # {} PROVE First(S) \in S
  <1>1. PICK i \in S : \A j \in S : ~(<<j, i>> \in OpToRel(<, Nat))
    BY WFMin, NatLessThanWellFounded
  <1>2. \A j \in S : ~(j < i)
    BY <1>1 DEF OpToRel
  <1>3. \A j \in S : i <= j
    BY <1>2
  <1> QED
    BY <1>3 DEF First

\* Reading the store to prepare a mission.
LEMMA PrepareReads ==
  ASSUME Inv, NEW p \in Process, ReadForPrepare(p) \/ EndPrepare(p)
  PROVE  NowOK(desk'[p]) /\ ~Calling(desk'[p])
  <1> USE DEF Inv, TicketsInv, DeskInv, Becomes, Ends
  <1>0. Len(tickets) \in Nat /\ DOMAIN tickets = 1 .. Len(tickets) /\ MaxTickets \in Nat
    BY DeskAssumption
  <1>1. CASE ReadForPrepare(p)
    <2>1. PICK m \in client.missions, tool \in client.tools[p] \cap {"prepare", "launch"} :
            IF Existing(m) = {}
            THEN /\ Len(tickets) < MaxTickets
                 /\ Becomes(p, [at |-> "creating", tool |-> tool, ticket |-> Len(tickets) + 1,
                                fingerprint |-> <<m, Len(tickets) + 1>>])
            ELSE LET i == First(Existing(m))
                 IN  Becomes(p,
                       [at |-> IF tickets[i].contract = NoValue THEN "contracting" ELSE "prepared",
                        tool |-> tool, ticket |-> i,
                        fingerprint |-> IF tickets[i].contract = NoValue THEN <<m, i>>
                                        ELSE tickets[i].contract])
      BY <1>1 DEF ReadForPrepare
    <2>2. m \in Mission /\ tool \in {"prepare", "launch"}
      OBVIOUS
    <2>3. CASE Existing(m) = {}
      <3>1. desk'[p] = [at |-> "creating", tool |-> tool, ticket |-> Len(tickets) + 1,
                        fingerprint |-> <<m, Len(tickets) + 1>>] /\ Len(tickets) < MaxTickets
        BY <2>1, <2>3
      <3>2. Len(tickets) + 1 \in 1 .. MaxTickets
        BY <1>0, <3>1
      <3>3. desk'[p] \in PrepareState
        BY <2>2, <3>1, <3>2 DEF PrepareState, Fingerprint
      <3>4. PrepareOK(desk'[p], tickets, misnumbered)
        BY <1>0, <3>1, <3>3 DEF PrepareOK
      <3> QED
        BY <3>1, <3>4 DEF NowOK, DeskOK, Calling
    <2>4. CASE Existing(m) # {}
      <3> DEFINE i == First(Existing(m))
      <3>1. i \in 1 .. Len(tickets) /\ tickets[i].mission = <<m, i>>
        <4>1. Existing(m) \in SUBSET Nat
          BY <1>0 DEF Existing
        <4>2. i \in Existing(m)
          BY <2>4, <4>1, SmallestIndex
        <4> QED
          BY <1>0, <4>2 DEF Existing
      <3>2. tickets[i] \in Ticket /\ <<m, i>> \in Fingerprint /\ i \in 1 .. MaxTickets
        BY <1>0, <2>2, <3>1 DEF Fingerprint
      <3>3. desk'[p] = [at |-> IF tickets[i].contract = NoValue THEN "contracting" ELSE "prepared",
                        tool |-> tool, ticket |-> i,
                        fingerprint |-> IF tickets[i].contract = NoValue THEN <<m, i>>
                                        ELSE tickets[i].contract]
        BY <2>1, <2>4
      <3> HIDE DEF i
      <3>4. desk'[p] \in PrepareState
        BY <2>2, <3>2, <3>3 DEF PrepareState, Ticket, Maybe
      <3>5. PrepareOK(desk'[p], tickets, misnumbered)
        BY <1>0, <3>1, <3>3, <3>4 DEF PrepareOK
      <3> QED
        BY <3>3, <3>5 DEF NowOK, DeskOK, Calling
    <2> QED
      BY <2>3, <2>4
  <1>2. CASE EndPrepare(p)
    BY <1>2, FreeOK DEF EndPrepare
  <1> QED
    BY <1>1, <1>2

\* Reading it to launch or to attach a receipt, and checking the receipt.
LEMMA LaunchReads ==
  ASSUME Inv, NEW p \in Process, ReadForLaunch(p) \/ RefuseAgent(p) \/ AttachByHand(p) \/ CheckReceipt(p)
  PROVE  NowOK(desk'[p]) /\ ~Calling(desk'[p])
  <1> USE DEF Inv, TicketsInv, DeskInv, CallsInv, Becomes, Ends, Moves
  <1> DEFINE d == desk[p]
  <1>0. /\ Len(tickets) \in Nat /\ DOMAIN tickets = 1 .. Len(tickets) /\ MaxTickets \in Nat
        /\ Len(calls) \in Nat /\ DOMAIN calls = 1 .. Len(calls) /\ MaxCalls \in Nat
    BY DeskAssumption
  <1>01. NowOK(d)
    BY DEF NowOK
  <1>1. CASE ReadForLaunch(p)
    <2>1. PrepareOK(d, tickets, misnumbered) /\ d.at = "prepared" /\ d.tool = "launch"
      BY <1>1, <1>01, Shape DEF NowOK, ReadForLaunch
    <2>2. CASE desk'[p] = Free
      BY <2>2, FreeOK
    <2>3. CASE desk'[p] # Free
      <3>1. /\ desk'[p] = [at |-> "submitting", ticket |-> d.ticket, tool |-> "launch",
                           fingerprint |-> d.fingerprint, saw |-> Mine(p).submitted]
            /\ ~(Mine(p).launch # NoValue \/ launchSubmissionRecorded(Mine(p)))
        BY <1>1, <2>3 DEF ReadForLaunch
      <3>2. d.ticket \in 1 .. Len(tickets) /\ d.fingerprint \in Fingerprint /\ d.ticket \in 1 .. MaxTickets
        BY <1>0, <2>1 DEF PrepareOK, PrepareState
      <3>3. Mine(p).submitted \in BOOLEAN
        BY <3>2 DEF Mine, Ticket, TicketOK
      <3>4. Mine(p).submitted = FALSE
        BY <3>1, <3>3 DEF launchSubmissionRecorded
      <3>5. desk'[p] \in LaunchState
        <4>1. desk'[p] = [at |-> "submitting", ticket |-> d.ticket, tool |-> "launch",
                          fingerprint |-> d.fingerprint, saw |-> FALSE]
          BY <3>1, <3>4
        <4> HIDE DEF d
        <4> QED
          BY <3>2, <4>1 DEF LaunchState
      <3>6. LaunchOK(desk'[p], tickets)
        BY <3>1, <3>2, <3>4, <3>5 DEF LaunchOK
      <3> QED
        BY <3>1, <3>6 DEF NowOK, DeskOK, Calling
    <2> QED
      BY <2>2, <2>3
  <1>2. CASE RefuseAgent(p)
    <2>1. LaunchOK(d, tickets)
      BY <1>2, <1>01, Shape DEF NowOK, RefuseAgent
    <2>2. desk'[p] = [d EXCEPT !.at = "launch_failing"]
      BY <1>2 DEF RefuseAgent
    <2> HIDE DEF d
    <2>3. desk'[p] \in LaunchState /\ desk'[p].at = "launch_failing" /\ desk'[p].ticket = d.ticket
      BY <2>1, <2>2, RelabelledLaunch DEF LaunchOK
    <2>4. LaunchOK(desk'[p], tickets)
      BY <2>1, <2>3 DEF LaunchOK
    <2> QED
      BY <2>3, <2>4 DEF NowOK, DeskOK, Calling
  <1>3. CASE AttachByHand(p)
    <2>1. PICK id \in DOMAIN calls, i \in DOMAIN tickets :
            /\ calls[id].number = 0
            /\ desk'[p] = [at |-> "attaching", tool |-> "attach", ticket |-> i,
                           receipt |-> [id |-> id, agent |-> id, number |-> 0,
                                        fingerprint |-> calls[id].fingerprint],
                           supplied |-> NoValue]
      BY <1>3 DEF AttachByHand
    <2>2. id \in 1 .. Len(calls) /\ id \in 1 .. MaxCalls /\ i \in 1 .. Len(tickets) /\ i \in 1 .. MaxTickets
      BY <1>0
    <2>3. calls[id].fingerprint \in Fingerprint /\ calls[id].agent = id
      <3>1. calls[id] \in Call /\ calls[id].number = 0
        BY <2>1, <2>2
      <3>2. calls[id].agent = id
        BY <2>2, <3>1
      <3> QED
        BY <3>1, <3>2 DEF Call
    <2> DEFINE r == [id |-> id, agent |-> id, number |-> 0, fingerprint |-> calls[id].fingerprint]
    <2>4. r \in Receipt
      <3>1. 0 \in 0 .. MaxCorrections
        BY DeskAssumption
      <3> DEFINE f == calls[id].fingerprint
      <3>2. f \in Maybe(Fingerprint)
        BY <2>3 DEF Maybe
      <3> HIDE DEF f
      <3>3. [id |-> id, agent |-> id, number |-> 0, fingerprint |-> f] \in Receipt
        BY <2>2, <3>1, <3>2 DEF Receipt, Maybe
      <3> QED
        BY <3>3 DEF f
    <2>5. /\ Known(r, calls) /\ r.fingerprint = calls[r.id].fingerprint
      BY <2>2, <2>3 DEF Known
    <2> HIDE DEF r
    <2>6. desk'[p] = [at |-> "attaching", tool |-> "attach", ticket |-> i, receipt |-> r, supplied |-> NoValue]
      BY <2>1 DEF r
    <2>7. AttachOK(desk'[p], tickets, calls)
      BY <2>2, <2>4, <2>5, <2>6 DEF AttachOK, AttachState, Maybe
    <2> QED
      BY <2>6, <2>7 DEF NowOK, DeskOK, Calling
  <1>4. CASE CheckReceipt(p)
    <2>1. AttachOK(d, tickets, calls) /\ d.at = "attaching"
      BY <1>4, <1>01, Shape DEF NowOK, CheckReceipt
    <2>2. \/ /\ desk'[p] = [d EXCEPT !.at = "recording"]
             /\ d.receipt.fingerprint = tickets[d.ticket].mission
          \/ desk'[p] = [d EXCEPT !.at = "launch_failing"]
          \/ desk'[p] = Free
      <3> DEFINE fits == receiptMatchesContract(Mine(p), d.supplied, d.receipt) /\ Mine(p).launch = NoValue
      <3>1. CASE fits
        <4>1. desk'[p] = [d EXCEPT !.at = "recording"]
          BY <1>4, <3>1 DEF CheckReceipt
        <4> QED
          BY <3>1, <4>1 DEF receiptMatchesContract, Mine
      <3>2. CASE ~fits
        BY <1>4, <3>2 DEF CheckReceipt, GivesUp
      <3> QED
        BY <3>1, <3>2
    <2> HIDE DEF d
    <2>3. CASE /\ desk'[p] = [d EXCEPT !.at = "recording"]
               /\ d.receipt.fingerprint = tickets[d.ticket].mission
      <3>1. /\ desk'[p] \in AttachState /\ desk'[p].at = "recording"
            /\ desk'[p].ticket = d.ticket /\ desk'[p].receipt = d.receipt
        BY <2>1, <2>3, RelabelledAttach DEF AttachOK
      <3>2. AttachOK(desk'[p], tickets, calls)
        BY <2>1, <2>3, <3>1 DEF AttachOK
      <3> QED
        BY <3>1, <3>2 DEF NowOK, DeskOK, Calling
    <2>4. CASE desk'[p] = [d EXCEPT !.at = "launch_failing"]
      <3>1. /\ desk'[p] \in AttachState /\ desk'[p].at = "launch_failing"
            /\ desk'[p].ticket = d.ticket /\ desk'[p].receipt = d.receipt
        BY <2>1, <2>4, RelabelledAttach DEF AttachOK
      <3>2. AttachOK(desk'[p], tickets, calls)
        BY <2>1, <3>1 DEF AttachOK
      <3> QED
        BY <3>1, <3>2 DEF NowOK, DeskOK, Calling
    <2> QED
      BY <2>2, <2>3, <2>4, FreeOK
  <1> QED
    BY <1>1, <1>2, <1>3, <1>4

\* Reading it to continue a mission.
LEMMA RunReads ==
  ASSUME Inv, NEW p \in Process, ReadForContinue(p) \/ RefuseRun(p)
  PROVE  NowOK(desk'[p]) /\ ~Calling(desk'[p])
  <1> USE DEF Inv, TicketsInv, DeskInv, Becomes, Moves
  <1> DEFINE d == desk[p]
  <1>0. Len(tickets) \in Nat /\ DOMAIN tickets = 1 .. Len(tickets) /\ MaxTickets \in Nat
    BY DeskAssumption
  <1>1. CASE ReadForContinue(p)
    <2>1. PICK i \in DOMAIN tickets, n \in 1 .. MaxCorrections :
            /\ tickets[i].contract # NoValue /\ tickets[i].launch # NoValue
            /\ n \notin tickets[i].continued
            /\ desk'[p] = [at |-> "run_submitting", ticket |-> i, number |-> n,
                           agent |-> tickets[i].launch.agent, fingerprint |-> tickets[i].contract,
                           contract |-> tickets[i].contract, saw |-> n \in tickets[i].continued]
      BY <1>1 DEF ReadForContinue
    <2>2. i \in 1 .. Len(tickets) /\ i \in 1 .. MaxTickets /\ tickets[i] \in Ticket
      BY <1>0
    <2>3. tickets[i].contract \in Fingerprint /\ tickets[i].launch.agent \in 1 .. MaxCalls
      BY <2>1, <2>2 DEF Ticket, Maybe, Receipt
    <2>4. (n \in tickets[i].continued) = FALSE
      BY <2>1
    <2>5. desk'[p] = [at |-> "run_submitting", ticket |-> i, number |-> n,
                      agent |-> tickets[i].launch.agent, fingerprint |-> tickets[i].contract,
                      contract |-> tickets[i].contract, saw |-> FALSE]
      BY <2>1, <2>4
    <2>6. desk'[p] \in RunState
      BY <2>2, <2>3, <2>5 DEF RunState
    <2>7. RunOK(desk'[p], tickets)
      BY <2>1, <2>2, <2>5, <2>6 DEF RunOK
    <2> QED
      BY <2>5, <2>7 DEF NowOK, DeskOK, Calling
  <1>2. CASE RefuseRun(p)
    <2>1. RunOK(d, tickets)
      BY <1>2, Shape DEF RefuseRun
    <2>2. desk'[p] = [d EXCEPT !.at = "run_failing"]
      BY <1>2 DEF RefuseRun
    <2> HIDE DEF d
    <2>3. desk'[p] \in RunState /\ desk'[p].at = "run_failing" /\ desk'[p].ticket = d.ticket
      BY <2>1, <2>2, RelabelledRun DEF RunOK
    <2>4. RunOK(desk'[p], tickets)
      BY <2>1, <2>3 DEF RunOK
    <2> QED
      BY <2>3, <2>4 DEF NowOK, DeskOK, Calling
  <1> QED
    BY <1>1, <1>2

\* Starting a synchronisation, skipping a ticket, observing it.
LEMMA SyncReads ==
  ASSUME Inv, NEW p \in Process, StartSync(p) \/ SkipSync(p) \/ Observe(p)
  PROVE  NowOK(desk'[p]) /\ ~Calling(desk'[p])
  <1> USE DEF Inv, TicketsInv, DeskInv, Becomes, Ends
  <1> DEFINE d == desk[p]
  <1>0. Len(tickets) \in Nat /\ DOMAIN tickets = 1 .. Len(tickets)
    OBVIOUS
  <1>1. CASE StartSync(p)
    <2> DEFINE b == [i \in DOMAIN tickets |->
                     IF isTicketSyncEligible(tickets[i]) THEN currentCursorReceipt(tickets[i])
                     ELSE NoValue]
    <2>1. desk'[p] = [at |-> "syncing", ticket |-> 1, before |-> b] /\ 1 \in 1 .. Len(tickets)
      <3>1. desk'[p] = [at |-> "syncing", ticket |-> 1, before |-> b]
        BY <1>1 DEF StartSync
      <3>2. \E i \in 1 .. Len(tickets) : TRUE
        BY <1>0, <1>1 DEF StartSync
      <3> QED
        BY <1>0, <3>1, <3>2
    <2>2. \A i \in 1 .. Len(tickets) : b[i] \in Maybe(Receipt)
      BY <1>0 DEF TicketOK, Ticket, Maybe, currentCursorReceipt
    <2>3. b \in Seq(Maybe(Receipt)) /\ Len(b) = Len(tickets)
      <3>1. b \in [1 .. Len(tickets) -> Maybe(Receipt)]
        BY <1>0, <2>2
      <3> HIDE DEF b
      <3> QED
        BY <1>0, <3>1, SeqDef, LenProperties
    <2> HIDE DEF b
    <2>4. SyncOK(desk'[p], tickets)
      BY <1>0, <2>1, <2>3 DEF SyncOK, SyncState
    <2> QED
      BY <2>1, <2>4 DEF NowOK, DeskOK, Calling
  <1>2. CASE SkipSync(p)
    <2>1. SyncOK(d, tickets)
      BY <1>2, Shape DEF SkipSync
    <2>2. CASE d.ticket < Len(d.before)
      <3>1. desk'[p] = [d EXCEPT !.ticket = @ + 1]
        BY <1>2, <2>2 DEF SkipSync
      <3> HIDE DEF d
      <3>2. desk'[p] \in SyncState /\ desk'[p].ticket = d.ticket + 1 /\ desk'[p].before = d.before
        BY <2>1, <3>1 DEF SyncOK, SyncState
      <3>3. SyncOK(desk'[p], tickets)
        BY <2>1, <2>2, <3>2 DEF SyncOK, SyncState
      <3> QED
        BY <3>2, <3>3 DEF NowOK, DeskOK, Calling, SyncState
    <2>3. CASE ~(d.ticket < Len(d.before))
      BY <1>2, <2>3, FreeOK DEF SkipSync
    <2> QED
      BY <2>2, <2>3
  <1>3. CASE Observe(p)
    <2>1. SyncOK(d, tickets)
      BY <1>3, Shape DEF Observe
    <2>2. PICK o \in Observation(d.before[d.ticket]) :
            desk'[p] = [at |-> "observed", ticket |-> d.ticket, before |-> d.before, seen |-> o]
      BY <1>3 DEF Observe
    <2>3. d.before[d.ticket] \in Receipt
      BY <1>3, <2>1 DEF Observe, SyncOK, SyncState, Maybe
    <2> DEFINE r == d.before[d.ticket]
    <2> HIDE DEF r
    <2>4. /\ o \in [receipt : {r}, lifecycle : {"running", "failed", "completed"},
                    pr : IF r.agent \in merged THEN {"none", "merged"} ELSE {"none", "open", "closed"}]
      BY <2>2 DEF Observation, r
    <2>5. o \in Observations /\ (o.pr = "merged" => o.receipt.agent \in merged)
      <3>1. r \in Receipt
        BY <2>3 DEF r
      <3> QED
        BY <2>4, <3>1 DEF Observations
    <2>6. SeenOK(desk'[p], tickets, merged)
      <3> HIDE DEF d
      <3> QED
        BY <2>1, <2>2, <2>5 DEF SyncOK, SyncState, SeenOK, SeenState
    <2> QED
      BY <2>2, <2>6 DEF NowOK, DeskOK, Calling
  <1> QED
    BY <1>1, <1>2, <1>3

\* A change that is refused, and the end of a process.
LEMMA FailuresOK ==
  ASSUME Inv, NEW p \in Process, MutateFails(p) \/ Die(p)
  PROVE  NowOK(desk'[p]) /\ ~Calling(desk'[p])
  <1> USE DEF Inv, DeskInv, Becomes, Ends, Moves
  <1> DEFINE d == desk[p]
  <1>1. \/ desk'[p] = Free
        \/ d.at = "recording" /\ desk'[p] = [d EXCEPT !.at = "launch_failing"]
        \/ d.at = "run_recording" /\ desk'[p] = [d EXCEPT !.at = "run_failing"]
    BY DEF MutateFails, Die, GivesUp
  <1>2. CASE d.at = "recording" /\ desk'[p] = [d EXCEPT !.at = "launch_failing"]
    <2>1. AttachOK(d, tickets, calls)
      BY <1>2, Shape
    <2> HIDE DEF d
    <2>2. /\ desk'[p] \in AttachState /\ desk'[p].at = "launch_failing"
          /\ desk'[p].ticket = d.ticket /\ desk'[p].receipt = d.receipt
      BY <1>2, <2>1, RelabelledAttach DEF AttachOK
    <2>3. AttachOK(desk'[p], tickets, calls)
      BY <2>1, <2>2 DEF AttachOK
    <2> QED
      BY <2>2, <2>3 DEF NowOK, DeskOK, Calling
  <1>3. CASE d.at = "run_recording" /\ desk'[p] = [d EXCEPT !.at = "run_failing"]
    <2>1. RunRecordOK(d, tickets, calls)
      BY <1>3, Shape
    <2> HIDE DEF d
    <2>2. /\ desk'[p] \in RunRecordState /\ desk'[p].at = "run_failing"
          /\ desk'[p].ticket = d.ticket /\ desk'[p].receipt = d.receipt
      BY <1>3, <2>1, RelabelledRunRecord DEF RunRecordOK
    <2>3. RunRecordOK(desk'[p], tickets, calls)
      BY <2>1, <2>2 DEF RunRecordOK
    <2> QED
      BY <2>2, <2>3 DEF NowOK, DeskOK, Calling
  <1> QED
    BY <1>1, <1>2, <1>3, FreeOK

\* A step of a process that changes nothing but what the process remembers.
LEMMA QuietKeeps ==
  ASSUME Inv, NEW p \in Process, DeskStep(p),
         UNCHANGED <<tickets, calls, merged, client, raced, misnumbered>>,
         NowOK(desk'[p]), ~Calling(desk'[p])
  PROVE  Inv'
  <1> USE DEF Inv
  <1>1. Others(p)
    BY StepOthers DEF DeskInv
  <1>2. TicketsInv' /\ CallsInv'
    BY DEF TicketsInv, CallsInv
  <1>3. Grown(tickets, tickets') /\ CallsGrown(calls, calls')
    BY Reflexive DEF TicketsInv, CallsInv
  <1>4. DeskOK(desk'[p], tickets', calls', merged', misnumbered')
    BY DEF NowOK
  <1>5. DeskInv'
    BY <1>1, <1>2, <1>3, <1>4, DeskFrame DEF DeskInv, TicketsInv, CallsInv
  <1>6. Alone'
    BY <1>1, AloneFrame DEF DeskInv
  <1> QED
    BY <1>2, <1>5, <1>6

\* The reading steps keep the invariant.
LEMMA ReadsKeep ==
  ASSUME Inv, NEW p \in Process, Reads(p) PROVE Inv'
  <1>1. UNCHANGED <<tickets, calls, merged, client, raced, misnumbered>>
    BY ReadsChangeNothing
  <1>2. NowOK(desk'[p]) /\ ~Calling(desk'[p])
    BY PrepareReads, LaunchReads, RunReads, SyncReads, FailuresOK DEF Reads
  <1>3. DeskStep(p)
    BY DEF Reads, DeskStep
  <1> QED
    BY <1>1, <1>2, <1>3, QuietKeeps

-----------------------------------------------------------------------------
(* What each operation leaves of a ticket. *)

\* The references and records that no operation but its own touches.
SameReceipts(t, u) == u.launch = t.launch /\ u.run = t.run
\* The ticket does not become a duplicate.
NoNewDuplicate(t, u) == u.duplicate_of \in {t.duplicate_of, NoValue}

\* Recording an entry of activity leaves the references and records.
Kept(v, u) ==
    /\ u.state = v.state /\ u.duplicate_of = v.duplicate_of /\ u.mission = v.mission
    /\ u.contract = v.contract /\ u.submitted = v.submitted /\ u.continued = v.continued
    /\ u.launch = v.launch /\ u.run = v.run

\* A right and later version of a ticket.
Better(t, u, cs, mis) == TicketOK(u, cs, mis) /\ Extends(t, u)

\* One more entry of activity leaves the other fields.
LEMMA OneMore ==
  ASSUME NEW v \in Ticket, NEW u, u = Recorded(v)
  PROVE  u \in Ticket /\ u.activity = v.activity + 1 /\ Kept(v, u)
  <1>1. u = [v EXCEPT !.activity = v.activity + 1] /\ v.activity + 1 \in Nat
    BY DEF Recorded, Ticket
  <1>2. u \in Ticket /\ u.activity = v.activity + 1
    BY <1>1 DEF Ticket
  <1>3. Kept(v, u)
    BY <1>1 DEF Ticket, Kept
  <1> QED
    BY <1>2, <1>3

\* What a recorded change must respect for the ticket to stay a right one.
LEMMA RightAgain ==
  ASSUME NEW cs, NEW mis, NEW t, TicketOK(t, cs, mis), Room(t),
         NEW v \in Ticket, v.activity = t.activity, v.mission = t.mission,
         v.contract \notin {NoValue, v.mission} => mis,
         (v.state = "Duplicate") <=> (v.duplicate_of # NoValue),
         Belongs(v.launch, v.mission, cs), Belongs(v.run, v.mission, cs),
         v.run # NoValue => v.launch # NoValue /\ v.run.agent = v.launch.agent,
         t.launch # NoValue => v.launch = t.launch,
         t.submitted = TRUE => v.submitted = TRUE, t.continued \subseteq v.continued,
         NEW u, u = Recorded(v)
  PROVE  Better(t, u, cs, mis) /\ Kept(v, u)
  <1>1. u \in Ticket /\ u.activity = v.activity + 1 /\ Kept(v, u)
    BY OneMore
  <1>2. u.activity <= MAX_ACTIVITY
    <2>1. t.activity \in Nat /\ MAX_ACTIVITY \in Nat
      BY DeskAssumption DEF TicketOK, Ticket
    <2> QED
      BY <1>1, <2>1 DEF Room
  <1>3. TicketOK(u, cs, mis)
    <2>1. Belongs(u.launch, u.mission, cs) /\ Belongs(u.run, u.mission, cs)
      BY <1>1 DEF Kept
    <2>2. u.run # NoValue => u.launch # NoValue /\ u.run.agent = u.launch.agent
      BY <1>1 DEF Kept
    <2>3. /\ u.contract \notin {NoValue, u.mission} => mis
          /\ (u.state = "Duplicate") <=> (u.duplicate_of # NoValue)
      BY <1>1 DEF Kept
    <2> QED
      BY <1>1, <1>2, <2>1, <2>2, <2>3 DEF TicketOK
  <1>4. Extends(t, u)
    BY <1>1 DEF Kept, Extends
  <1> QED
    BY <1>1, <1>3, <1>4 DEF Better

\* A new ticket is a right one without receipts.
LEMMA NewOp ==
  ASSUME NEW f \in Fingerprint, NEW u, u = NewTicket(f)
  PROVE  /\ u \in Ticket /\ u.mission = f /\ u.duplicate_of = NoValue /\ u.state = "Backlog"
         /\ u.launch = NoValue /\ u.run = NoValue /\ u.contract = NoValue /\ u.activity = 1
  <1>1. /\ NoValue \in Maybe(Receipt) /\ NoValue \in Maybe(Observations)
        /\ NoValue \in Maybe(Fingerprint) /\ NoValue \in Maybe(1 .. MaxTickets)
        /\ NoValue \in Maybe({"attempt", "failed", "closed", "no_pr"})
        /\ "Backlog" \in TICKET_STATES
    BY DEF Maybe, TICKET_STATES
  <1>2. u \in Ticket
    BY <1>1 DEF NewTicket, Ticket
  <1> QED
    BY <1>2 DEF NewTicket

\* Storing the contract.
LEMMA ContractOp ==
  ASSUME NEW cs, NEW mis, NEW t, TicketOK(t, cs, mis), Room(t), NEW f \in Fingerprint, mis \/ f = t.mission,
         NEW u, u = Recorded([t EXCEPT !.contract = f])
  PROVE  Better(t, u, cs, mis) /\ SameReceipts(t, u) /\ NoNewDuplicate(t, u)
  <1> DEFINE v == [t EXCEPT !.contract = f]
  <1>1. t \in Ticket /\ f \in Maybe(Fingerprint)
    BY DEF TicketOK, Maybe
  <1>2. /\ v \in Ticket /\ v.state = t.state /\ v.duplicate_of = t.duplicate_of /\ v.mission = t.mission
        /\ v.contract = f /\ v.submitted = t.submitted /\ v.continued = t.continued
        /\ v.launch = t.launch /\ v.run = t.run /\ v.activity = t.activity
    BY <1>1 DEF Ticket
  <1>3. u = Recorded(v)
    OBVIOUS
  <1> HIDE DEF v
  <1>4. Better(t, u, cs, mis) /\ Kept(v, u)
    BY <1>2, <1>3, RightAgain DEF TicketOK
  <1> QED
    BY <1>2, <1>4 DEF Kept, SameReceipts, NoNewDuplicate

\* Recording that the launch is submitted.
LEMMA SubmitOp ==
  ASSUME NEW cs, NEW mis, NEW t, TicketOK(t, cs, mis), Room(t),
         NEW u, u = Recorded([t EXCEPT !.submitted = TRUE])
  PROVE  Better(t, u, cs, mis) /\ SameReceipts(t, u) /\ NoNewDuplicate(t, u) /\ Submitted(u, 0)
  <1> DEFINE v == [t EXCEPT !.submitted = TRUE]
  <1>1. t \in Ticket
    BY DEF TicketOK
  <1>2. /\ v \in Ticket /\ v.state = t.state /\ v.duplicate_of = t.duplicate_of /\ v.mission = t.mission
        /\ v.contract = t.contract /\ v.submitted = TRUE /\ v.continued = t.continued
        /\ v.launch = t.launch /\ v.run = t.run /\ v.activity = t.activity
    BY <1>1 DEF Ticket
  <1>3. u = Recorded(v)
    OBVIOUS
  <1> HIDE DEF v
  <1>4. Better(t, u, cs, mis) /\ Kept(v, u)
    BY <1>2, <1>3, RightAgain DEF TicketOK
  <1> QED
    BY <1>2, <1>4 DEF Kept, SameReceipts, NoNewDuplicate, Submitted

\* Recording that a correction is submitted.
LEMMA SubmitRunOp ==
  ASSUME NEW cs, NEW mis, NEW t, TicketOK(t, cs, mis), Room(t), NEW n \in Nat,
         NEW u, u = Recorded([t EXCEPT !.continued = @ \cup {n}])
  PROVE  /\ Better(t, u, cs, mis) /\ SameReceipts(t, u) /\ NoNewDuplicate(t, u)
         /\ n \in u.continued
  <1> DEFINE v == [t EXCEPT !.continued = t.continued \cup {n}]
  <1>1. t \in Ticket /\ t.continued \cup {n} \in SUBSET Nat
    BY DEF TicketOK, Ticket
  <1>2. /\ v \in Ticket /\ v.state = t.state /\ v.duplicate_of = t.duplicate_of /\ v.mission = t.mission
        /\ v.contract = t.contract /\ v.submitted = t.submitted /\ v.continued = t.continued \cup {n}
        /\ v.launch = t.launch /\ v.run = t.run /\ v.activity = t.activity
    BY <1>1 DEF Ticket
  <1>3. u = Recorded(v)
    OBVIOUS
  <1> HIDE DEF v
  <1>4. Better(t, u, cs, mis) /\ Kept(v, u)
    BY <1>2, <1>3, RightAgain DEF TicketOK
  <1> QED
    BY <1>2, <1>4 DEF Kept, SameReceipts, NoNewDuplicate

\* Recording that a launch or a run failed.
LEMMA FailOp ==
  ASSUME NEW cs, NEW mis, NEW t, TicketOK(t, cs, mis), ~Terminal(t), Room(t),
         NEW u, u = LaunchFailed(t) \/ u = RunFailed(t)
  PROVE  Better(t, u, cs, mis) /\ SameReceipts(t, u) /\ NoNewDuplicate(t, u)
  <1>1. t \in Ticket /\ "Blocked" \in TICKET_STATES /\ "attempt" \in Maybe({"attempt", "failed", "closed", "no_pr"})
    BY DEF TicketOK, Maybe, TICKET_STATES
  <1>2. t.state # "Duplicate"
    BY DEF Terminal, TERMINAL_TICKET_STATES
  <1>3. CASE u = LaunchFailed(t)
    <2> DEFINE v == [t EXCEPT !.state = "Blocked", !.blocker = "attempt", !.submitted = TRUE]
    <2>1. /\ v \in Ticket /\ v.state = "Blocked" /\ v.duplicate_of = t.duplicate_of /\ v.mission = t.mission
          /\ v.contract = t.contract /\ v.submitted = TRUE /\ v.continued = t.continued
          /\ v.launch = t.launch /\ v.run = t.run /\ v.activity = t.activity
      BY <1>1 DEF Ticket
    <2>2. u = Recorded(v)
      BY <1>3 DEF LaunchFailed
    <2> HIDE DEF v
    <2>3. Better(t, u, cs, mis) /\ Kept(v, u)
      BY <1>2, <2>1, <2>2, RightAgain DEF TicketOK
    <2> QED
      BY <2>1, <2>3 DEF Kept, SameReceipts, NoNewDuplicate
  <1>4. CASE u = RunFailed(t)
    <2> DEFINE v == [t EXCEPT !.state = "Blocked", !.blocker = "attempt"]
    <2>1. /\ v \in Ticket /\ v.state = "Blocked" /\ v.duplicate_of = t.duplicate_of /\ v.mission = t.mission
          /\ v.contract = t.contract /\ v.submitted = t.submitted /\ v.continued = t.continued
          /\ v.launch = t.launch /\ v.run = t.run /\ v.activity = t.activity
      BY <1>1 DEF Ticket
    <2>2. u = Recorded(v)
      BY <1>4 DEF RunFailed
    <2> HIDE DEF v
    <2>3. Better(t, u, cs, mis) /\ Kept(v, u)
      BY <1>2, <2>1, <2>2, RightAgain DEF TicketOK
    <2> QED
      BY <2>1, <2>3 DEF Kept, SameReceipts, NoNewDuplicate
  <1> QED
    BY <1>3, <1>4

\* Attaching the receipt of a launch.
LEMMA LaunchOp ==
  ASSUME NEW cs, NEW mis, NEW t, TicketOK(t, cs, mis), CanAttachLaunch(t),
         NEW r \in Receipt, Belongs(r, t.mission, cs), NEW u, u = Launched(t, r)
  PROVE  Better(t, u, cs, mis) /\ NoNewDuplicate(t, u)
  <1> DEFINE v == [t EXCEPT !.launch = r, !.state = "In Progress", !.blocker = NoValue]
  <1>1. /\ t \in Ticket /\ "In Progress" \in TICKET_STATES /\ r \in Maybe(Receipt)
        /\ NoValue \in Maybe({"attempt", "failed", "closed", "no_pr"})
    BY DEF TicketOK, Maybe, TICKET_STATES
  <1>2. t.state # "Duplicate" /\ t.launch = NoValue /\ t.run = NoValue /\ Room(t)
    BY DEF CanAttachLaunch, Terminal, TERMINAL_TICKET_STATES, TicketOK
  <1>3. /\ v \in Ticket /\ v.state = "In Progress" /\ v.duplicate_of = t.duplicate_of /\ v.mission = t.mission
        /\ v.contract = t.contract /\ v.submitted = t.submitted /\ v.continued = t.continued
        /\ v.launch = r /\ v.run = t.run /\ v.activity = t.activity
    BY <1>1 DEF Ticket
  <1>4. u = Recorded(v)
    BY DEF Launched
  <1> HIDE DEF v
  <1>5. Better(t, u, cs, mis) /\ Kept(v, u)
    BY <1>2, <1>3, <1>4, RightAgain DEF TicketOK
  <1> QED
    BY <1>3, <1>5 DEF Kept, NoNewDuplicate

\* Attaching the receipt of a run.
LEMMA RunOp ==
  ASSUME NEW cs, NEW mis, NEW t, TicketOK(t, cs, mis), NEW r \in Receipt, CanAttachRun(t, r),
         Belongs(r, t.mission, cs), NEW u, u = Continued(t, r)
  PROVE  Better(t, u, cs, mis) /\ NoNewDuplicate(t, u)
  <1> DEFINE v == [t EXCEPT !.run = r, !.state = "In Progress", !.blocker = NoValue]
  <1>1. /\ t \in Ticket /\ "In Progress" \in TICKET_STATES /\ r \in Maybe(Receipt)
        /\ NoValue \in Maybe({"attempt", "failed", "closed", "no_pr"})
    BY DEF TicketOK, Maybe, TICKET_STATES
  <1>2. t.state # "Duplicate" /\ t.launch # NoValue /\ r.agent = t.launch.agent /\ Room(t)
    BY DEF CanAttachRun, CanFailRun, Terminal, TERMINAL_TICKET_STATES
  <1>3. /\ v \in Ticket /\ v.state = "In Progress" /\ v.duplicate_of = t.duplicate_of /\ v.mission = t.mission
        /\ v.contract = t.contract /\ v.submitted = t.submitted /\ v.continued = t.continued
        /\ v.launch = t.launch /\ v.run = r /\ v.activity = t.activity
    BY <1>1 DEF Ticket
  <1>4. u = Recorded(v)
    BY DEF Continued
  <1> HIDE DEF v
  <1>5. Better(t, u, cs, mis) /\ Kept(v, u)
    BY <1>2, <1>3, <1>4, RightAgain DEF TicketOK
  <1> QED
    BY <1>3, <1>5 DEF Kept, NoNewDuplicate

\* Only a merge is mapped to Done.
LEMMA Mapped ==
  ASSUME NEW o \in Observations
  PROVE  /\ mapSyncedFields(o).state \in {"Done", "Blocked", "In Review", "In Progress"}
         /\ mapSyncedFields(o).blocker \in Maybe({"failed", "closed", "no_pr"})
         /\ mapSyncedFields(o).state = "Done" => o.pr = "merged"
  <1>1. o.lifecycle \in {"running", "failed", "completed"} /\ o.pr \in {"none", "merged", "open", "closed"}
    BY DEF Observations
  <1>2. CASE o.pr = "merged"
    BY <1>2 DEF mapSyncedFields, Maybe
  <1>3. CASE o.pr # "merged" /\ o.lifecycle = "failed"
    BY <1>3 DEF mapSyncedFields, Maybe
  <1>4. CASE o.pr = "open" /\ o.lifecycle # "failed"
    BY <1>4 DEF mapSyncedFields, Maybe
  <1>5. CASE o.pr = "closed" /\ o.lifecycle # "failed"
    BY <1>5 DEF mapSyncedFields, Maybe
  <1>6. CASE o.pr = "none" /\ o.lifecycle = "completed"
    BY <1>6 DEF mapSyncedFields, Maybe
  <1>7. CASE o.pr = "none" /\ o.lifecycle = "running"
    BY <1>7 DEF mapSyncedFields, Maybe
  <1> QED
    BY <1>1, <1>2, <1>3, <1>4, <1>5, <1>6, <1>7

\* Applying what was observed: it moves to Done on a merge only.
LEMMA SyncOp ==
  ASSUME NEW cs, NEW mis, NEW t, TicketOK(t, cs, mis), ~Terminal(t), Room(t), NEW o \in Observations,
         NEW u, u = Synced(t, o)
  PROVE  /\ Better(t, u, cs, mis) /\ SameReceipts(t, u) /\ NoNewDuplicate(t, u)
         /\ u.state = "Done" => o.pr = "merged"
  <1> DEFINE m == mapSyncedFields(o)
  <1>0. t.state \notin {"Duplicate", "Done"}
    BY DEF Terminal, TERMINAL_TICKET_STATES
  <1>1. CASE u = t
    BY <1>0, <1>1 DEF Better, Extends, SameReceipts, NoNewDuplicate
  <1>2. CASE u # t
    <2> DEFINE v == [t EXCEPT !.state = m.state, !.blocker = m.blocker,
                              !.duplicate_of = NoValue, !.synced = o]
    <2>1. u = Recorded(v)
      BY <1>2 DEF Synced
    <2>2. /\ m.state \in {"Done", "Blocked", "In Review", "In Progress"}
          /\ m.blocker \in Maybe({"failed", "closed", "no_pr"}) /\ (m.state = "Done" => o.pr = "merged")
      BY Mapped
    <2> HIDE DEF m
    <2>3. /\ t \in Ticket /\ m.state \in TICKET_STATES /\ o \in Maybe(Observations)
          /\ m.blocker \in Maybe({"attempt", "failed", "closed", "no_pr"}) /\ NoValue \in Maybe(1 .. MaxTickets)
      BY <2>2 DEF TicketOK, Maybe, TICKET_STATES, TERMINAL_TICKET_STATES
    <2>4. /\ v \in Ticket /\ v.state = m.state /\ v.duplicate_of = NoValue /\ v.mission = t.mission
          /\ v.contract = t.contract /\ v.submitted = t.submitted /\ v.continued = t.continued
          /\ v.launch = t.launch /\ v.run = t.run /\ v.activity = t.activity
      BY <2>3 DEF Ticket
    <2> HIDE DEF v
    <2>5. v.state # "Duplicate"
      BY <2>2, <2>4
    <2>6. Better(t, u, cs, mis) /\ Kept(v, u)
      BY <2>1, <2>4, <2>5, RightAgain DEF TicketOK
    <2> QED
      BY <2>2, <2>4, <2>6 DEF Kept, SameReceipts, NoNewDuplicate
  <1> QED
    BY <1>1, <1>2

\* A user's move.
LEMMA MoveOp ==
  ASSUME NEW cs, NEW mis, NEW t, TicketOK(t, cs, mis), NEW to \in TICKET_STATES,
         NEW k \in Maybe(1 .. MaxTickets), NEW merge, CanTransition(t, to, k, merge),
         NEW u, u = Transitioned(t, to, k)
  PROVE  Better(t, u, cs, mis) /\ SameReceipts(t, u) /\ u.duplicate_of = k /\ u.state = to
  <1> DEFINE v == [t EXCEPT !.state = to, !.duplicate_of = k]
  <1>1. t \in Ticket
    BY DEF TicketOK
  <1>2. Room(t) /\ (to = "Duplicate" <=> k # NoValue)
    BY DEF CanTransition
  <1>3. /\ v \in Ticket /\ v.state = to /\ v.duplicate_of = k /\ v.mission = t.mission
        /\ v.contract = t.contract /\ v.submitted = t.submitted /\ v.continued = t.continued
        /\ v.launch = t.launch /\ v.run = t.run /\ v.activity = t.activity
    BY <1>1 DEF Ticket
  <1>4. u = Recorded(v)
    BY DEF Transitioned
  <1> HIDE DEF v
  <1>5. Better(t, u, cs, mis) /\ Kept(v, u)
    BY <1>2, <1>3, <1>4, RightAgain DEF TicketOK
  <1> QED
    BY <1>3, <1>5 DEF Kept, SameReceipts

-----------------------------------------------------------------------------
(* The steps that store a ticket. *)

\* An operation on the ticket of a process that is not about to call after it.
LEMMA OperationKeeps ==
  ASSUME Inv, NEW p \in Process, DeskStep(p), NEW i \in 1 .. Len(tickets), NEW u, Store(i, u),
         UNCHANGED <<calls, merged, client, raced, misnumbered>>,
         Better(tickets[i], u, calls, misnumbered), NoNewDuplicate(tickets[i], u),
         NowOK(desk'[p]), ~Calling(desk'[p])
  PROVE  Inv'
  <1> USE DEF Inv
  <1>1. u.duplicate_of \in Maybe((1 .. Len(tickets)) \ {i})
    BY DEF TicketsInv, Maybe, NoNewDuplicate
  <1>2. TicketsInv' /\ CallsInv' /\ Grown(tickets, tickets')
    BY <1>1, StoreKeeps DEF Better
  <1>3. CallsGrown(calls, calls')
    BY Reflexive DEF CallsInv
  <1>4. DeskOK(desk'[p], tickets', calls', merged', misnumbered')
    BY <1>2, <1>3, DeskKept DEF NowOK, TicketsInv, CallsInv
  <1>5. Others(p)
    BY StepOthers DEF DeskInv
  <1>6. DeskInv'
    BY <1>2, <1>3, <1>4, <1>5, DeskFrame DEF TicketsInv, CallsInv, DeskInv
  <1>7. Alone'
    BY <1>5, AloneFrame DEF DeskInv
  <1> QED
    BY <1>2, <1>6, <1>7

\* Whoever is about to call has its submission on the ticket.
LEMMA CallingSubmitted ==
  ASSUME Inv, NEW q \in Process, Calling(desk[q])
  PROVE  /\ desk[q].ticket \in 1 .. Len(tickets)
         /\ Submitted(tickets[desk[q].ticket], Number(desk[q]))
         /\ Number(desk[q]) \in Nat
  <1> DEFINE d == desk[q]
  <1>0. DeskOK(d, tickets, calls, merged, misnumbered)
    BY DEF Inv, DeskInv
  <1>1. CASE d.at = "calling"
    <2>1. LaunchOK(d, tickets)
      BY <1>0, <1>1, Shape
    <2> QED
      BY <1>1, <2>1 DEF LaunchOK, Submitted, Number
  <1>2. CASE d.at = "run_calling"
    <2>1. RunOK(d, tickets)
      BY <1>0, <1>2, Shape
    <2>2. d.number \in 1 .. MaxCorrections /\ MaxCorrections \in Nat
      BY <2>1, DeskAssumption DEF RunOK, RunState
    <2> QED
      BY <1>2, <2>1, <2>2 DEF RunOK, Submitted, Number
  <1> QED
    BY <1>1, <1>2 DEF Calling

\* A submission nobody had recorded lets nobody else call for the same.
LEMMA SubmissionAlone ==
  ASSUME Inv, NEW p \in Process, Others(p), UNCHANGED calls, raced' \in BOOLEAN,
         raced' = FALSE => raced = FALSE /\ ~Submitted(tickets[desk'[p].ticket], Number(desk'[p])),
         Calling(desk'[p])
  PROVE  Alone'
  <1> SUFFICES ASSUME raced' = FALSE
               PROVE  /\ \A q \in Process : Calling(desk'[q]) => ~Made(calls', desk'[q].ticket, Number(desk'[q]))
                      /\ \A q, r \in Process :
                            /\ q # r /\ Calling(desk'[q]) /\ Calling(desk'[r])
                            /\ desk'[q].ticket = desk'[r].ticket
                            => Number(desk'[q]) # Number(desk'[r])
                      /\ \A x, y \in 1 .. Len(calls) :
                            x # y /\ calls[x].ticket = calls[y].ticket => calls[x].number # calls[y].number
    BY DEF Alone
  <1>1. raced = FALSE /\ ~Submitted(tickets[desk'[p].ticket], Number(desk'[p]))
    OBVIOUS
  <1>2. ~Made(calls, desk'[p].ticket, Number(desk'[p]))
    BY <1>1 DEF Inv, CallsInv, Made
  <1>3. \A q \in Process : q # p /\ Calling(desk'[q]) =>
          /\ desk'[q] = desk[q] /\ Calling(desk[q])
          /\ ~(desk'[q].ticket = desk'[p].ticket /\ Number(desk'[q]) = Number(desk'[p]))
    BY <1>1, CallingSubmitted DEF Others
  <1>4. /\ \A q \in Process : Calling(desk[q]) => ~Made(calls, desk[q].ticket, Number(desk[q]))
        /\ \A q, r \in Process :
              /\ q # r /\ Calling(desk[q]) /\ Calling(desk[r])
              /\ desk[q].ticket = desk[r].ticket
              => Number(desk[q]) # Number(desk[r])
        /\ \A x, y \in 1 .. Len(calls) :
              x # y /\ calls[x].ticket = calls[y].ticket => calls[x].number # calls[y].number
    BY <1>1 DEF Inv, Alone
  <1>5. \A q \in Process : Calling(desk'[q]) => ~Made(calls', desk'[q].ticket, Number(desk'[q]))
    BY <1>2, <1>3, <1>4
  <1> QED
    BY <1>3, <1>4, <1>5


\* Each operation of a tool keeps the invariant: storing the contract,
LEMMA PrepareStores ==
  ASSUME Inv, NEW p \in Process, PersistContract(p) PROVE Inv'
  <1> DEFINE d == desk[p]
             t == tickets[d.ticket]
             u == Recorded([t EXCEPT !.contract = d.fingerprint])
  <1>1. PrepareOK(d, tickets, misnumbered) /\ d.at = "contracting"
    BY Shape DEF Inv, DeskInv, PersistContract
  <1>2. /\ d.ticket \in 1 .. Len(tickets) /\ d.fingerprint \in Fingerprint
        /\ misnumbered \/ d.fingerprint = t.mission
    BY <1>1 DEF PrepareOK, PrepareState
  <1>3. TicketOK(t, calls, misnumbered)
    BY <1>2 DEF Inv, TicketsInv
  <1>4. Store(d.ticket, u) /\ Room(t) /\ UNCHANGED <<calls, merged, client, raced, misnumbered>>
    BY DEF PersistContract, Mine, OnlyStore, bounds, history
  <1>5. desk'[p] = [d EXCEPT !.at = "prepared"]
    BY DEF PersistContract, Moves, Inv, DeskInv
  <1>6. DeskStep(p)
    BY DEF DeskStep
  <1> HIDE DEF u
  <1>7. Better(t, u, calls, misnumbered) /\ NoNewDuplicate(t, u)
    BY <1>2, <1>3, <1>4, ContractOp DEF u
  <1> HIDE DEF t, d
  <1>8. desk'[p] \in PrepareState /\ desk'[p].at = "prepared" /\ desk'[p].ticket = d.ticket
    BY <1>1, <1>5, RelabelledPrepare DEF PrepareOK
  <1>9. NowOK(desk'[p]) /\ ~Calling(desk'[p])
    BY <1>2, <1>8 DEF NowOK, DeskOK, PrepareOK, Calling
  <1> QED
    BY <1>2, <1>4, <1>6, <1>7, <1>9, OperationKeeps DEF t

\* recording a failure,
LEMMA FailuresStore ==
  ASSUME Inv, NEW p \in Process, FailLaunch(p) \/ FailRun(p) PROVE Inv'
  <1> DEFINE d == desk[p]
             t == tickets[d.ticket]
  <1>1. d.ticket \in 1 .. Len(tickets)
    BY TicketThere DEF Inv, DeskInv, TicketsInv, FailLaunch, FailRun
  <1>2. TicketOK(t, calls, misnumbered)
    BY <1>1 DEF Inv, TicketsInv
  <1>3. ~Terminal(t) /\ Room(t)
    BY DEF FailLaunch, FailRun, CanAttachLaunch, CanFailRun, Mine
  <1>4. PICK u : (u = LaunchFailed(t) \/ u = RunFailed(t)) /\ Store(d.ticket, u)
    BY DEF FailLaunch, FailRun, Mine
  <1>5. UNCHANGED <<calls, merged, client, raced, misnumbered>> /\ desk'[p] = Free
    BY DEF FailLaunch, FailRun, OnlyStore, bounds, history, Ends, Becomes, Inv, DeskInv
  <1>6. DeskStep(p)
    BY DEF DeskStep
  <1>7. Better(t, u, calls, misnumbered) /\ NoNewDuplicate(t, u)
    BY <1>2, <1>3, <1>4, FailOp
  <1> HIDE DEF d, t
  <1> QED
    BY <1>1, <1>4, <1>5, <1>6, <1>7, FreeOK, OperationKeeps DEF t

\* The receipt of a call made under the ticket's own mission belongs to it.
LEMMA RightReceipt ==
  ASSUME NEW t, NEW cs, NEW mis, TicketOK(t, cs, mis), NEW r \in Receipt, Known(r, cs),
         r.fingerprint = t.mission, r.fingerprint \in {cs[r.id].fingerprint, NoValue}
  PROVE  Belongs(r, t.mission, cs)
  <1>1. t.mission # NoValue
    BY DeskAssumption DEF TicketOK, Ticket, Fingerprint
  <1> QED
    BY <1>1 DEF Belongs, Known

\* attaching the receipt of a launch,
LEMMA LaunchStores ==
  ASSUME Inv, NEW p \in Process, RecordLaunch(p) PROVE Inv'
  <1> DEFINE d == desk[p]
             t == tickets[d.ticket]
             u == Launched(t, d.receipt)
  <1>1. AttachOK(d, tickets, calls) /\ d.at = "recording"
    BY Shape DEF Inv, DeskInv, RecordLaunch
  <1>2. /\ d.ticket \in 1 .. Len(tickets) /\ d.receipt \in Receipt /\ Known(d.receipt, calls)
        /\ d.receipt.fingerprint = t.mission
        /\ d.receipt.fingerprint \in {calls[d.receipt.id].fingerprint, NoValue}
    BY <1>1 DEF AttachOK, AttachState
  <1>3. TicketOK(t, calls, misnumbered)
    BY <1>2 DEF Inv, TicketsInv
  <1>4. Belongs(d.receipt, t.mission, calls)
    BY <1>2, <1>3, RightReceipt
  <1>5. Store(d.ticket, u) /\ CanAttachLaunch(t) /\ UNCHANGED <<calls, merged, client, raced, misnumbered>>
    BY DEF RecordLaunch, Mine, OnlyStore, bounds, history
  <1>6. desk'[p] = Free
    BY DEF RecordLaunch, Ends, Becomes, Inv, DeskInv
  <1>7. DeskStep(p)
    BY DEF DeskStep
  <1> HIDE DEF u
  <1>8. Better(t, u, calls, misnumbered) /\ NoNewDuplicate(t, u)
    <2>1. u = Launched(t, d.receipt)
      BY DEF u
    <2>2. CanAttachLaunch(t) /\ d.receipt \in Receipt
      BY <1>2, <1>5
    <2> HIDE DEF t, d
    <2> QED
      BY <1>3, <1>4, <2>1, <2>2, LaunchOp
  <1> HIDE DEF t, d
  <1> QED
    BY <1>2, <1>5, <1>6, <1>7, <1>8, FreeOK, OperationKeeps DEF t

\* attaching the receipt of a run,
LEMMA RunStores ==
  ASSUME Inv, NEW p \in Process, RecordRun(p) PROVE Inv'
  <1> DEFINE d == desk[p]
             t == tickets[d.ticket]
             u == Continued(t, d.receipt)
  <1>1. RunRecordOK(d, tickets, calls)
    BY Shape DEF Inv, DeskInv, RecordRun
  <1>2. /\ d.ticket \in 1 .. Len(tickets) /\ d.receipt \in Receipt /\ Known(d.receipt, calls)
        /\ d.receipt.fingerprint \in {calls[d.receipt.id].fingerprint, NoValue}
    BY <1>1 DEF RunRecordOK, RunRecordState
  <1>3. TicketOK(t, calls, misnumbered)
    BY <1>2 DEF Inv, TicketsInv
  <1>4. d.receipt.fingerprint = t.mission
    <2>1. t \in Ticket
      BY <1>3 DEF TicketOK
    <2>2. [t EXCEPT !.contract = d.contract].mission = t.mission
      BY <2>1 DEF Ticket
    <2> QED
      BY <2>2 DEF RecordRun, receiptMatchesContract, Mine
  <1>5. Belongs(d.receipt, t.mission, calls)
    BY <1>2, <1>3, <1>4, RightReceipt
  <1>6. Store(d.ticket, u) /\ CanAttachRun(t, d.receipt) /\ UNCHANGED <<calls, merged, client, raced, misnumbered>>
    BY DEF RecordRun, Mine, OnlyStore, bounds, history
  <1>7. desk'[p] = Free
    BY DEF RecordRun, Ends, Becomes, Inv, DeskInv
  <1>8. DeskStep(p)
    BY DEF DeskStep
  <1> HIDE DEF u
  <1>9. Better(t, u, calls, misnumbered) /\ NoNewDuplicate(t, u)
    <2>1. u = Continued(t, d.receipt)
      BY DEF u
    <2>2. CanAttachRun(t, d.receipt) /\ d.receipt \in Receipt
      BY <1>2, <1>6
    <2> HIDE DEF t, d
    <2> QED
      BY <1>3, <1>5, <2>1, <2>2, RunOp
  <1> HIDE DEF t, d
  <1> QED
    BY <1>2, <1>6, <1>7, <1>8, <1>9, FreeOK, OperationKeeps DEF t

\* What an observation is allowed to do to the ticket.
LEMMA SyncApplies ==
  ASSUME Inv, NEW p \in Process, ApplySync(p)
  PROVE  LET d == desk[p]
             t == tickets[d.ticket]
             u == Synced(t, d.seen)
         IN  /\ d.ticket \in 1 .. Len(tickets) /\ TicketOK(t, calls, misnumbered)
             /\ d.seen \in Observations /\ (d.seen.pr = "merged" => d.seen.receipt.agent \in merged)
             /\ \/ UNCHANGED tickets
                \/ /\ isTicketSyncEligible(t) /\ Room(t) /\ ~Contradicts(t, d.seen)
                   /\ Store(d.ticket, u)
             /\ UNCHANGED <<calls, merged, client, raced, misnumbered>>
             /\ NowOK(desk'[p]) /\ ~Calling(desk'[p])
  <1> DEFINE d == desk[p]
             t == tickets[d.ticket]
  <1>0. DeskOK(d, tickets, calls, merged, misnumbered)
    BY DEF Inv, DeskInv
  <1>1. SeenOK(d, tickets, merged)
    BY <1>0, Shape DEF ApplySync
  <1>2. d.ticket \in 1 .. Len(tickets)
    BY <1>0, TicketThere DEF Inv, TicketsInv, ApplySync
  <1>3. TicketOK(t, calls, misnumbered)
    BY <1>2 DEF Inv, TicketsInv
  <1>4. d.seen \in Observations /\ (d.seen.pr = "merged" => d.seen.receipt.agent \in merged)
    BY <1>1 DEF SeenOK, SeenState
  <1>5. \/ UNCHANGED tickets
        \/ /\ isTicketSyncEligible(t) /\ Room(t) /\ ~Contradicts(t, d.seen)
           /\ Store(d.ticket, Synced(t, d.seen))
    BY DEF ApplySync, Mine
  <1>6. UNCHANGED <<calls, merged, client, raced, misnumbered>>
    BY DEF ApplySync, OnlyStore, bounds, history
  <1>7. Ends(p) \/ NextTicket(p)
    BY DEF ApplySync
  <1>8. \/ desk'[p] = Free
        \/ /\ d.ticket < Len(d.before)
           /\ desk'[p] = [at |-> "syncing", ticket |-> d.ticket + 1, before |-> d.before]
    BY <1>7 DEF Ends, NextTicket, Becomes, Inv, DeskInv
  <1> HIDE DEF d
  <1>9. NowOK(desk'[p]) /\ ~Calling(desk'[p])
    <2>1. CASE desk'[p] = Free
      BY <2>1, FreeOK
    <2>2. CASE /\ d.ticket < Len(d.before)
               /\ desk'[p] = [at |-> "syncing", ticket |-> d.ticket + 1, before |-> d.before]
      <3>1. SyncOK(desk'[p], tickets)
        BY <1>1, <2>2 DEF SeenOK, SeenState, SyncOK, SyncState
      <3> QED
        BY <2>2, <3>1 DEF NowOK, DeskOK, Calling
    <2> QED
      BY <1>8, <2>1, <2>2
  <1> QED
    BY <1>2, <1>3, <1>4, <1>5, <1>6, <1>9 DEF d

\* applying an observation,
LEMMA SyncStores ==
  ASSUME Inv, NEW p \in Process, ApplySync(p) PROVE Inv'
  <1> DEFINE d == desk[p]
             t == tickets[d.ticket]
             u == Synced(t, d.seen)
  <1>1. /\ d.ticket \in 1 .. Len(tickets) /\ TicketOK(t, calls, misnumbered)
        /\ d.seen \in Observations
        /\ \/ UNCHANGED tickets
           \/ /\ isTicketSyncEligible(t) /\ Room(t) /\ ~Contradicts(t, d.seen)
              /\ Store(d.ticket, u)
        /\ UNCHANGED <<calls, merged, client, raced, misnumbered>>
        /\ NowOK(desk'[p]) /\ ~Calling(desk'[p])
    BY SyncApplies
  <1>2. DeskStep(p)
    BY DEF DeskStep
  <1> HIDE DEF u
  <1>3. CASE Store(d.ticket, u) /\ isTicketSyncEligible(t) /\ Room(t)
    <2>1. Better(t, u, calls, misnumbered) /\ NoNewDuplicate(t, u)
      BY <1>1, <1>3, SyncOp DEF u, isTicketSyncEligible
    <2> HIDE DEF t, d
    <2> QED
      BY <1>1, <1>2, <1>3, <2>1, OperationKeeps DEF t
  <1>4. CASE UNCHANGED tickets
    BY <1>1, <1>2, <1>4, QuietKeeps
  <1> QED
    BY <1>1, <1>3, <1>4


\* submitting a launch: a process that submits where nobody had is alone to call,
LEMMA SubmitLaunchKeeps ==
  ASSUME Inv, NEW p \in Process, SubmitLaunch(p) PROVE Inv'
  <1> USE DEF Inv
  <1> DEFINE d == desk[p]
             t == tickets[d.ticket]
             u == Recorded([t EXCEPT !.submitted = TRUE])
  <1>1. LaunchOK(d, tickets) /\ d.at = "submitting"
    BY Shape DEF DeskInv, SubmitLaunch
  <1>2. d \in LaunchState /\ d.ticket \in 1 .. Len(tickets) /\ d.saw = FALSE
    BY <1>1 DEF LaunchOK
  <1>3. TicketOK(t, calls, misnumbered)
    BY <1>2 DEF TicketsInv
  <1>4. /\ Store(d.ticket, u) /\ Room(t) /\ UNCHANGED <<calls, merged, client, misnumbered>>
        /\ raced' = (raced \/ (t.submitted /\ ~d.saw))
    BY DEF SubmitLaunch, Mine, bounds, history
  <1>5. desk'[p] = [d EXCEPT !.at = "calling"]
    BY DEF SubmitLaunch, Moves, DeskInv
  <1>6. Others(p)
    BY StepOthers DEF DeskStep, DeskInv
  <1>7. raced' \in BOOLEAN /\ raced \in BOOLEAN /\ misnumbered \in BOOLEAN
    BY <1>4 DEF DeskInv
  <1>8. raced' = FALSE => raced = FALSE /\ ~Submitted(t, 0)
    <2>1. t.submitted \in BOOLEAN
      BY <1>3 DEF TicketOK, Ticket
    <2> QED
      BY <1>2, <1>4, <1>7, <2>1 DEF Submitted
  <1>01. u = Recorded([t EXCEPT !.submitted = TRUE])
    OBVIOUS
  <1> HIDE DEF u
  <1>9. Better(t, u, calls, misnumbered) /\ NoNewDuplicate(t, u) /\ Submitted(u, 0)
    <2>1. Room(t)
      BY <1>4
    <2> HIDE DEF t
    <2> QED
      BY <1>01, <1>3, <2>1, SubmitOp
  <1>10. u.duplicate_of \in Maybe((1 .. Len(tickets)) \ {d.ticket})
    BY <1>2, <1>9 DEF TicketsInv, Maybe, NoNewDuplicate
  <1>11. TicketsInv' /\ CallsInv' /\ Grown(tickets, tickets') /\ Len(tickets') = Len(tickets)
    <2> HIDE DEF d
    <2> QED
      BY <1>2, <1>4, <1>9, <1>10, StoreKeeps DEF Better
  <1>12. CallsGrown(calls, calls')
    BY <1>4, Reflexive DEF CallsInv
  <1>13. tickets'[d.ticket] = u
    BY <1>2, <1>4 DEF Store, TicketsInv
  <1> HIDE DEF d, t
  <1>14. desk'[p] \in LaunchState /\ desk'[p].at = "calling" /\ desk'[p].ticket = d.ticket
    BY <1>2, <1>5, RelabelledLaunch
  <1>15. LaunchOK(desk'[p], tickets')
    BY <1>2, <1>9, <1>11, <1>13, <1>14 DEF LaunchOK, Submitted
  <1>16. DeskInv'
    BY <1>4, <1>6, <1>7, <1>11, <1>12, <1>15, DeskFrame DEF TicketsInv, CallsInv, DeskOK
  <1>17. Alone'
    BY <1>4, <1>6, <1>7, <1>8, <1>14, SubmissionAlone DEF Calling, Number, t
  <1> QED
    BY <1>11, <1>16, <1>17

\* submitting a correction, likewise.
LEMMA SubmitRunKeeps ==
  ASSUME Inv, NEW p \in Process, SubmitRun(p) PROVE Inv'
  <1> USE DEF Inv
  <1> DEFINE d == desk[p]
             t == tickets[d.ticket]
             u == Recorded([t EXCEPT !.continued = @ \cup {d.number}])
  <1>1. RunOK(d, tickets) /\ d.at = "run_submitting"
    BY Shape DEF DeskInv, SubmitRun
  <1>2. /\ d \in RunState /\ d.ticket \in 1 .. Len(tickets) /\ d.saw = FALSE
        /\ t.launch # NoValue /\ d.number \in Nat \ {0}
    <2>1. d.number \in 1 .. MaxCorrections /\ MaxCorrections \in Nat
      BY <1>1, DeskAssumption DEF RunOK, RunState
    <2> QED
      BY <1>1, <2>1 DEF RunOK
  <1>3. TicketOK(t, calls, misnumbered)
    BY <1>2 DEF TicketsInv
  <1>4. /\ Store(d.ticket, u) /\ Room(t) /\ UNCHANGED <<calls, merged, client, misnumbered>>
        /\ raced' = (raced \/ (d.number \in t.continued /\ ~d.saw))
    BY DEF SubmitRun, Mine, bounds, history
  <1>5. desk'[p] = [d EXCEPT !.at = "run_calling"]
    BY DEF SubmitRun, Moves, DeskInv
  <1>6. Others(p)
    BY StepOthers DEF DeskStep, DeskInv
  <1>7. raced' \in BOOLEAN /\ raced \in BOOLEAN /\ misnumbered \in BOOLEAN
    BY <1>4 DEF DeskInv
  <1>8. raced' = FALSE => raced = FALSE /\ ~Submitted(t, d.number)
    BY <1>2, <1>4, <1>7 DEF Submitted
  <1>01. u = Recorded([t EXCEPT !.continued = @ \cup {d.number}])
    OBVIOUS
  <1> HIDE DEF u
  <1>9. Better(t, u, calls, misnumbered) /\ NoNewDuplicate(t, u) /\ d.number \in u.continued
    <2>1. Room(t) /\ d.number \in Nat
      BY <1>2, <1>4
    <2> HIDE DEF t, d
    <2> QED
      BY <1>01, <1>3, <2>1, SubmitRunOp
  <1>10. u.duplicate_of \in Maybe((1 .. Len(tickets)) \ {d.ticket}) /\ u.launch # NoValue
    BY <1>2, <1>9 DEF TicketsInv, Maybe, NoNewDuplicate, Better, Extends
  <1>11. TicketsInv' /\ CallsInv' /\ Grown(tickets, tickets') /\ Len(tickets') = Len(tickets)
    <2> HIDE DEF d
    <2> QED
      BY <1>2, <1>4, <1>9, <1>10, StoreKeeps DEF Better
  <1>12. CallsGrown(calls, calls')
    BY <1>4, Reflexive DEF CallsInv
  <1>13. tickets'[d.ticket] = u
    BY <1>2, <1>4 DEF Store, TicketsInv
  <1> HIDE DEF d, t
  <1>14. /\ desk'[p] \in RunState /\ desk'[p].at = "run_calling" /\ desk'[p].ticket = d.ticket
         /\ desk'[p].number = d.number
    BY <1>2, <1>5, RelabelledRun
  <1>15. RunOK(desk'[p], tickets')
    BY <1>2, <1>9, <1>10, <1>11, <1>13, <1>14 DEF RunOK
  <1>16. DeskInv'
    BY <1>4, <1>6, <1>7, <1>11, <1>12, <1>15, DeskFrame DEF TicketsInv, CallsInv, DeskOK
  <1>17. Alone'
    BY <1>4, <1>6, <1>7, <1>8, <1>14, SubmissionAlone DEF Calling, Number, t
  <1> QED
    BY <1>11, <1>16, <1>17

\* A new ticket at the end of the store, whatever number its mission is for.
LEMMA CreateKeeps ==
  ASSUME Inv, NEW p \in Process, CreateTicket(p) PROVE Inv'
  <1> USE DEF Inv
  <1> DEFINE d == desk[p]
             u == NewTicket(d.fingerprint)
  <1>1. PrepareOK(d, tickets, misnumbered) /\ d.at = "creating"
    BY Shape DEF DeskInv, CreateTicket
  <1>2. d \in PrepareState /\ d.ticket <= Len(tickets) + 1
    BY <1>1 DEF PrepareOK
  <1>3. /\ tickets' = Append(tickets, u) /\ Len(tickets) < MaxTickets
        /\ misnumbered' = (misnumbered \/ d.ticket # Len(tickets) + 1)
        /\ desk'[p] = [d EXCEPT !.at = "contracting"]
        /\ UNCHANGED <<calls, merged, client, raced>>
    BY DEF CreateTicket, Moves, DeskInv, bounds
  <1>4. Others(p)
    BY StepOthers DEF DeskStep, DeskInv
  <1>5. misnumbered' \in BOOLEAN /\ misnumbered \in BOOLEAN /\ (misnumbered => misnumbered')
    BY <1>3 DEF DeskInv
  <1>6. d.fingerprint \in Fingerprint
    BY <1>2 DEF PrepareState
  <1>7. /\ u \in Ticket /\ u.mission = d.fingerprint /\ u.duplicate_of = NoValue
        /\ TicketOK(u, calls, misnumbered')
    <2>1. PICK n : n = u
      OBVIOUS
    <2>2. /\ n \in Ticket /\ n.mission = d.fingerprint /\ n.duplicate_of = NoValue /\ n.state = "Backlog"
          /\ n.launch = NoValue /\ n.run = NoValue /\ n.contract = NoValue /\ n.activity = 1
      BY <1>6, <2>1, NewOp
    <2>3. 1 <= MAX_ACTIVITY
      BY DeskAssumption
    <2>4. TicketOK(n, calls, misnumbered')
      BY <2>2, <2>3 DEF TicketOK, Belongs
    <2> QED
      BY <2>1, <2>2, <2>4
  <1> HIDE DEF u
  <1>8. /\ tickets' \in Seq(Ticket) /\ Len(tickets') = Len(tickets) + 1
        /\ tickets'[Len(tickets) + 1] = u
        /\ \A i \in 1 .. Len(tickets) : tickets'[i] = tickets[i]
        /\ Len(tickets) \in Nat
    BY <1>3, <1>7 DEF TicketsInv
  <1>9. Grown(tickets, tickets')
    BY <1>8 DEF Grown, Extends
  <1>10. CallsGrown(calls, calls')
    BY <1>3, Reflexive DEF CallsInv
  <1>11. TicketsInv'
    <2>1. ASSUME NEW i \in 1 .. Len(tickets) PROVE TicketOK(tickets[i], calls, misnumbered')
      <3>1. TicketOK(tickets[i], calls, misnumbered) /\ calls \in Seq(Call) /\ CallsGrown(calls, calls)
        BY <1>3, <1>10 DEF TicketsInv, CallsInv
      <3> QED
        BY <1>5, <3>1, TicketKept
    <2>2. \A i \in 1 .. Len(tickets') : TicketOK(tickets'[i], calls', misnumbered')
      BY <1>3, <1>7, <1>8, <2>1
    <2>3. \A i \in 1 .. Len(tickets') : tickets'[i].duplicate_of \in Maybe((1 .. Len(tickets')) \ {i})
      BY <1>7, <1>8 DEF TicketsInv, Maybe
    <2>4. Len(tickets') <= MaxTickets
      BY <1>3, <1>8, DeskAssumption
    <2> QED
      BY <1>8, <2>2, <2>3, <2>4 DEF TicketsInv
  <1>12. CallsInv'
    BY <1>3, <1>8 DEF CallsInv
  <1> HIDE DEF d
  <1>13. /\ desk'[p] \in PrepareState /\ desk'[p].at = "contracting"
         /\ desk'[p].ticket = d.ticket /\ desk'[p].fingerprint = d.fingerprint
    BY <1>2, <1>3, RelabelledPrepare
  <1>14. PrepareOK(desk'[p], tickets', misnumbered')
    <2>1. d.ticket \in 1 .. Len(tickets')
      BY <1>2, <1>8 DEF PrepareState
    <2>2. misnumbered' \/ d.fingerprint = tickets'[d.ticket].mission
      BY <1>3, <1>7, <1>8
    <2> QED
      BY <1>13, <2>1, <2>2 DEF PrepareOK
  <1>15. DeskInv'
    BY <1>3, <1>4, <1>5, <1>8, <1>9, <1>10, <1>14, DeskFrame DEF DeskOK, CallsInv, DeskInv
  <1>16. Alone'
    BY <1>3, <1>4, <1>13, AloneFrame DEF Calling, DeskInv
  <1> QED
    BY <1>11, <1>12, <1>15, <1>16


-----------------------------------------------------------------------------
(* The calls. *)

\* The controller starts what a process asked for, once.
LEMMA CallKeeps ==
  ASSUME Inv, NEW p \in Process, Calling(desk[p]), Others(p), NEW c \in Call,
         c.ticket = desk[p].ticket, c.number = Number(desk[p]),
         c.number = 0 => c.agent = Len(calls) + 1, Len(calls) < MaxCalls,
         calls' = Append(calls, c), UNCHANGED <<tickets, merged, client, raced, misnumbered>>,
         DeskOK(desk'[p], tickets, calls', merged, misnumbered), ~Calling(desk'[p])
  PROVE  Inv'
  <1> USE DEF Inv
  <1>1. /\ calls' \in Seq(Call) /\ Len(calls') = Len(calls) + 1 /\ calls'[Len(calls) + 1] = c
        /\ \A x \in 1 .. Len(calls) : calls'[x] = calls[x]
        /\ Len(calls) \in Nat /\ Len(tickets) \in Nat
    BY DEF CallsInv, TicketsInv
  <1>2. CallsGrown(calls, calls') /\ Grown(tickets, tickets')
    BY <1>1, Reflexive DEF CallsGrown
  <1>3. TicketsInv'
    <2>1. \A i \in 1 .. Len(tickets) : TicketOK(tickets[i], calls', misnumbered')
      BY <1>1, <1>2, TicketKept DEF TicketsInv, CallsInv
    <2> QED
      BY <2>1 DEF TicketsInv
  <1>4. c.ticket \in 1 .. Len(tickets) /\ Submitted(tickets[c.ticket], c.number)
    BY CallingSubmitted
  <1>5. CallsInv'
    <2>1. ASSUME NEW x \in 1 .. Len(calls')
          PROVE  /\ calls'[x].ticket \in 1 .. Len(tickets)
                 /\ Submitted(tickets[calls'[x].ticket], calls'[x].number)
                 /\ calls'[x].number = 0 => calls'[x].agent = x
      <3>1. CASE x = Len(calls) + 1
        BY <1>1, <1>4, <3>1
      <3>2. CASE x # Len(calls) + 1
        BY <1>1, <3>2 DEF CallsInv
      <3> QED
        BY <3>1, <3>2
    <2>2. merged \subseteq 1 .. Len(calls')
      BY <1>1 DEF CallsInv
    <2>3. Len(calls') <= MaxCalls
      BY <1>1, DeskAssumption
    <2> QED
      BY <1>1, <2>1, <2>2, <2>3 DEF CallsInv
  <1>6. DeskInv'
    BY <1>1, <1>2, DeskFrame DEF DeskInv, TicketsInv
  <1>7. Alone'
    <2> SUFFICES ASSUME raced = FALSE
                 PROVE  /\ \A q \in Process : Calling(desk'[q]) => ~Made(calls', desk'[q].ticket, Number(desk'[q]))
                        /\ \A q, r \in Process :
                              /\ q # r /\ Calling(desk'[q]) /\ Calling(desk'[r])
                              /\ desk'[q].ticket = desk'[r].ticket
                              => Number(desk'[q]) # Number(desk'[r])
                        /\ \A x, y \in 1 .. Len(calls') :
                              x # y /\ calls'[x].ticket = calls'[y].ticket => calls'[x].number # calls'[y].number
      BY DEF Alone
    <2>1. /\ \A q \in Process : Calling(desk[q]) => ~Made(calls, desk[q].ticket, Number(desk[q]))
          /\ \A q, r \in Process :
                /\ q # r /\ Calling(desk[q]) /\ Calling(desk[r])
                /\ desk[q].ticket = desk[r].ticket
                => Number(desk[q]) # Number(desk[r])
          /\ \A x, y \in 1 .. Len(calls) :
                x # y /\ calls[x].ticket = calls[y].ticket => calls[x].number # calls[y].number
      BY DEF Alone
    <2>2. \A q \in Process : Calling(desk'[q]) => q # p /\ desk'[q] = desk[q] /\ Calling(desk[q])
      BY DEF Others
    <2>3. \A q \in Process : Calling(desk'[q]) => ~Made(calls', desk'[q].ticket, Number(desk'[q]))
      <3> SUFFICES ASSUME NEW q \in Process, Calling(desk'[q]), NEW x \in 1 .. Len(calls'),
                          calls'[x].ticket = desk'[q].ticket, calls'[x].number = Number(desk'[q])
                   PROVE  FALSE
        BY DEF Made
      <3>1. q # p /\ desk'[q] = desk[q] /\ Calling(desk[q])
        BY <2>2
      <3>2. CASE x = Len(calls) + 1
        BY <1>1, <2>1, <3>1, <3>2
      <3>3. CASE x # Len(calls) + 1
        <4>1. x \in 1 .. Len(calls) /\ calls'[x] = calls[x]
          BY <1>1, <3>3
        <4>2. Made(calls, desk[q].ticket, Number(desk[q]))
          BY <3>1, <4>1 DEF Made
        <4> QED
          BY <2>1, <3>1, <4>2
      <3> QED
        BY <3>2, <3>3
    <2>4. \A x \in 1 .. Len(calls) : ~(calls[x].ticket = c.ticket /\ calls[x].number = c.number)
      BY <2>1 DEF Made
    <2>5. \A x, y \in 1 .. Len(calls') :
             x # y /\ calls'[x].ticket = calls'[y].ticket => calls'[x].number # calls'[y].number
      <3> SUFFICES ASSUME NEW x \in 1 .. Len(calls'), NEW y \in 1 .. Len(calls'), x # y,
                          calls'[x].ticket = calls'[y].ticket, calls'[x].number = calls'[y].number
                   PROVE  FALSE
        OBVIOUS
      <3>1. CASE x = Len(calls) + 1
        BY <1>1, <2>4, <3>1
      <3>2. CASE y = Len(calls) + 1
        BY <1>1, <2>4, <3>2
      <3>3. CASE x # Len(calls) + 1 /\ y # Len(calls) + 1
        BY <1>1, <2>1, <3>3
      <3> QED
        BY <3>1, <3>2, <3>3
    <2> QED
      BY <2>1, <2>2, <2>3, <2>5
  <1> QED
    BY <1>3, <1>5, <1>6, <1>7

\* The call that starts an agent.
LEMMA StartAgentKeeps ==
  ASSUME Inv, NEW p \in Process, StartAgent(p) PROVE Inv'
  <1> USE DEF Inv
  <1> DEFINE d == desk[p]
             id == Len(calls) + 1
             c == [ticket |-> d.ticket, agent |-> id, number |-> 0, fingerprint |-> d.fingerprint]
  <1>1. LaunchOK(d, tickets) /\ d.at = "calling"
    BY Shape DEF DeskInv, StartAgent
  <1>2. /\ d \in LaunchState /\ d.ticket \in 1 .. Len(tickets)
        /\ d.ticket \in 1 .. MaxTickets /\ d.fingerprint \in Fingerprint
    BY <1>1 DEF LaunchOK, LaunchState
  <1>3. /\ calls' = Append(calls, c) /\ Len(calls) < MaxCalls
        /\ UNCHANGED <<tickets, merged, client, raced, misnumbered>>
    BY DEF StartAgent, bounds, history
  <1>4. \/ \E f \in {d.fingerprint, NoValue} :
              desk'[p] = [at |-> "attaching", tool |-> "launch", ticket |-> d.ticket,
                          receipt |-> [id |-> id, agent |-> id, number |-> 0, fingerprint |-> f],
                          supplied |-> d.fingerprint]
        \/ desk'[p] = [d EXCEPT !.at = "launch_failing"]
    BY DEF StartAgent, Becomes, Moves, DeskInv
  <1>5. Others(p)
    BY StepOthers DEF DeskStep, DeskInv
  <1> HIDE DEF d
  <1>6. id \in 1 .. MaxCalls /\ 0 \in 0 .. MaxCorrections /\ Len(calls) \in Nat
    BY <1>3, DeskAssumption DEF CallsInv
  <1>7. /\ calls' \in Seq(Call) /\ Len(calls') = id /\ calls'[id] = c /\ c \in Call
    <2>1. c \in Call
      <3> HIDE DEF id
      <3> QED
        BY <1>2, <1>6 DEF Call
    <2> HIDE DEF c
    <2> QED
      BY <1>3, <2>1 DEF CallsInv
  <1>8. /\ c.ticket = d.ticket /\ c.number = 0 /\ c.agent = id /\ c.fingerprint = d.fingerprint
    OBVIOUS
  <1> HIDE DEF c, id
  <1>9. DeskOK(desk'[p], tickets, calls', merged, misnumbered) /\ ~Calling(desk'[p])
    <2>1. ASSUME NEW f \in {d.fingerprint, NoValue},
                 desk'[p] = [at |-> "attaching", tool |-> "launch", ticket |-> d.ticket,
                             receipt |-> [id |-> id, agent |-> id, number |-> 0, fingerprint |-> f],
                             supplied |-> d.fingerprint]
          PROVE  DeskOK(desk'[p], tickets, calls', merged, misnumbered) /\ ~Calling(desk'[p])
      <3> DEFINE r == [id |-> id, agent |-> id, number |-> 0, fingerprint |-> f]
      <3>1. r \in Receipt
        BY <1>2, <1>6 DEF Receipt
      <3>2. Known(r, calls') /\ r.fingerprint \in {calls'[r.id].fingerprint, NoValue}
        BY <1>6, <1>7, <1>8 DEF Known
      <3> HIDE DEF r
      <3>3. desk'[p] = [at |-> "attaching", tool |-> "launch", ticket |-> d.ticket, receipt |-> r,
                        supplied |-> d.fingerprint]
        BY <2>1 DEF r
      <3>4. AttachOK(desk'[p], tickets, calls')
        BY <1>2, <3>1, <3>2, <3>3 DEF AttachOK, AttachState, Maybe
      <3> QED
        BY <3>3, <3>4 DEF DeskOK, Calling
    <2>2. ASSUME desk'[p] = [d EXCEPT !.at = "launch_failing"]
          PROVE  DeskOK(desk'[p], tickets, calls', merged, misnumbered) /\ ~Calling(desk'[p])
      <3>1. desk'[p] \in LaunchState /\ desk'[p].at = "launch_failing" /\ desk'[p].ticket = d.ticket
        BY <1>2, <2>2, RelabelledLaunch
      <3>2. LaunchOK(desk'[p], tickets)
        BY <1>2, <3>1 DEF LaunchOK
      <3> QED
        BY <3>1, <3>2 DEF DeskOK, Calling
    <2> QED
      BY <1>4, <2>1, <2>2
  <1>10. Calling(desk[p]) /\ c.number = Number(desk[p]) /\ c.ticket = desk[p].ticket
    BY <1>1, <1>8 DEF Calling, Number, d
  <1> QED
    BY <1>3, <1>5, <1>7, <1>8, <1>9, <1>10, CallKeeps DEF id

\* The call that starts a correction.
LEMMA StartRunKeeps ==
  ASSUME Inv, NEW p \in Process, StartRun(p) PROVE Inv'
  <1> USE DEF Inv
  <1> DEFINE d == desk[p]
             id == Len(calls) + 1
             c == [ticket |-> d.ticket, agent |-> d.agent, number |-> d.number,
                   fingerprint |-> d.fingerprint]
             r == [id |-> id, agent |-> d.agent, number |-> d.number, fingerprint |-> d.fingerprint]
  <1>1. RunOK(d, tickets) /\ d.at = "run_calling"
    BY Shape DEF DeskInv, StartRun
  <1>2. /\ d \in RunState /\ d.ticket \in 1 .. Len(tickets) /\ d.ticket \in 1 .. MaxTickets
        /\ d.fingerprint \in Fingerprint /\ d.contract \in Fingerprint /\ d.agent \in 1 .. MaxCalls
        /\ d.number \in 1 .. MaxCorrections
    BY <1>1 DEF RunOK, RunState
  <1>3. /\ calls' = Append(calls, c) /\ Len(calls) < MaxCalls
        /\ UNCHANGED <<tickets, merged, client, raced, misnumbered>>
    BY DEF StartRun, bounds, history
  <1>4. \/ desk'[p] = [at |-> "run_recording", ticket |-> d.ticket, contract |-> d.contract, receipt |-> r]
        \/ desk'[p] = [d EXCEPT !.at = "run_failing"]
    BY DEF StartRun, Becomes, Moves, DeskInv
  <1>5. Others(p)
    BY StepOthers DEF DeskStep, DeskInv
  <1> HIDE DEF d
  <1>6. id \in 1 .. MaxCalls /\ d.number \in 0 .. MaxCorrections /\ d.number # 0 /\ Len(calls) \in Nat
    BY <1>2, <1>3, DeskAssumption DEF CallsInv
  <1>7. c \in Call /\ r \in Receipt
    <2> HIDE DEF id
    <2> QED
      BY <1>2, <1>6 DEF Call, Receipt
  <1>8. /\ c.ticket = d.ticket /\ c.number = d.number /\ c.agent = d.agent /\ c.fingerprint = d.fingerprint
        /\ r.id = id /\ r.agent = d.agent /\ r.fingerprint = d.fingerprint
    OBVIOUS
  <1> HIDE DEF c, r
  <1>9. calls' \in Seq(Call) /\ Len(calls') = id /\ calls'[id] = c
    BY <1>3, <1>7 DEF CallsInv
  <1> HIDE DEF id
  <1>10. DeskOK(desk'[p], tickets, calls', merged, misnumbered) /\ ~Calling(desk'[p])
    <2>1. ASSUME desk'[p] = [at |-> "run_recording", ticket |-> d.ticket, contract |-> d.contract, receipt |-> r]
          PROVE  DeskOK(desk'[p], tickets, calls', merged, misnumbered) /\ ~Calling(desk'[p])
      <3>1. Known(r, calls') /\ r.fingerprint = calls'[r.id].fingerprint
        BY <1>6, <1>8, <1>9 DEF Known
      <3>2. RunRecordOK(desk'[p], tickets, calls')
        BY <1>2, <1>7, <2>1, <3>1 DEF RunRecordOK, RunRecordState
      <3> QED
        BY <2>1, <3>2 DEF DeskOK, Calling
    <2>2. ASSUME desk'[p] = [d EXCEPT !.at = "run_failing"]
          PROVE  DeskOK(desk'[p], tickets, calls', merged, misnumbered) /\ ~Calling(desk'[p])
      <3>1. desk'[p] \in RunState /\ desk'[p].at = "run_failing" /\ desk'[p].ticket = d.ticket
        BY <1>2, <2>2, RelabelledRun
      <3>2. RunOK(desk'[p], tickets)
        BY <1>1, <1>2, <3>1 DEF RunOK
      <3> QED
        BY <3>1, <3>2 DEF DeskOK, Calling
    <2> QED
      BY <1>4, <2>1, <2>2
  <1>11. Calling(desk[p]) /\ c.number = Number(desk[p]) /\ c.ticket = desk[p].ticket /\ c.number # 0
    BY <1>1, <1>6, <1>8 DEF Calling, Number, d
  <1> QED
    BY <1>3, <1>5, <1>7, <1>10, <1>11, CallKeeps

-----------------------------------------------------------------------------
(* Everybody else, and the whole. *)

\* What the observers report, and what users store, leaves the processes alone.
LEMMA OutsideKeeps ==
  ASSUME Inv, Grown(tickets, tickets'), tickets' \in Seq(Ticket), merged \subseteq merged',
         UNCHANGED <<calls, client, desk, raced, misnumbered>>
  PROVE  DeskInv' /\ Alone'
  <1> USE DEF Inv
  <1>1. CallsGrown(calls, calls') /\ calls \in Seq(Call)
    BY Reflexive DEF CallsInv
  <1>2. ASSUME NEW q \in Process PROVE DeskOK(desk'[q], tickets', calls', merged', misnumbered')
    BY <1>1, DeskKept DEF DeskInv, TicketsInv
  <1>3. DeskInv'
    BY <1>2 DEF DeskInv
  <1>4. Alone'
    BY DEF Alone
  <1> QED
    BY <1>3, <1>4

\* A merge outside.
LEMMA MergeKeeps ==
  ASSUME Inv, Merge PROVE Inv'
  <1> USE DEF Inv
  <1>1. /\ UNCHANGED <<tickets, calls, desk, client, raced, misnumbered>>
        /\ \E id \in DOMAIN calls : merged' = merged \cup {id}
    BY DEF Merge, bounds, history
  <1>2. merged \subseteq merged' /\ merged' \subseteq 1 .. Len(calls)
    <2>1. DOMAIN calls = 1 .. Len(calls) /\ merged \subseteq 1 .. Len(calls)
      BY DEF CallsInv
    <2> QED
      BY <1>1, <2>1
  <1>3. TicketsInv' /\ CallsInv'
    BY <1>1, <1>2 DEF TicketsInv, CallsInv
  <1>4. Grown(tickets, tickets')
    BY <1>1, Reflexive DEF TicketsInv
  <1> QED
    BY <1>1, <1>2, <1>3, <1>4, OutsideKeeps DEF TicketsInv

\* A user's move, and what it may be.
LEMMA MoveApplies ==
  ASSUME Inv, MoveTicket
  PROVE  /\ \E i \in 1 .. Len(tickets), to \in TICKET_STATES, k \in Maybe(1 .. MaxTickets),
                merge \in merged \cup {NoValue}, u \in Ticket :
               /\ k \in Maybe((1 .. Len(tickets)) \ {i})
               /\ CanTransition(tickets[i], to, k, merge)
               /\ u = Transitioned(tickets[i], to, k) /\ Store(i, u)
               /\ Better(tickets[i], u, calls, misnumbered) /\ SameReceipts(tickets[i], u)
               /\ u.duplicate_of = k /\ u.state = to
         /\ moves > 0 /\ moves' = moves - 1
         /\ UNCHANGED <<calls, merged, client, desk, raced, misnumbered>>
  <1> USE DEF Inv
  <1>0. /\ Len(tickets) \in Nat /\ DOMAIN tickets = 1 .. Len(tickets) /\ MaxTickets \in Nat
        /\ Len(tickets) <= MaxTickets
    BY DeskAssumption DEF TicketsInv
  <1>1. PICK i \in 1 .. Len(tickets), to \in TICKET_STATES, k \in (1 .. Len(tickets)) \cup {NoValue},
             merge \in merged \cup {NoValue} :
          /\ k # i /\ CanTransition(tickets[i], to, k, merge)
          /\ Store(i, Transitioned(tickets[i], to, k))
    BY <1>0 DEF MoveTicket
  <1>2. k \in Maybe((1 .. Len(tickets)) \ {i}) /\ k \in Maybe(1 .. MaxTickets)
    BY <1>0, <1>1 DEF Maybe
  <1>3. PICK u : u = Transitioned(tickets[i], to, k)
    OBVIOUS
  <1>4. TicketOK(tickets[i], calls, misnumbered)
    BY DEF TicketsInv
  <1>5. /\ Better(tickets[i], u, calls, misnumbered) /\ SameReceipts(tickets[i], u)
        /\ u.duplicate_of = k /\ u.state = to
    BY <1>1, <1>2, <1>3, <1>4, MoveOp
  <1>7. u \in Ticket
    BY <1>5 DEF Better, TicketOK
  <1>6. /\ moves > 0 /\ moves' = moves - 1
        /\ UNCHANGED <<calls, merged, client, desk, raced, misnumbered>>
    BY DEF MoveTicket, history
  <1> QED
    BY <1>1, <1>2, <1>3, <1>5, <1>6, <1>7

\* A user's move keeps the invariant.
LEMMA MoveKeeps ==
  ASSUME Inv, MoveTicket PROVE Inv'
  <1> USE DEF Inv
  <1>1. UNCHANGED <<calls, merged, client, desk, raced, misnumbered>>
    BY MoveApplies
  <1>2. PICK i \in 1 .. Len(tickets), u \in Ticket :
          /\ u.duplicate_of \in Maybe((1 .. Len(tickets)) \ {i}) /\ Store(i, u)
          /\ Better(tickets[i], u, calls, misnumbered)
    BY MoveApplies
  <1>3. TicketsInv' /\ CallsInv' /\ Grown(tickets, tickets')
    BY <1>1, <1>2, StoreKeeps DEF Better
  <1> QED
    BY <1>1, <1>3, OutsideKeeps DEF TicketsInv

\* The steps that store or call.
LEMMA StoresKeep ==
  ASSUME Inv, NEW p \in Process,
         \/ CreateTicket(p) \/ PersistContract(p) \/ SubmitLaunch(p) \/ StartAgent(p) \/ FailLaunch(p)
         \/ RecordLaunch(p) \/ SubmitRun(p) \/ StartRun(p) \/ RecordRun(p) \/ FailRun(p) \/ ApplySync(p)
  PROVE  Inv'
  BY CreateKeeps, PrepareStores, SubmitLaunchKeeps, StartAgentKeeps, FailuresStore, LaunchStores,
     SubmitRunKeeps, StartRunKeeps, RunStores, SyncStores

\* Every step keeps the invariant,
LEMMA StepKeeps ==
  ASSUME Inv, [DeskNext]_deskVars PROVE Inv'
  <1>1. ASSUME NEW p \in Process, DeskStep(p) PROVE Inv'
    BY <1>1, ReadsKeep, StoresKeep DEF DeskStep, Reads
  <1>2. CASE UNCHANGED deskVars
    BY <1>2 DEF Inv, deskVars, TicketsInv, CallsInv, DeskInv, Alone
  <1> QED
    BY <1>1, <1>2, MergeKeeps, MoveKeeps DEF DeskNext

\* and the initial states have it.
LEMMA InitHolds ==
  ASSUME DeskInit PROVE Inv
  <1>1. tickets = <<>> /\ calls = <<>> /\ merged = {} /\ raced = FALSE /\ misnumbered = FALSE
    BY DEF DeskInit
  <1>2. desk = [p \in Process |-> Free] /\ client.missions \subseteq Mission
    BY DeskAssumption DEF DeskInit
  <1>3. TicketsInv /\ CallsInv
    BY <1>1, DeskAssumption DEF TicketsInv, CallsInv
  <1>4. DeskInv
    BY <1>1, <1>2 DEF DeskInv, DeskOK
  <1>5. Alone
    BY <1>1, <1>2 DEF Alone, Calling, Free
  <1> QED
    BY <1>3, <1>4, <1>5 DEF Inv

-----------------------------------------------------------------------------
(* The theorems. *)

\* Inv holds in every reachable state, for any processes, missions and bounds:
\* whatever other tools, users, merges and deaths do between two steps of a tool,
\* what it remembers still fits the store it goes on to change.
THEOREM Invariance == DeskSpec => []Inv
  <1>1. DeskInit => Inv
    BY InitHolds
  <1>2. Inv /\ [DeskNext]_deskVars => Inv'
    BY StepKeeps
  <1> QED
    BY <1>1, <1>2, PTL DEF DeskSpec

\* Every receipt stored on a ticket is that of a call the controller took for the
\* mission of that very ticket, although the ticket was read, the call made and
\* the receipt recorded in three steps that nothing holds together
\* (launch_cursor_mission, continue_cursor_mission, attach_cursor_receipt).
THEOREM ReceiptsBelong == DeskSpec => []ReceiptsBelongToTicket
  <1>1. ASSUME Inv PROVE ReceiptsBelongToTicket
    <2> USE DEF Inv
    <2>0. DOMAIN tickets = 1 .. Len(tickets) /\ DOMAIN calls = 1 .. Len(calls)
      BY <1>1 DEF TicketsInv, CallsInv
    <2>1. ASSUME NEW i \in DOMAIN tickets
          PROVE  /\ ValidTicket(tickets[i]) /\ tickets[i].mission \in Fingerprint
                 /\ tickets[i].duplicate_of \in (DOMAIN tickets \ {i}) \cup {NoValue}
                 /\ {tickets[i].launch, tickets[i].run} \subseteq Receipt \cup {NoValue}
      <3>1. TicketOK(tickets[i], calls, misnumbered) /\ tickets[i].duplicate_of \in Maybe((1 .. Len(tickets)) \ {i})
        BY <1>1, <2>0, <2>1 DEF TicketsInv
      <3>2. tickets[i] \in Ticket
        BY <3>1 DEF TicketOK
      <3>3. /\ tickets[i].mission \in Fingerprint /\ tickets[i].state \in TICKET_STATES
            /\ tickets[i].launch \in Maybe(Receipt) /\ tickets[i].run \in Maybe(Receipt)
        BY <3>2 DEF Ticket
      <3>4. ValidTicket(tickets[i])
        BY <3>1, <3>3 DEF TicketOK, ValidTicket
      <3> QED
        BY <2>0, <3>1, <3>3, <3>4 DEF Maybe
    <2>2. DeskTypeOK
      BY <1>1, <2>0, <2>1 DEF DeskTypeOK, TicketsInv, CallsInv
    <2>3. ASSUME NEW i \in DOMAIN tickets
          PROVE  LET t == tickets[i]
                 IN  /\ \A r \in {t.launch, t.run} \ {NoValue} :
                           /\ r.fingerprint = t.mission
                           /\ r.id \in DOMAIN calls /\ calls[r.id].agent = r.agent
                           /\ calls[r.id].fingerprint = t.mission
                     /\ t.run # NoValue => t.launch # NoValue /\ t.run.agent = t.launch.agent
                     /\ t.contract \notin {NoValue, t.mission} => misnumbered
      <3>1. TicketOK(tickets[i], calls, misnumbered)
        BY <1>1, <2>0, <2>3 DEF TicketsInv
      <3> QED
        BY <2>0, <3>1 DEF TicketOK, Belongs
    <2> QED
      BY <2>2, <2>3 DEF ReceiptsBelongToTicket
  <1> QED
    BY Invariance, <1>1, PTL

\* Unless a submission was recorded over another one, which the tools' reading of
\* the ticket before they submit does not prevent, no agent and no correction is
\* started twice for a ticket, however processes die after the call.
THEOREM SingleCall == DeskSpec => []SingleCallUnlessRaced
  <1>1. ASSUME Inv PROVE SingleCallUnlessRaced
    <2>1. DOMAIN calls = 1 .. Len(calls) /\ raced \in BOOLEAN
      BY <1>1 DEF Inv, CallsInv, DeskInv
    <2> QED
      BY <1>1, <2>1 DEF Inv, Alone, SingleCallUnlessRaced
  <1> QED
    BY Invariance, <1>1, PTL

\* The number of a user's moves left is a number.
MovesLeft == moves \in Nat

\* A move is only made while some are left.
LEMMA MovesCounted == DeskSpec => []MovesLeft
  <1>1. DeskInit => MovesLeft
    BY DeskAssumption DEF DeskInit, MovesLeft
  <1>2. MovesLeft /\ [DeskNext]_deskVars => MovesLeft'
    <2> SUFFICES ASSUME MovesLeft, [DeskNext]_deskVars PROVE moves' \in Nat
      BY DEF MovesLeft
    <2>1. MoveTicket => moves' \in Nat
      BY DEF MoveTicket, MovesLeft
    <2>2. ASSUME NEW p \in Process, DeskStep(p) PROVE moves' = moves
      <3>1. CASE Reads(p)
        BY <3>1 DEF Reads, ReadForPrepare, EndPrepare, ReadForLaunch, RefuseAgent, AttachByHand, CheckReceipt,
              ReadForContinue, RefuseRun, StartSync, SkipSync, Observe, MutateFails, Die, OnlyDesk, bounds
      <3>2. CASE ~Reads(p)
        BY <2>2, <3>2 DEF Reads, DeskStep, CreateTicket, PersistContract, SubmitLaunch, StartAgent, FailLaunch,
              RecordLaunch, SubmitRun, StartRun, RecordRun, FailRun, ApplySync, OnlyStore, bounds
      <3> QED
        BY <3>1, <3>2
    <2>3. Merge => moves' = moves
      BY DEF Merge, bounds
    <2>4. UNCHANGED deskVars => moves' = moves
      BY DEF deskVars
    <2> QED
      BY <2>1, <2>2, <2>3, <2>4 DEF DeskNext, MovesLeft
  <1> QED
    BY <1>1, <1>2, PTL DEF DeskSpec

\* A step after which a ticket is Done that was not: a synchronisation that saw
\* the merge of its agent's pull request, or a user's move that cites a merge.
LEMMA DoneStep ==
  ASSUME Inv, moves \in Nat, [DeskNext]_deskVars, NEW i \in DOMAIN tickets,
         tickets'[i].state = "Done", tickets[i].state # "Done"
  PROVE  \/ tickets[i].launch # NoValue /\ tickets[i].launch.agent \in merged
         \/ moves' # moves /\ merged # {}
  <1> USE DEF Inv
  <1>0. /\ i \in 1 .. Len(tickets) /\ DOMAIN tickets = 1 .. Len(tickets) /\ Len(tickets) \in Nat
        /\ tickets \in Seq(Ticket)
    BY DEF TicketsInv
  <1>1. tickets' # tickets
    OBVIOUS
  <1>2. CASE MoveTicket
    <2>1. PICK k \in 1 .. Len(tickets), to \in TICKET_STATES, dup \in Maybe(1 .. MaxTickets),
               merge \in merged \cup {NoValue}, u \in Ticket :
            /\ CanTransition(tickets[k], to, dup, merge) /\ Store(k, u) /\ u.state = to
      BY <1>2, MoveApplies
    <2>2. i = k /\ to = "Done"
      BY <1>0, <2>1 DEF Store
    <2>3. merged # {}
      BY <2>1, <2>2 DEF CanTransition
    <2> QED
      BY <1>2, <2>3 DEF MoveTicket
  <1>3. ASSUME NEW p \in Process, DeskStep(p)
        PROVE  tickets[i].launch # NoValue /\ tickets[i].launch.agent \in merged
    <2> DEFINE d == desk[p]
               t == tickets[d.ticket]
    <2>1. CASE Reads(p)
      BY <1>1, <2>1, ReadsChangeNothing
    <2>2. CASE StartAgent(p) \/ StartRun(p)
      BY <1>1, <2>2 DEF StartAgent, StartRun
    <2>3. CASE CreateTicket(p)
      BY <1>0, <2>3 DEF CreateTicket
    <2>4. CASE PersistContract(p) \/ SubmitLaunch(p) \/ SubmitRun(p) \/ FailLaunch(p) \/ FailRun(p)
               \/ RecordLaunch(p) \/ RecordRun(p)
      <3>1. d.ticket \in 1 .. Len(tickets)
        BY <1>0, <2>4, TicketThere DEF DeskInv, PersistContract, SubmitLaunch, SubmitRun, FailLaunch, FailRun,
             RecordLaunch, RecordRun
      <3>2. t \in Ticket
        BY <1>0, <3>1
      <3>3. PICK u : Store(d.ticket, u) /\ (u.state = t.state \/ u.state \in {"Blocked", "In Progress"})
        <4> HIDE DEF t
        <4>1. CASE PersistContract(p)
          <5>1. Store(d.ticket, Recorded([t EXCEPT !.contract = d.fingerprint]))
            BY <4>1 DEF PersistContract, Mine, t
          <5>2. Recorded([t EXCEPT !.contract = d.fingerprint]).state = t.state
            BY <3>2 DEF Recorded, Ticket
          <5> QED
            BY <5>1, <5>2
        <4>2. CASE SubmitLaunch(p)
          <5>1. Store(d.ticket, Recorded([t EXCEPT !.submitted = TRUE]))
            BY <4>2 DEF SubmitLaunch, Mine, t
          <5>2. Recorded([t EXCEPT !.submitted = TRUE]).state = t.state
            BY <3>2 DEF Recorded, Ticket
          <5> QED
            BY <5>1, <5>2
        <4>3. CASE SubmitRun(p)
          <5>1. Store(d.ticket, Recorded([t EXCEPT !.continued = @ \cup {d.number}]))
            BY <4>3 DEF SubmitRun, Mine, t
          <5>2. Recorded([t EXCEPT !.continued = @ \cup {d.number}]).state = t.state
            BY <3>2 DEF Recorded, Ticket
          <5> QED
            BY <5>1, <5>2
        <4>4. CASE FailLaunch(p) \/ FailRun(p)
          <5>1. Store(d.ticket, LaunchFailed(t)) \/ Store(d.ticket, RunFailed(t))
            BY <4>4 DEF FailLaunch, FailRun, Mine, t
          <5>2. LaunchFailed(t).state = "Blocked" /\ RunFailed(t).state = "Blocked"
            BY <3>2 DEF LaunchFailed, RunFailed, Recorded, Ticket
          <5> QED
            BY <5>1, <5>2
        <4>5. CASE RecordLaunch(p) \/ RecordRun(p)
          <5>1. Store(d.ticket, Launched(t, d.receipt)) \/ Store(d.ticket, Continued(t, d.receipt))
            BY <4>5 DEF RecordLaunch, RecordRun, Mine, t
          <5>2. Launched(t, d.receipt).state = "In Progress" /\ Continued(t, d.receipt).state = "In Progress"
            BY <3>2 DEF Launched, Continued, Recorded, Ticket
          <5> QED
            BY <5>1, <5>2
        <4> QED
          BY <2>4, <4>1, <4>2, <4>3, <4>4, <4>5
      <3> QED
        BY <1>0, <3>1, <3>3 DEF Store
    <2>5. CASE ApplySync(p)
      <3>1. /\ d.ticket \in 1 .. Len(tickets) /\ TicketOK(t, calls, misnumbered)
            /\ d.seen \in Observations /\ (d.seen.pr = "merged" => d.seen.receipt.agent \in merged)
            /\ isTicketSyncEligible(t) /\ Room(t) /\ ~Contradicts(t, d.seen)
            /\ Store(d.ticket, Synced(t, d.seen))
        BY <1>1, <2>5, SyncApplies
      <3>2. i = d.ticket /\ Synced(t, d.seen).state = "Done"
        BY <1>0, <3>1 DEF Store
      <3> DEFINE u == Synced(t, d.seen)
      <3>3. u.state = "Done" => d.seen.pr = "merged"
        <4> HIDE DEF u
        <4>1. u = Synced(t, d.seen)
          BY DEF u
        <4> QED
          BY <3>1, <4>1, SyncOp DEF isTicketSyncEligible
      <3>4. d.seen.receipt = currentCursorReceipt(t) /\ currentCursorReceipt(t) # NoValue
        BY <3>1 DEF Contradicts, isTicketSyncEligible
      <3>5. t.launch # NoValue /\ t.launch.agent = d.seen.receipt.agent
        BY <3>1, <3>4 DEF currentCursorReceipt, TicketOK
      <3> QED
        BY <3>1, <3>2, <3>3, <3>5
    <2> QED
      BY <1>3, <2>1, <2>2, <2>3, <2>4, <2>5 DEF DeskStep, Reads
  <1>4. Merge \/ UNCHANGED deskVars => tickets' = tickets
    BY DEF Merge, deskVars
  <1> QED
    BY <1>1, <1>2, <1>3, <1>4 DEF DeskNext

\* A ticket becomes Done on evidence: synchronise_tickets moves it there only when
\* the pull request of the ticket's own agent is merged, though it stores what it
\* observed some steps earlier, and a user's move has to cite a merge.
THEOREM DoneOnMerge == DeskSpec => DoneOnlyOnMerge
  <1>1. ASSUME Inv, MovesLeft, [DeskNext]_deskVars
        PROVE  [\A i \in DOMAIN tickets :
                  tickets'[i].state = "Done" /\ tickets[i].state # "Done" =>
                     \/ tickets[i].launch # NoValue /\ tickets[i].launch.agent \in merged
                     \/ moves' # moves /\ merged # {}]_deskVars
    BY <1>1, DoneStep DEF MovesLeft
  <1> QED
    BY Invariance, MovesCounted, <1>1, PTL DEF DeskSpec, DoneOnlyOnMerge

-----------------------------------------------------------------------------
(* The ledger. *)

\* What the ledger keeps of the store: the receipts, and the closed tickets.
Launches(ts) == [i \in DOMAIN ts |-> ts[i].launch]
Runs(ts) == [i \in DOMAIN ts |-> ts[i].run]
Closed(ts) == {i \in DOMAIN ts : Terminal(ts[i])}

\* An operation that leaves the receipts closes or reopens a ticket, or does nothing.
LEMMA LedgerQuiet ==
  ASSUME tickets \in Seq(Ticket), NEW i \in 1 .. Len(tickets), NEW u, Store(i, u), SameReceipts(tickets[i], u)
  PROVE  Receipts!CloseOrReopen
  <1>1. /\ DOMAIN tickets' = DOMAIN tickets /\ i \in DOMAIN tickets
        /\ \A k \in DOMAIN tickets : tickets'[k] = IF k = i THEN u ELSE tickets[k]
    BY DEF Store
  <1>2. Launches(tickets') = Launches(tickets) /\ Runs(tickets') = Runs(tickets)
    BY <1>1 DEF Launches, Runs, SameReceipts
  <1>3. Closed(tickets') \subseteq DOMAIN tickets
    BY <1>1 DEF Closed
  <1> QED
    BY <1>1, <1>2, <1>3 DEF Receipts!CloseOrReopen, Launches, Runs, Closed

\* An operation that attaches the receipt of a launch, and one of a run.
LaunchesTo(t, u, r) ==
    ~Terminal(t) /\ t.launch = NoValue /\ ~Terminal(u) /\ u.launch = r /\ u.run = t.run

RunsTo(t, u, r) ==
    CanAttachRun(t, r) /\ ~Terminal(u) /\ u.run = r /\ u.launch = t.launch

\* Attaching the receipt of a launch is AttachLaunch of the ledger.
LEMMA LedgerLaunch ==
  ASSUME tickets \in Seq(Ticket), NEW i \in 1 .. Len(tickets), NEW r \in Receipt, NEW u, Store(i, u),
         LaunchesTo(tickets[i], u, r)
  PROVE  Receipts!AttachLaunch(i, r)
  <1>1. /\ DOMAIN tickets' = DOMAIN tickets /\ i \in DOMAIN tickets
        /\ \A k \in DOMAIN tickets : tickets'[k] = IF k = i THEN u ELSE tickets[k]
    BY DEF Store
  <1> USE DEF LaunchesTo
  <1>2. Launches(tickets') = [Launches(tickets) EXCEPT ![i] = r] /\ Runs(tickets') = Runs(tickets)
    BY <1>1 DEF Launches, Runs
  <1>3. Closed(tickets') = Closed(tickets) /\ i \notin Closed(tickets) /\ Launches(tickets)[i] = NoValue
    BY <1>1 DEF Closed, Launches
  <1> QED
    BY <1>2, <1>3 DEF Receipts!AttachLaunch, Launches, Runs, Closed

\* Attaching the receipt of a run is its AttachRun.
LEMMA LedgerRun ==
  ASSUME tickets \in Seq(Ticket), NEW i \in 1 .. Len(tickets), NEW r \in Receipt, NEW u, Store(i, u),
         RunsTo(tickets[i], u, r)
  PROVE  Receipts!AttachRun(i, r)
  <1>1. /\ DOMAIN tickets' = DOMAIN tickets /\ i \in DOMAIN tickets
        /\ \A k \in DOMAIN tickets : tickets'[k] = IF k = i THEN u ELSE tickets[k]
    BY DEF Store
  <1> USE DEF RunsTo
  <1>2. Runs(tickets') = [Runs(tickets) EXCEPT ![i] = r] /\ Launches(tickets') = Launches(tickets)
    BY <1>1 DEF Launches, Runs
  <1>3. /\ Closed(tickets') = Closed(tickets) /\ i \notin Closed(tickets)
        /\ Launches(tickets)[i] # NoValue /\ r.agent = Launches(tickets)[i].agent
        /\ Runs(tickets)[i] # NoValue => r.number > Runs(tickets)[i].number
    BY <1>1 DEF Closed, Launches, Runs, CanAttachRun, CanFailRun
  <1> QED
    BY <1>2, <1>3 DEF Receipts!AttachRun, Launches, Runs, Closed

\* A function on 1 .. n is a sequence of length n.
LEMMA FunctionOnIndices ==
  ASSUME NEW S, NEW n \in Nat, NEW f \in [1 .. n -> S] PROVE f \in Seq(S) /\ Len(f) = n
  BY SeqDef, LenProperties

\* A function on one more number is its restriction with the last value appended.
LEMMA AppendedGraph ==
  ASSUME NEW S, NEW n \in Nat, NEW g \in [1 .. (n + 1) -> S], NEW f \in [1 .. n -> S],
         \A k \in 1 .. n : f[k] = g[k]
  PROVE  g = Append(f, g[n + 1])
  <1>1. n + 1 \in Nat /\ g[n + 1] \in S
    OBVIOUS
  <1>2. f \in Seq(S) /\ Len(f) = n
    BY FunctionOnIndices
  <1>3. g \in Seq(S) /\ Len(g) = n + 1
    BY <1>1, FunctionOnIndices
  <1>4. /\ Append(f, g[n + 1]) \in Seq(S) /\ Len(Append(f, g[n + 1])) = n + 1
        /\ \A k \in 1 .. (n + 1) : Append(f, g[n + 1])[k] = g[k]
    BY <1>1, <1>2
  <1> QED
    BY <1>3, <1>4, SeqEqual

\* A new ticket is OpenTicket of the ledger.
LEMMA LedgerOpen ==
  ASSUME tickets \in Seq(Ticket), NEW u \in Ticket, tickets' = Append(tickets, u),
         u.launch = NoValue, u.run = NoValue, ~Terminal(u)
  PROVE  Receipts!OpenTicket
  <1> DEFINE n == Len(tickets)
  <1>1. /\ n \in Nat /\ DOMAIN tickets = 1 .. n /\ DOMAIN tickets' = 1 .. (n + 1)
        /\ tickets'[n + 1] = u /\ \A k \in 1 .. n : tickets'[k] = tickets[k]
        /\ tickets' \in Seq(Ticket)
    OBVIOUS
  <1>3. /\ Launches(tickets') = Append(Launches(tickets), NoValue)
        /\ Runs(tickets') = Append(Runs(tickets), NoValue)
    <2>1. ASSUME NEW k \in 1 .. (n + 1)
          PROVE  tickets'[k].launch \in Maybe(Receipt) /\ tickets'[k].run \in Maybe(Receipt)
      <3>1. k = n + 1 \/ k \in 1 .. n
        BY <1>1
      <3>2. \A j \in 1 .. n : tickets[j] \in Ticket
        OBVIOUS
      <3>3. tickets'[k] \in Ticket
        BY <1>1, <3>1, <3>2
      <3> QED
        BY <3>3 DEF Ticket
    <2>2. /\ Launches(tickets) \in [1 .. n -> Maybe(Receipt)]
          /\ Launches(tickets') \in [1 .. (n + 1) -> Maybe(Receipt)]
          /\ Launches(tickets')[n + 1] = NoValue
          /\ \A k \in 1 .. n : Launches(tickets)[k] = Launches(tickets')[k]
      BY <1>1, <2>1 DEF Launches
    <2>3. /\ Runs(tickets) \in [1 .. n -> Maybe(Receipt)]
          /\ Runs(tickets') \in [1 .. (n + 1) -> Maybe(Receipt)]
          /\ Runs(tickets')[n + 1] = NoValue
          /\ \A k \in 1 .. n : Runs(tickets)[k] = Runs(tickets')[k]
      BY <1>1, <2>1 DEF Runs
    <2> HIDE DEF n
    <2>4. Launches(tickets') = Append(Launches(tickets), NoValue)
      BY <1>1, <2>2, AppendedGraph
    <2>5. Runs(tickets') = Append(Runs(tickets), NoValue)
      BY <1>1, <2>3, AppendedGraph
    <2> QED
      BY <2>4, <2>5
  <1>4. Closed(tickets') = Closed(tickets)
    BY <1>1 DEF Closed
  <1> QED
    BY <1>3, <1>4 DEF Receipts!OpenTicket, Launches, Runs, Closed

\* Every step of the desk is a step of the ledger or leaves it.
LEMMA LedgerStep ==
  ASSUME Inv, [DeskNext]_deskVars PROVE [Receipts!LedgerNext]_(Receipts!ledger)
  <1> USE DEF Inv
  <1>0. tickets \in Seq(Ticket) /\ DOMAIN tickets = 1 .. Len(tickets)
    BY DEF TicketsInv
  <1>1. UNCHANGED tickets => UNCHANGED Receipts!ledger
    BY DEF Receipts!ledger
  <1>2. ASSUME NEW i \in 1 .. Len(tickets), NEW u, Store(i, u), SameReceipts(tickets[i], u)
        PROVE  Receipts!LedgerNext
    BY <1>0, <1>2, LedgerQuiet DEF Receipts!LedgerNext
  <1>6. ASSUME NEW i \in 1 .. Len(tickets), NEW r \in Receipt, Receipts!AttachLaunch(i, r) \/ Receipts!AttachRun(i, r)
        PROVE  Receipts!LedgerNext
    <2>1. i \in DOMAIN Launches(tickets)
      BY <1>0, <1>6 DEF Launches
    <2>2. \E k \in DOMAIN Launches(tickets), x \in Receipt : Receipts!AttachLaunch(k, x) \/ Receipts!AttachRun(k, x)
      BY <1>6, <2>1
    <2> QED
      BY <2>2 DEF Receipts!LedgerNext, Launches
  <1>3. CASE MoveTicket
    BY <1>2, <1>3, MoveApplies
  <1>4. ASSUME NEW p \in Process, DeskStep(p) PROVE [Receipts!LedgerNext]_(Receipts!ledger)
    <2> DEFINE d == desk[p]
               t == tickets[d.ticket]
    <2>1. CASE Reads(p)
      BY <1>1, <2>1, ReadsChangeNothing
    <2>2. CASE StartAgent(p) \/ StartRun(p)
      BY <1>1, <2>2 DEF StartAgent, StartRun
    <2>3. CASE CreateTicket(p)
      <3>1. PrepareOK(d, tickets, misnumbered)
        BY <2>3, Shape DEF DeskInv, CreateTicket
      <3>2. d.fingerprint \in Fingerprint
        BY <3>1 DEF PrepareOK, PrepareState
      <3>3. PICK u : u = NewTicket(d.fingerprint)
        OBVIOUS
      <3>4. u \in Ticket /\ u.launch = NoValue /\ u.run = NoValue /\ ~Terminal(u)
        BY <3>2, <3>3, NewOp DEF Terminal, TERMINAL_TICKET_STATES
      <3>5. tickets' = Append(tickets, u)
        BY <2>3, <3>3 DEF CreateTicket
      <3> QED
        BY <1>0, <3>4, <3>5, LedgerOpen DEF Receipts!LedgerNext
    <2>4. CASE PersistContract(p) \/ SubmitLaunch(p) \/ SubmitRun(p) \/ FailLaunch(p) \/ FailRun(p)
               \/ RecordLaunch(p) \/ RecordRun(p)
      <3>1. d.ticket \in 1 .. Len(tickets)
        BY <1>0, <2>4, TicketThere DEF DeskInv, PersistContract, SubmitLaunch, SubmitRun, FailLaunch, FailRun,
             RecordLaunch, RecordRun
      <3>2. t \in Ticket
        BY <1>0, <3>1
      <3> HIDE DEF t
      <3>3. CASE PersistContract(p)
        <4>1. Store(d.ticket, Recorded([t EXCEPT !.contract = d.fingerprint]))
          BY <3>3 DEF PersistContract, Mine, t
        <4>2. SameReceipts(t, Recorded([t EXCEPT !.contract = d.fingerprint]))
          BY <3>2 DEF Recorded, Ticket, SameReceipts
        <4> QED
          BY <1>2, <3>1, <4>1, <4>2 DEF t
      <3>4. CASE SubmitLaunch(p)
        <4>1. Store(d.ticket, Recorded([t EXCEPT !.submitted = TRUE]))
          BY <3>4 DEF SubmitLaunch, Mine, t
        <4>2. SameReceipts(t, Recorded([t EXCEPT !.submitted = TRUE]))
          BY <3>2 DEF Recorded, Ticket, SameReceipts
        <4> QED
          BY <1>2, <3>1, <4>1, <4>2 DEF t
      <3>5. CASE SubmitRun(p)
        <4>1. Store(d.ticket, Recorded([t EXCEPT !.continued = @ \cup {d.number}]))
          BY <3>5 DEF SubmitRun, Mine, t
        <4>2. SameReceipts(t, Recorded([t EXCEPT !.continued = @ \cup {d.number}]))
          BY <3>2 DEF Recorded, Ticket, SameReceipts
        <4> QED
          BY <1>2, <3>1, <4>1, <4>2 DEF t
      <3>6. CASE FailLaunch(p) \/ FailRun(p)
        <4>1. Store(d.ticket, LaunchFailed(t)) \/ Store(d.ticket, RunFailed(t))
          BY <3>6 DEF FailLaunch, FailRun, Mine, t
        <4>2. SameReceipts(t, LaunchFailed(t)) /\ SameReceipts(t, RunFailed(t))
          BY <3>2 DEF LaunchFailed, RunFailed, Recorded, Ticket, SameReceipts
        <4> QED
          BY <1>2, <3>1, <4>1, <4>2 DEF t
      <3>7. CASE RecordLaunch(p)
        <4>1. Store(d.ticket, Launched(t, d.receipt)) /\ CanAttachLaunch(t)
          BY <3>7 DEF RecordLaunch, Mine, t
        <4>2. d.receipt \in Receipt
          <5>1. AttachOK(d, tickets, calls)
            BY <3>7, Shape DEF DeskInv, RecordLaunch
          <5> QED
            BY <5>1 DEF AttachOK, AttachState
        <4>3. LaunchesTo(t, Launched(t, d.receipt), d.receipt)
          BY <3>2, <4>1 DEF Launched, Recorded, Ticket, Terminal, TERMINAL_TICKET_STATES, CanAttachLaunch, LaunchesTo
        <4>4. PICK i \in 1 .. Len(tickets), r \in Receipt : i = d.ticket /\ r = d.receipt
          BY <3>1, <4>2
        <4>5. PICK u : u = Launched(t, d.receipt)
          OBVIOUS
        <4>6. Store(i, u) /\ LaunchesTo(tickets[i], u, r)
          BY <4>1, <4>3, <4>4, <4>5 DEF t
        <4> QED
          BY <1>0, <1>6, <4>6, LedgerLaunch
      <3>8. CASE RecordRun(p)
        <4>1. Store(d.ticket, Continued(t, d.receipt)) /\ CanAttachRun(t, d.receipt)
          BY <3>8 DEF RecordRun, Mine, t
        <4>2. d.receipt \in Receipt
          <5>1. RunRecordOK(d, tickets, calls)
            BY <3>8, Shape DEF DeskInv, RecordRun
          <5> QED
            BY <5>1 DEF RunRecordOK, RunRecordState
        <4>3. RunsTo(t, Continued(t, d.receipt), d.receipt)
          BY <3>2, <4>1 DEF Continued, Recorded, Ticket, Terminal, TERMINAL_TICKET_STATES, RunsTo
        <4>4. PICK i \in 1 .. Len(tickets), r \in Receipt : i = d.ticket /\ r = d.receipt
          BY <3>1, <4>2
        <4>5. PICK u : u = Continued(t, d.receipt)
          OBVIOUS
        <4>6. Store(i, u) /\ RunsTo(tickets[i], u, r)
          BY <4>1, <4>3, <4>4, <4>5 DEF t
        <4> QED
          BY <1>0, <1>6, <4>6, LedgerRun
      <3> QED
        BY <2>4, <3>3, <3>4, <3>5, <3>6, <3>7, <3>8
    <2>5. CASE ApplySync(p)
      <3> DEFINE u == Synced(t, d.seen)
      <3>1. /\ d.ticket \in 1 .. Len(tickets) /\ TicketOK(t, calls, misnumbered) /\ d.seen \in Observations
            /\ \/ UNCHANGED tickets
               \/ isTicketSyncEligible(t) /\ Room(t) /\ Store(d.ticket, u)
        BY <2>5, SyncApplies
      <3> HIDE DEF u
      <3>2. CASE isTicketSyncEligible(t) /\ Room(t) /\ Store(d.ticket, u)
        <4>1. SameReceipts(t, u)
          BY <3>1, <3>2, SyncOp DEF isTicketSyncEligible, u
        <4> QED
          BY <1>2, <3>1, <3>2, <4>1
      <3> QED
        BY <1>1, <3>1, <3>2
    <2> QED
      BY <1>4, <2>1, <2>2, <2>3, <2>4, <2>5 DEF DeskStep, Reads
  <1>5. Merge \/ UNCHANGED deskVars => UNCHANGED tickets
    BY DEF Merge, deskVars
  <1> QED
    BY <1>1, <1>3, <1>4, <1>5 DEF DeskNext

\* The tools implement the ledger of receipts of MissionReceipts: receipts are
\* attached once or replaced by a later run of the same agent, on open tickets
\* only, and never lost, however the steps of the tools interleave.
THEOREM LedgerKept == DeskSpec => KeepsLedger
  <1>1. DeskInit => Receipts!LedgerInit
    <2> SUFFICES ASSUME DeskInit PROVE Receipts!LedgerInit
      OBVIOUS
    <2>1. tickets = <<>> /\ DOMAIN tickets = {}
      BY DEF DeskInit
    <2>2. \A f : f = [i \in DOMAIN tickets |-> f[i]] => f = <<>>
      BY <2>1
    <2> QED
      BY <2>1, <2>2 DEF Receipts!LedgerInit
  <1>2. Inv /\ [DeskNext]_deskVars => [Receipts!LedgerNext]_(Receipts!ledger)
    BY LedgerStep
  <1> QED
    BY Invariance, <1>1, <1>2, PTL DEF DeskSpec, KeepsLedger, Receipts!LedgerSpec
=============================================================================
