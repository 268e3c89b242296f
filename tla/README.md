# DUBSAR Memory: models, checks and proofs

This directory models the parts of DUBSAR Memory that several processes share through the file
system, checks them with TLC on small instances and proves the most important results with TLAPS for
every instance. Module names are in `code font`; source paths are relative to the repository root,
and `runtime/` stands for `packages/dubsar-project-continuity/runtime/`.

DUBSAR has no daemon and no database. A project's memory is a directory of JSON and Markdown files,
tracked by Git; the processes that change it are command lines, agents and a loopback server, each
of which reads files, shows a preview with a digest, and publishes with a lock file and a rename.
Everything that can go wrong is therefore an interleaving of file operations of processes that do
not know one another, a process that dies between two of them, or a file that changes without the
lock.

## 1. Inventory

| Part | State it keeps | Operations | What is hard |
|---|---|---|---|
| **Memory writer** (`runtime/memory-vnext-writer.mjs`) | `.dubsar/work/*.md`, `knowledge/*.md`, `inbox/*.md`, `generated/context.md`, `checkpoints.json`, `local.json`; `.dubsar/.dubsar-memory.lock` | preview and apply of `work_create`, `work_status`, `work_select`, `inbox_add`, `inbox_promote`, `knowledge_retire`, `checkpoint_append`, `context_write` | the change is computed before the lock and published after it; crashes; checkouts and editors that take no lock |
| **Snapshot and contracts** (`memory-vnext-snapshot.mjs`, `-contracts.mjs`, `-markdown.mjs`, `safe-capture.mjs`) | none | capture every canonical file twice, validate documents, cross references, hash chain, limits | one bad document makes every command fail; files change between the passes |
| **Pending checkpoints** (`memory-vnext-pending-writer.mjs`, `-list.mjs`, `-promotion.mjs`) | `.dubsar-pending/<source>/<id>.md`, `.dubsar-pending-record.lock` | record, list, promote | two locks that do not exclude each other; candidates from other worktrees; candidates that age |
| **Workspace creation** (`memory-vnext-initializer.mjs`, `-bootstrap.mjs`, `-migration.mjs`, `lite-initializer.mjs`) | the workspace directory itself, one lock per command | create, bootstrap, migrate | four commands with different locks look for each other's result and rename |
| **Lite and lots** (`checkpoint-writer.mjs`, `lite.mjs`, `project.mjs`, `snapshot.mjs`) | `.dubsar-project/` `state.json`, `checkpoints.json`, `lots.json`, `evidence.json`; `.dubsar-checkpoint.lock` | checkpoint, evidence, lot transitions | one inspection of many files under one lock, while people edit the others |
| **Close session** (`close-session.mjs`) | none between runs | prompts, then a checkpoint | what is read before the prompts is used after them |
| **Personal memory** (`personal-memory.mjs`) | one directory of Markdown files | initialise, append | numbering of entries, initialisation by rename |
| **Ticket registry** (`packages/dubsar-workbench-launcher/src/registry-store.mjs`) | `.dubsar/tickets.json` per project; `ticket-allocations.json`, `ticket-allocations.lock`, `ticket-allocations.recovery.lock` shared by all projects | create, transition, activity, Cursor launch/run receipts, synchronisation | a lease of 30 s and its recovery; two files published one after the other |
| **Project registry** (same file) | `projects.json` | add, remove | read, edit, publish without a lock |
| **My Work MCP server** (`packages/dubsar-my-work-mcp/src/`) | mission contracts, an OAuth token file | prepare, launch, continue, attach, synchronise | ticket, remote call and receipt are steps that fail apart; answers are lost |
| **Workbench server** (`packages/dubsar-workbench-server/src/server.mjs`) | one session: its timers, its shared reading, its ticket handlers | serve a page, refresh a project, preview and apply ticket changes, close | readings shared by requests, timers against connections, confirmations repeated |
| **Workbench launcher** (`packages/dubsar-workbench-launcher/src/launcher.mjs`), **report** (`dubsar-workbench-report`) | the published report file; the state of the page in the browser | generate, publish, serve, open; poll, select, preview, confirm | a page is rendered in one place and its session decided in another |
| **Evaluation, freshness, context, router, capsules, lots view** | none | pure functions of one inspection | many cases; several functions answer the same question |
| **Audit readiness** (`packages/dubsar-audit-readiness/skills/dubsar-audit-readiness/scripts/`) | the five documents of a case, `reviews/<decision>/<receipt>.json`, an output directory | ensure a case, record a receipt, export a bundle, render a summary | no lock at all: files created one after the other, documents read one after the other while people edit them |
| **Review ledger, capture** (`packages/dubsar-operator-core/src/review-ledger.mjs`, `snapshot.mjs`) | none | list, read and list again the receipts; capture a case twice | receipts appear, empty and then written, during the reading |
| **Command lines, Spec Kit, Codex and Cursor tools, release tools** | none | parsing, printing, release checks | nothing a model checker reaches |

How they interact. Every command starts with a *snapshot*; the memory writer, the promotion and the
close session publish through the same protocol and share `.dubsar-memory.lock`; a pending record has
a lock of its own beside the workspace and only *compares* the shared snapshot; the workbench server
and the command line both call the ticket registry, whose lock is shared by every project of the
user; Git and editors change all of these files and take no lock.

What makes each part correct:

* **memory writer**: every published change is one operation executed alone on the files it
  replaces; nothing another process published is undone; the journal is a valid, append-only chain;
  no sequence of operations leaves a workspace that the snapshot rejects; the lock comes back.
* **pending checkpoints**: a recorded candidate stays readable and unchanged; a promotion continues
  the chain its author saw; limits hold however records interleave; debris is never unexplained.
* **tickets**: an identifier belongs to one project; stores and allocations agree; at most one owner
  of the lock through crashes and recoveries; no lost update.
* **missions**: no remote call is made twice for one decision; a ticket holds only receipts of its own
  mission; it is Done only when its work is merged.
* **workspace creation**: a project's directories are always ones some reader accepts; journals only
  grow; a migration loses nothing.
* **audit case**: one case per directory, whatever two creations or a death leave; a bundle is what was
  copied and ready as a whole; a digest is of one moment; the ledger shows what was recorded.
* **lots, personal memory, project registry**: one process's publication never makes a valid
  workspace invalid, entries are kept and numbered, a list that loads is replaced by one that loads.
* **Workbench**: one delivery for one consumer, one publication per confirmation, a page that never
  goes back and catches up, a session that ends.

`PROJECT.json` lists each component with its status and each hazard at its line.

## 2. Modules

```
MemoryDocuments          documents, snapshot, what each operation publishes (no state)
  AtomicWorkspace        the promise: one operation at a time
    AtomicWorkspaceProofs       theorems about the sequential workspace
    MemoryWriter         concurrent writers: preview, confirm, lock, recheck, stage, rename, crash
      OutsideUpdates     + updates that take no lock; fairness
    PendingCheckpoints   records, promotions, merges, beside the writers as AtomicWorkspace
      PendingCheckpointsProofs  theorems about records and promotions
    Inspection           one reader, file by file, beside the writers, Git and editors
        WriterAndReaderProofs   theorems about the writers, without and with updates that take
                                no lock, and about what a reader is given
  MemoryViews            what readers are told of one snapshot (no state)
LocalProcesses           what the small file protocols share
  WorkspaceCreation      initialise, bootstrap, Lite initialise, migrate, Lite checkpoint
    CloseSession         + interactive sessions, and memory writers beside them
LotRules                 validity, readiness and next action of a workspace in lots (no state)
  LotWorkspace           checkpoint and transition beside people who edit
PersonalMemory           creation and numbered entries
ProjectRegistry          the list of projects, without a lock
  FileProtocolsProofs           theorems about PersonalMemory, ProjectRegistry, CloseSession
                                and LotWorkspace
TicketAllocation         allocation lock, lease, recovery, two renames
  TicketAllocationProofs        theorems about the lock, the two files and identifiers
TicketLifecycle          guard and result of every ticket operation (no state)
  MissionDesk            the My Work tools around the store and a remote controller
    MissionDeskProofs           theorems about receipts, calls and the ledger
MissionReceipts          the promise about receipts, implemented by MissionDesk
AuditRules               documents of an audit case and receipts (no state)
  AuditCase              ensure, record, export, render and capture beside people who edit
    ReviewLedger         + the reader of the receipts
      AuditProofs               theorems about the scripts, the outputs and the ledger
WorkbenchSession         one session of the loopback server
  DashboardPage          + the page in the browser
    WorkbenchLaunch      + the launcher, the kinds of session, fairness
      WorkbenchProofs           theorems about deliveries, tickets and the page
MCMemoryWriter, MCWriterSubjects, MCWorkspaceReaders, MCPendingCheckpoints, MCTicketAllocation,
MCFileProtocols, MCMissionDesk, MCWorkbench: instances for TLC
```

**`MemoryDocuments`.** A workspace is a function from file names to documents, `NULL` where there is
no file. Documents keep the fields that a guard or a property reads: statuses, citations, the
journal's indexes, identifiers, resolutions and digests. A SHA-256 digest is represented by the value
it covers, so the previous-digest chain of the journal is the journal's own prefix and equal digests
are equal contents. `SnapshotAccepts` is what `snapshotMemoryWorkspace` requires of the whole
workspace; `Accepted`, `Target`, `After` and `BuildChange` are `buildChange`'s conditions, target,
bytes and preview for the eight operations. Inbox notes and the generated context are written but
are not part of a snapshot, as in `ROOT_FILES`.

**`AtomicWorkspace`** is the abstract specification: `Execute(p)` evaluates an operation's conditions
on the files and replaces its target, in one step.

**`MemoryWriter`** has one action per step that another process can see between:

| Action | Code (`memory-vnext-writer.mjs`) |
|---|---|
| `StartPreview`, `StartApply` | `buildChange` takes its snapshot (an apply builds again and requires the confirmed digest) |
| `ShowPreview`, `Confirm`, `RefuseBuild` | the rest of `buildChange`, the live reads, the digest comparison |
| `Lock`, `RefuseLocked` | `open(lock, "wx")`; a taken lock is refused, nobody waits |
| `Recheck` | snapshot and target captured again under the lock and compared |
| `Stage`, `FinalCheck`, `Rename`, `Verify` | temporary file, last capture of the target, rename, captures after it |
| `RefuseConcurrent`, `IOFailure`, `Close` | every throw between lock and rename, and the `finally` block |
| `Crash` | the process dies; its lock file stays, and no code recovers it: later applies are refused |

The live reads of a build happen in one step: no operation removes a file and an apply rebuilds, so a
finer step shows no other outcome. The recheck is one step for the same reason among writers that
hold the lock; `OutsideUpdates` is where files change between the steps without it. A failed `Verify`
reports an error for a change that is published, which is why it changes no file. A silent failure to
unlink the lock has the effect of a crash in `closing` and is not a separate action.

**`OutsideUpdates`** adds `Arrive`: a checkout, a merge or an editor leaves another valid workspace
without taking the lock.

**`MemoryViews`** (no state) is what one snapshot and one observation of the cited artifacts lead to:
the compiler (`RoutingAction`, `EligibleWorks`), the evaluator (`NextAction`, `Readiness`), freshness
(`ReferenceFreshness`, `Supported`), the facts and the router (`ExactRelations`, `Guidance`,
`MemoryState`), the lots view, the history (`HistoryPage`), the precedents and the capsule. These are
modules written apart that answer the same questions, which is why `Agreement` compares them. What a
checkpoint records beside its identifiers is the constant `Content`; a text is a model value.

**`Inspection`** is `inspectWorkspace` with `observeMemoryReferences`, step by step: `CaptureNext` lists
a directory or captures a document in the source's order, `Recapture` compares the second pass,
`Observe` reads an artifact within the limits, `Reobserve` reads it again, and `SecondSnapshot` goes
round once more. One capture is one step, because `captureRegularFile` compares the file before and
after its bytes are read. Writers' operations, Git and editors (`Publish`, `Tamper`, `ArtifactChange`)
happen between any two steps; files carry an identity, which a later file may take over. `moments` is
history: what there was to read at each moment of the current phase. `returned` says whether a
document, a directory's names or an artifact has come back to what it had been. `FirstPage`
and `NextPage` are a reader who turns the pages of the history while the journal grows.

**`PendingCheckpoints`** models `pending record` and `pending promote` step by step
(`publishPendingRecord`, `publishPromotion`), the source directories, the temporary file that makes
`inventoryPending` and the list refuse the tree, the two lock files, merges that bring candidates
recorded on any prefix of the current journal, and crashes. The other memory writers appear as
`AtomicWorkspace` operations taken while the memory lock is free, which is what the `Refinement`
theorem allows. A preview writes nothing and an apply requires the digest of all it was built from,
so an apply starts from the build its user confirmed. `stale_chain` only changes what the preview
says; a stale *Work* chain is refused and is modelled.

**`TicketAllocation`** models `applyTicketChange`: `OpenLock` and `WriteLock` are two steps because
`stagePrivateFile` leaves an empty lock file when it dies or fails between them; `ObserveExpired`,
`ClaimRecovery`, `ConfirmExpired`, `MoveAside`, `LoseLock` and `ReleaseRecovery` are the recovery;
`Recheck`, `RenameStore`, `RenameAllocations`, `RollBack`, `RollBackFails` and `Unlock` the
publication. The clock is the action `Expire`: a lease may end at any moment. The bytes of the
previous store are read in the same step as the recheck. Operations other than `create` replace one
store and add one entry to an activity, and appear as `update`; what they do to a ticket is in
`TicketLifecycle`.

**`WorkspaceCreation`**. `.dubsar-project` (`lite`) is its journal, `.dubsar` (`memory`) the journal
its manifest binds and its own. A command is `Start` (the build of an apply), `LockHome` (its own lock
file), `FirstLook`, `FinalLook`, `PublishHome` (rename of the staging directory, or of the temporary
file of a Lite checkpoint), `UnlockHome`, with `HomeFailure` and `CrashHome` in between. `LooksClear`
says what each command looks at: they differ, and `lite_initialize` does not look for `.dubsar`.
`Accepts` is what `locateProjectWorkspace` and the memory snapshot require of the two directories
together. `slipped` and `overlooked` are history: a rename landed after another command's last look,
a Lite workspace was created beside a memory one.

**`CloseSession`** adds `OpenSession` (the inspection the blockers are computed from),
`PreviewSession` (which inspects again), `ApplyLiteSession` and `ApplyMemorySession`
(`runLiteClose`, `runMemoryClose`), and the other memory writers as atomic operations, which
`Refinement` justifies. The selected Work of a memory session is taken to be active; a session in a
workspace in lots is a checkpoint of `LotWorkspace`.

**`LotRules`** holds `evaluateProjectSnapshot`, `analyzeEvidenceV2` and `transitionDocument` as
operators: `IntegrityValid`, `ReadinessReason`, `nextAction`, `CheckpointedEvidence`,
`TransitionAllowed`. `hasDependencyCycle` is stated by what Kahn's algorithm leaves unvisited.
**`LotWorkspace`** builds a change and publishes it. A transition is built on one inspection
(`BuildTransition`). A checkpoint inspects (`InspectForCheckpoint`) and digests afterwards the artifacts its
proposal cites and those of evidence/1 that it migrates (`BuildCheckpoint`, `DigestedPaths`), so an edit may come
between. `publishOneFile` is `LockLots`, `Reinspect`, `PublishLots`, `UnlockLots`, failures and crashes.
`Reinspect` compares what `snapshot_sha256` covers (`LotSnapshot`): the documents, and the artifacts that the
evidence on disk cites, not those that the checkpoint digested itself. `EditByHand` changes the mission, the contract and
the artifacts. All that a checkpoint digests is digested in one step.

**`PersonalMemory`** prepares on the files it captured and publishes later: `PrepareEntry` computes the
entry's number, `LockNotebook`, `CompareNotebook`, `AppendEntry` are the apply; `PrepareNotebook` and
`CreateNotebook` stage a directory and rename it.

**`ProjectRegistry`** reads (`AddProject`, `RemoveProject`), publishes and verifies in three steps,
without a lock.

**`TicketLifecycle`** is `applyOperation`: one guard and one result per operation (transition, launch,
run, failures, synchronisation), and `mapSyncedFields`. **`MissionDesk`** composes it with a remote
controller: per tool the reading of the store, each `mutate` (one operation or a failure), the remote
call, whose answer may be lost, and the observation of runs and pull requests; `MutateFails` and `Die`
may take any step's place. **`MissionReceipts`** is the abstract ledger: a launch receipt once, runs
of the launched agent with growing correction numbers, nothing attached to a closed ticket.

**`AuditRules`** is `validateAuditWorkspace` (a document keeps its case, the artifacts it refers to,
whether it gives a reason not to be ready, and the review's requested status; a digest is the value it
covers), and what the recorder (`RecorderAccepts`, `Reconcilable`) and the ledger (`LedgerAccepts`,
`Shown`) require of a receipt. **`AuditCase`** runs the scripts: a script is a sequence of phases
(`AskExport`, `LoadReady`, `PrepareOutput`, `CopyNext`, `CheckBundle`, `WriteSummary`,
`WriteManifest`, for instance), and a phase that reads the case reads one file per step (`ReadNext`).
A file is `Partial` between its exclusive creation and its bytes (`CreateDocument`/`WriteDocument`,
`CreateReceipt`/`WriteReceipt`). People edit documents and artifacts between any two steps
(`EditCase`); a script may die (`CrashClerk`). The files of an output are written in one step and read
in one step, because nobody replaces what a script has created there. `log` is history: the states the
case has been in. A scenario may begin with recorders that have confirmed the root (`RootConfirmed`), with the moments
at which they read it in the `past`. **`ReviewLedger`** is `readReviewLedger`: `ListDecision` and `StatFile` walk the tree
before, between and after `OpenCandidate`/`ReadCandidate`, and any difference ends in `CaptureRace`, as does a limit or a
structure that refuses the whole ledger (`LedgerFails`). A receipt carries the flaws that the ledger looks
at and the recorder does not (`Flaw`: something named twice, a reference like a URI, the name of a receipt, the case's
name, the text, the printed size); a file that is too large is listed and never opened (`ToRead`).

**`WorkbenchSession`** models one session of `server.mjs`: `HandleRequest` and `Finish` per
connection, the shared and the kept reading (`RefreshReads`, `RefreshCompletes`, `RefreshFails`,
`SecondPasses`), the ticket handlers (`HandlerPreviews` to `HandlerAnswers`; `HandlerFails` answers a refusal, of a
change that is already published too), the timers (`IdleEnds`,
`LifetimeEnds`, `GraceEnds`, `HardDeadline`), lost connections. **`DashboardPage`** adds the page:
polling, selection, and ticket forms that may be confirmed twice; each request has a connection of its
own, so answers arrive in any order. **`WorkbenchLaunch`** adds the launcher's steps and decides the
kind of session from how it was asked for; a launch of the registry can still fail after its report is published,
when it reads the tickets and renders the live page (`CatalogFails`).

## 3. Runs

| Run | Instance | What it shows |
|---|---|---|
| `writer_operations` | 2 writers; a behaviour is about the journal (1 Work, 2 checkpoints, 1 crash) or about Knowledge (note → Knowledge → citing Work, contexts) | the inductive invariant of the proofs (`Inv`) holds; valid journal and resolved citations (`DocumentsValid`); no lost update (`PublishedFromCurrent`); every commit is an `AtomicWorkspace` step (`AtomicSpec`); no Work is published citing an entry retired behind its preview, and what is retired stays retired (`CitesApprovedKnowledge`) |
| `workspace_readers` | one behaviour is about a reader (2 changes during one inspection, 2 artifacts, 3 limits, pages of 2), about what is told of one of an enumerated set of workspaces (2 Works, journals of at most 3 of 5 checkpoints), or about 2 writers with 2 updates without lock and fairness | a snapshot and an observation are each of one moment unless something came back (`SnapshotOfOneMoment`, `ObservedAtOneMoment`); writers' operations alone never make a reader call a valid workspace invalid (`NoFalseAlarm`); pages that neither skip nor repeat (`WalkSeesEach`); views that agree (`ViewsAgree`); a foreign update is overwritten only between the last check and the rename; the lock is always given back (`LockReleased`) |
| `writer_item_limit` | *violation* | `work_create` does not count: a workspace at the limit of docs/LIMITATIONS.md is given one more item |
| `pending_record` | 2 processes, 2 sources, 1 Work, limit of 1 source and 2 candidates, 1 merge, 1 crash | the tree stays within its limits and listable except for debris that a lock explains (`PendingTreeListable`); promotions continue the Work's chain |
| `pending_promotion` | 2 processes, 2 sources, 2 Works | candidates stay immutable; the journal changes by sequential operations only |
| `ticket_lock` | 3 processes, 2 projects, 2 identifiers, 3 locks taken, 1 crash, 1 failed roll back | one owner, agreement of the files, no lost update, as long as owners finish within their lease |
| `ticket_restart` | *violation*, 1 crash | a crash between the two renames lets two projects share an identifier |
| `ticket_lease` | *violation*, no crash | an owner slower than its lease does the same |
| `file_protocols` | one behaviour is about one protocol: creation and close (2 processes, journals of 2, 1 crash), lots (2 authors, 2 lots, 2 entries, 2 edits, 1 crash), personal memory (2 writers, 2 categories, 2 entries, 1 crash), registry (2 tools, 3 directories, 3 identifiers, limit 2), audit case (11 scenarios of 2 scripts, 2 artifacts, 2 edits, 1 crash; one of them with receipts that only the ledger refuses and reconciliations of them) | unreadable directories only through the two known gaps; journals that only grow, through migrations too; a close that keeps what it inspected; integrity kept by the writers, but for what a checkpoint digests itself (`WritersKeepIntegrity`); completion on evidence; readiness and next action agree; entries kept and numbered; a registry that always loads; one case per directory (`OneCase`); bundles that are ready as they were copied (`BundleReady`); roots, summaries and captures of one moment (`SignedAtOneMoment`); a ledger of one moment, less what only the ledger refuses (`LedgerShowsRecorded`) |
| `mission_desk` | 2 processes, 2 missions, 2 tickets, 3 remote calls, 1 correction, 8 entries of activity, user moves, 1 death; six scenarios of who is asked for what | receipts belong to their ticket; a call is repeated only by tools that raced; Done only on a merge; every step is one of `MissionReceipts` (`KeepsLedger`) |
| `workbench` | nine ways of asking, 2 projects, 2 connections, 1 version, 2 ticket changes, 2 visits, 1 click, 1 fault (a lost connection, a failed reading or a failed handler); fairness | one delivery, one publication per confirmation, a page that never shows an older state, a session that ends, a page that catches up |
| `workbench_registry` | *violation*, same instance | a page of the registry is told that its session is over while it is ready |

**Bounds.** Two writers are enough for every conflict of the memory writer: its conditions compare a
change with what *some* other process published, and the proofs cover any number. Recovery of the
ticket lock involves an owner that is gone, a recoverer and a rival, hence three processes and three
locks. One crash leaves every kind of left-over file; in the memory writer a second one is impossible
while the first one's lock is there, except outside the lock, where a crash changes nothing. The
protocols of `file_protocols` share no file, so one behaviour runs one of them and the state space is
their sum. An audit case with two artifacts has one that its index cites and one that an edit may
cite; two scripts are a creation that meets a creation, an export that meets another, a recorder that
meets a reconciliation; two decisions make the ledger list two directories. In the scenarios of the
ledger the case has lost its scope, or an earlier receipt is there, so that the recorders
stop early and the reader meets each of their files absent, empty and written. Two tools and three remote calls of `mission_desk` give a race, a retry and a continuation;
the scenarios are pairs of tools, because a third one meets only what the first two left in the store.
Two changes during an inspection are enough to mix two moments, in either pass, and for a document to
be replaced or removed after it was captured; a mixture that the second pass cannot see takes four
(section 5), and the proofs cover every number. Three entries
of the journal give an attempt repeated, a relation, a resolution. The limits (`MaxWork`, `MaxSources`, `MaxCandidates`, `MaxTickets`, `MaxActivity`, `MAX_ACTIVITY`,
`MaxLite`, `MaxBlockers`, `MaxEntries`, `MaxProjects`) are the constants of the contracts made small
enough to be reached; `MaxCrashes`, `MaxMerges`, `MaxOutside`, `MaxAttempts`, `MaxFailures`,
`MaxOverruns`, `MaxEvidence`, `MaxEdits`, `MaxJournal`, `MaxCalls`, `MaxVersion`, `MaxChanges`,
`MaxFaults`, `MaxVisits`, `MaxClicks`, `MaxUpdates`, `PageLimit` and `Connections` bound the environment. Symmetry is used over
processes, sources, projects, authors and missions, never in a run with a liveness property.

**Deadlock.** It is checked in the writer's runs. The others set `CHECK_DEADLOCK FALSE`: a crash that
leaves a lock file, an exhausted limit, a session that has ended or the last allowed step of the
environment stops every process for good, in the code as in the model.

**Fairness.** `OutsideSpec` assumes weak fairness of each writer's `Advance`, the steps of one apply
from lock to unlock. They are awaited file operations of one Node function, which settle, with
success or an error, without anybody else's help. Nothing is assumed about users starting anything,
about crashes (there are none in that run: a dead process does not give its lock back and the code
does not claim so), or about outside updates.

`WorkbenchSpec` assumes weak fairness of what the server, the browser and armed timers do by
themselves: requests are handled, responses finish, readings return, answers are taken, the live page
polls, the grace period and the hard deadline run out. Nobody is assumed to navigate, click, leave or
change a project; ticket handlers and refreshes may never return. `SessionEnds` has the fairness of
the lifetime timer as a premise, because `ReachesCurrent` is about sessions that stay. Time is
abstracted once: a live page asks two seconds after each answer and an answer is cut after ten, so the
idle timer of two minutes does not fire under a page that polls (`IdleWithoutHeartbeat`).

**Conditions in the properties.** `CandidatesImmutable` and `PendingTreeListable` speak of workspaces
without merges, because a merge brings candidates past every check; `TicketAllocation`'s properties
speak of leases that are respected (`overruns = 0`) and, for the agreement of the two files, of
creates that were not cut in two (`torn`). The violation runs show that these conditions are needed.
`NoFalseAlarm` and `WalkSeesEach` speak of readers that meet writers' operations only: an editor may
remove what the journal cites. `SnapshotOfOneMoment` and `ObservedAtOneMoment` have the exception `returned`,
which section 5 explains. `SignedAtOneMoment` speaks of contents that do not come back (`Restored`): a comparison of digests
cannot see a change that was undone. `UnreadableOnlyThroughKnownGaps`, `SingleCallUnlessRaced` and `ReceiptsBelongToTicket` name the gap
they leave; section 5 lists the gaps.

## 4. Proofs

Each `*Proofs` module is about every value of the constants of the module it extends: any processes,
writers, projects, sources, missions and lots, any limits, any number of crashes, failures, merges and
edits. All have the same shape: an inductive invariant, one lemma per group of actions that keep it,
and theorems that follow from it, or from it and one step.

**`AtomicWorkspaceProofs`**. `AtomicSafety`: the sequential workspace keeps documents typed, the journal
valid and citations resolved. One lemma per conjunct; the journal's case is that an appended entry
extends a valid chain.

**`WriterAndReaderProofs`**, about `MemoryWriter` and `OutsideUpdates`.

* `Invariance`: `Inv`, that is `TypeOK /\ IInv`, is inductive. `LockExclusive` alone says nothing about
  files, and `PublishedFromCurrent` is not inductive: a rename needs to know that the comparison made
  two steps earlier still holds. `IInv` therefore records, per writer, what its phase has established:
  a captured snapshot's documents still exist, a confirmed change is `Planned` (its bytes are what its
  operation computes from its snapshot), a change that has passed the recheck is still
  `StillCurrent`, and the temporary file holds the change's bytes. Steps outside the lock change no
  file (`UnlockedSteps`), the holder's own steps establish the next phase (`LockedSteps`), and a
  rename leaves no other writer in a phase that speaks of currency (`RenameStep`).
* `Refinement`: `Spec => AtomicSpec`. Under `IInv` a rename is `Execute` of the change's proposal
  (`RenameExecutes`); every other step stutters.
* From these: `WorkspaceValid` (`DocumentsValid`, carried over from `AtomicSafety`), `AppendOnly`,
  `NoLostUpdate`, `MutualExclusion`, and `CitesApproved`: a rename publishes a Work only with entries
  approved at that instant, because it is `Execute`, whose guard reads them (`ExecuteCitesApproved`).
* Under `OutsideUpdates` that argument is lost: an update may come between the recheck and the rename,
  so neither `StillCurrent` nor the types of `TypeOK` are stable. What remains is `OutsideInv`: the lock
  excludes (`LockStillExcludes`, from which `OutsideMutualExclusion`), a confirmed change is of a file of
  the workspace, and a writer that is ready finds what it checked or has been overtaken since
  (`CheckedOrBlind`). `OvertakenOnlyAfterTheLastCheck` is `OutsideNotOverwritten`.

The same module, about `Inspection`. The reader holds nothing, so an invariant can only be about what it has captured
and about the moments that have passed; `moments` makes the second expressible.

* `InspectionInvariant`: `Inspected`. What was captured was there at one moment or another (`CaptureInv`). During
  the second pass there is one moment, that of its beginning, at which a part either was as it was captured
  or will be found changed (`Pivot`): while nothing comes back, a part that had changed by then still differs from its
  capture. At the last comparison every part was therefore as captured at that moment.
  `SnapshotsAreOfOneMoment` (`SnapshotOfOneMoment`) and `ObservationsAreOfOneMoment`
  (`ObservedAtOneMoment`, with `SeenPivot`) follow.
* `ReadersRaiseNoFalseAlarm` (`NoFalseAlarm`) is about the order of the captures. `Calm` says that what
  is left to read is in that order (the root, the journal, the selection, the Works, the Knowledge), that
  what was listed or captured still exists, because operations remove nothing (`AtomicWorkspaceProofs`), and that, as long as
  every moment was valid, what a captured document cites is listed once its directory is. At the last
  capture that is the check across documents; limits and chains are those of the moment at which they were read.
* `HistoryIsShownEntire` (`WalkSeesEach`): the journal of the first page is a prefix of the journal, and
  what has been shown are its last entries, down to the cursor.
* `ReadersConclude` (`ConclusionsAgree`, most of what `ViewsAgree` compares): by cases on the status of the selected
  Work, its blockers and its attempts. The evaluator, the router, the facts and the lots view test them in different
  orders. It holds of every workspace that a snapshot accepts, whatever made it.

**`PendingCheckpointsProofs`**. `Invariance`: `PInv`. `PendingTreeListable` is not inductive: a record
renames what it compared with the limits a few steps earlier, and a promotion appends what it classified
earlier. `RecordOK` and `PromoteOK` say per phase which of these facts still hold, and `Locks` and `Apart`
why: records exclude one another, promotions exclude one another and the canonical writers, a record and
a promotion share nothing but the candidates, which neither replaces. From it: `PendingListable`,
`Immutable` (`CandidatesImmutable`), `ContinuesChain` (`ContinuesWorkChain`), and `Refinement`: a promotion
is one `checkpoint_append` of `AtomicWorkspace` at its rename (`PromotionExecutes`), which rests on the
largest entry of a Work being the one that the head of the journal shows (by well-foundedness of the
naturals). `WorkspaceKept` carries `AtomicSafety` over.

**`TicketAllocationProofs`**. Three layers, each inductive with the ones before it.

* `LockInv`, whatever the leases do: nonces are fresh and distinct, one process at a time recovers, and
  what a recoverer is about to move aside is a lock whose lease has expired.
* `OwnInv`, as long as every owner finishes within its lease: one process has the lock, and the lock
  file says whose it is (`LockIsHeld`). `OneOwner` is not inductive without it: a recoverer checks a nonce
  and then renames whatever is there, and `LockIsHeld` is why that is never a live lock.
* `HeldIsCurrent` and `FilesMatch`: what was confirmed is what is on disk from the recheck to the last
  rename, so the two files agree but for the identifier being published.

The theorems are `OneOwnerAlways`, `StoreMatches` (`StoreMatchesAllocations`), `NoTicketLost`
(`PublishedFromCurrent`), `IdentifiersPermanent` (the allocations only grow), and `IdentifiersUnique`:
identifiers are unique as long as no store is torn and no lease overrun. Its two hypotheses are exactly what the
runs `ticket_restart` and `ticket_lease` violate, so neither can go.

**`MissionDeskProofs`**. The tools hold nothing while they read, call and record, so the whole argument is
that what a process remembers stays true of a store that others change (`DeskKept`): tickets keep their mission,
their launch and what was submitted on them (`Extends`), calls are never withdrawn (`CallsGrown`), and every
fact of `DeskOK` is monotonic in these. `Inv` has four parts: right tickets (`TicketsInv`), calls recorded before
they are made (`CallsInv`), what processes remember (`DeskInv`), and `Alone`: without a race nobody is about
to make a call that was made or that another is about to make. `SingleCallUnlessRaced` needs `Alone` because a death
between the call and its receipt leaves no trace but the submission recorded before it. Each operation of the
store is shown to give a right and later version of its ticket (`ContractOp` to `MoveOp`). The theorems:
`ReceiptsBelong`, `SingleCall`, `DoneOnMerge` (a merged observation names an agent that is still the ticket's and
whose merge is not undone), and `LedgerKept`, the refinement of `MissionReceipts`, one lemma per abstract action
(`LedgerOpen`, `LedgerLaunch`, `LedgerRun`, `LedgerQuiet`).

**`FileProtocolsProofs`**. `RegistryLoads`: the file loads and so did the list each process is about to
publish (`RegistryInv`). `EntriesKept`: `PersonalInv` adds to the types that one process has the lock and that a
process that has compared the file publishes on what it compared (`CheckedIsCurrent`); the number of a new entry is one more
than the file's length (`NextEntryId`) because the file is numbered without a gap, so that it stays within its limit
(`PersonalTyped`) too.

Creation and close rest on `HomeInv`. A lock file belongs to one process (`HomeLocked`), but there are four of
them, so what a command saw before its rename is not protected by its own: `Stands` says what still
holds of it. A checkpoint's Lite journal is the one it was computed from, because every writer of it
takes the checkpoint lock and no other command replaces it; for the others it holds until `slipped`. That is
why `ReadableUnlessSlipped` (`UnreadableOnlyThroughKnownGaps`) has that exception and needs no third.
`BlockersKept` (`CloseKeepsInspectedBlockers`) is carried by what a previewed session has in hand
(`Previewed`, `Jobs`: the state it will write has every blocker it was shown), and `JournalsGrow` by
`StartsWithBound`: the journal of a migrated workspace starts with the one its manifest binds.
`HomeTyped` is the types.

The two writers of a workspace in lots rest on `LotInv`, which says what a process has in hand (`Sound`: the change was valid on
what was inspected and digested, and is one allowed transition or an extension of the evidence), that one process has the
lock, and that the lots and the evidence it inspected are those on disk, and so is all that the snapshot covers unless somebody has
edited since (`InspectedIsCurrent`). From it `LotTyped`, `IntegrityKept` and `CompletionOnEvidence`. Validity looks at an
artifact only if it is cited (`OnlyCitedMatter`), and what a checkpoint's evidence cites is in the snapshot or was digested by the
checkpoint (`PublishedAsBuilt`): so what `IntegrityKept` says of a checkpoint is that it publishes on a valid workspace, and one that
is valid with the artifacts it digested taken as it digested them. For a transition nothing is digested and
the workspace it leaves is valid as it lies there. `NextActionAgrees` is
about two functions of the code that compute readiness and the next action by different cases; it is proved of every
value, not only of reachable ones (`ActionMatchesReason`).

**`AuditProofs`**. The scripts hold no lock, so everything rests on what the file system does not undo. The invariants
are stated apart and each uses the ones before it.

* `CaseInvariant`: `CaseInv` says where each script is, what it has read and has still to read, and whose an empty file
  is. `EnsureAnswersOneCase` (`OneCase`) is not inductive without it. A document's case never changes once it is written, a document
  that a script has read still has that case (`ReadsKept`), and an empty file can be filled by the script that created it and by
  nobody else (`FilledOnce`); so what `ensure` has read one file after the other is still one case when it answers.
* `BundleInvariant`: what a script has copied is what the output holds, because whoever writes there found it empty
  (`writers`) and nothing is replaced (`OutputGrows`). `ExportsAreReady` (`BundleReady`) follows, because
  the bundle is checked after the copies and not before (`Exported`).
* `TimesInvariant`: each value that a phase has read lay there at a moment between the beginning and the end of that
  phase (`Within`), in `log`, for the root before and after a receipt is written, the root around a renderer's reading, and both
  passes of a capture. When nothing comes back, a value found equal before and after a moment was there at that moment, and the
  moments coincide. `DigestsAreOfOneMoment` (`SignedAtOneMoment`).
* `LedgerInvariant`: what a recorder has checked of earlier receipts stays so, because receipts only grow, and one
  recorder writes a name (`ReceiptInv`). For the ledger the moment is the end of its first listing: until the second listing ends a
  receipt that the first one missed is still to be met (`Covering`), and afterwards what is opened is what it was (`Holding`).
  `LedgerIsOfOneMoment` (`LedgerShowsRecorded`), with `ShownIs` for what the ledger refuses by rule. A receipt that is too
  large is in the listings and not among what is opened, and what reconciles it is not shown either.
* `AuditTyped` is the types, and that an output that is not empty has a script that found it empty.

**`WorkbenchProofs`**. `WorkbenchInv` relates what is on its way between page and server: requests and
answers on connections, the reading under way, the one kept, and the handlers that have not returned.
None of the three properties is inductive.

* `OnceOnly` (`AtMostOnce`). A page for one consumer: one connection at most can still bring it, and none
  once it was delivered (`DeliveredOnce`). A ticket change: whoever may still confirm a preview holds it
  (`Held`: a request, a handler, an answer, the page), an operation has one previewed change, and once
  that was published its base is older than the stores (`PublishedOnce`), so that every later `apply` of
  it is refused. That a new preview never takes an old operation's number is `ClicksCount`.
* `NeverOlder` (`ShownNeverOlder`). What is known of a project is ordered: the page, the answer on its way,
  the kept reading, the reading under way, the project (`ReadingsOrdered`). It rests on the page having at
  most one request for a state, which is what `liveBusy` is for.
* A request, an answer or a deadline disturbs one part at a time. `Fades` is what may become of a
  connection that matters to nobody else (cut, forgotten, answered without 200), and `QuietStep` says that
  a step that only does that keeps everything.

**Assumptions.** The proofs rest on the named assumptions of the modules and on nothing else: limits and budgets are
naturals (`MAX_ACTIVITY` positive); what users and environments propose is well formed (`ProposalsAssumption`,
`PendingAssumption`, `LotAssumption`, `AuthoringAssumption`, `DeskAssumption`, `CloseAssumption`, `OutsideAssumption`); the workspaces and artifacts that a
reader meets have their types and are finitely many files, and whatever replaces a document has the type of its file (`InspectionAssumption`);
the documents, receipts and edits of an audit case are well formed, and a scenario begins where scripts could have left the case, with
receipts that the recorder accepts and scripts that have not begun or have confirmed the root (`AuditAssumption`); artifacts
and receipts have finitely many names, and no name or value of a case is the one that stands for an absent or unwritten file (`CaseAssumption`); the model values for "no file" and "no value" are none of
the values they stand beside (`NullAssumption`, `MissingAssumption`, `WriterAssumption`, `PersonalAssumption`,
`CloseAssumption`, `SessionAssumption`, `PageAssumption`). TLC evaluates
them on every run.

**Only model-checked.** Liveness under fairness (`LockReleased`, `SessionEnds`, `ReachesCurrent`) is out of the
prover's reach. So is what a recursive definition computes for every input: the model of such a function is stated by what it
returns where a proof needs it (`nextEntryId`, `First`, `LotRules`' unvisited lots). What `ViewsAgree` adds to `ConclusionsAgree`
is about entries selected from the journal (the last entry about a Work, the relation, the precedents, the cut of
the capsule). `SelectSeq` is defined by recursion and the prover cannot open it, so TLC compares these views on enumerated
journals. `FilesTypeOK`, of the instance that puts the small protocols side by side, is the conjunction of
`HomeTypeOK`, `LotTypeOK`, `PersonalTypeOK` and `AuditTypeOK`: each is a theorem about its own module
(`HomeTyped`, `LotTyped`, `PersonalTyped`, `AuditTyped`).

## 5. What the violations say, and the gaps the properties name

* `writer_item_limit`: docs/LIMITATIONS.md:8-11 allows at most 256 Work items; `buildChange` does not
  count the directory it adds to, and the workspace with one too many is rejected by every later
  snapshot, including the one that verifies the apply.
* `ticket_restart`: docs/DUBSAR_TICKETS_CONTRACT.md:7 promises distinct identifiers across restarts.
  The project's store is renamed before the allocations and nothing reconciles them.
* `ticket_lease`: line 39 of the same contract promises serialised creations. The lease is tested by
  the process that waits, not by the owner before it renames.
* `workbench_registry`: `executeCatalogLaunch` renders a live page and serves it from a session that
  cannot read its projects again; the first poll is answered 404 and the page declares the session
  over (docs/WORKBENCH.md:78 promises a live refresh).

Gaps that no document excludes, and that a passing property names as its only exceptions:

* the four creating commands have different locks: a rename that lands after another command's last
  look leaves two directories that no reader accepts (`slipped`), and Lite `initialize` does not look
  for `.dubsar` at all (`overlooked`);
* a blocker recorded between a close session's inspection and its preview is dropped by the closing
  checkpoint (`CloseKeepsInspectedBlockers`);
* two tools that both read a ticket before either records its submission call the controller twice
  (`raced`);
* a mission prepared for one ticket number may be persisted under another when a number is allocated
  in between (`misnumbered`);
* two overlapping registrations of projects: the later publication undoes the earlier
  (`RegistryStaysLoadable`);
* an artifact that a checkpoint is the first to cite, or migrates from evidence/1, may be edited between its
  digest and the rename: `checkpoint-writer.mjs:456` compares the snapshot, which covers neither, and a valid workspace
  becomes one with `EVIDENCE_SUPPORT_MISSING`, without an error. `WritersKeepIntegrity` takes these artifacts as they were
  digested (`AsDigested`); with the artifacts as they lie there it is false in the instance. The instance has an edit that changes an
  artifact and nothing else, so the gap occurs in it. An artifact that is
  both cited already and cited again is compared.

What the readers' model showed outside the properties it states, or why one is stated as it is:

* `SnapshotOfOneMoment` without its exception is false. The second pass compares contents and file numbers,
  and a document can come back to both: writers that select a Work, clear the selection and select it again
  leave `local.json` as it was, and a new file may be given a number that is free again. If the document was captured before
  it changed, another one after, and each is itself again when it is compared, the snapshot is of no
  moment. The same holds of artifacts (`returned`);
* a checkout between two captures can make the journal cite a Work that is gone; the reader then
  reports `MEMORY_CHECKPOINTS_INVALID`, not the race it is (`NoFalseAlarm` has `~tampered`);
* a file created while the reader runs may take the number of a file just removed; a capture then
  fails as a duplicate identity (`Captured`, verdict `duplicate`);
* with no Work selected and all complete the evaluator says `continuity_complete` and the router
  `record` (`Agreement` compares the others);
* `resumed` is told of a resolution even where its state still lists blockers, and the lots view puts
  a complete Work under `complete` whatever its blockers: no two views contradict one another there,
  so `Agreement` leaves both alone;
* the comment at `memory-vnext-freshness.mjs:118-124` bounds what one inspection reads by twice the byte
  budget; `Observe` charges only captures that succeed, so captures that fail after reading add to it.

What the audit case and its ledger showed in the same way:

* the recorder takes receipts that the ledger leaves out, with all that reconciles them (`Refused` in
  `LedgerShowsRecorded`): a domain review by a person; a finding or a reviewed receipt named twice; an evidence
  reference that looks like a URI (`src/a.mjs:42`), which record-review-receipt.mjs:50 accepts and review-ledger.mjs:183 does not;
  an identifier of a finding or a receipt that is not in the ledger's form; a case name with capitals; an unpaired
  surrogate, or a text that reads like a credential as it is printed;
  a receipt that is printed to more than 262,144 bytes, which is never opened (1365-1367);
* one thing in the tree can cost the whole ledger, and the recorder does not prevent it: more than 256 receipts,
  the limits on nodes, memory, projection and time, a name the ledger does not allow, a finding without a
  textual identifier. `LedgerFails` stands for all of them, so
  `LedgerShowsRecorded` speaks of what is projected, not of a ledger that must be;
* a creation that dies leaves half a case, which every later `ensure` refuses and none repairs: `OneCase`
  speaks of what was answered;
* two exports that both find the output empty stop one another, and the artifact one has copied may
  stay outside the other's manifest (`writers` in `BundleReady`);
* a bundle is checked as a whole, so it is consistent, but its documents may come from two moments of
  the case;
* a recorder validates the case before it takes the root it records: the root may be one of documents
  that are no longer valid;
* the capture of an audit case compares only the files that its first pass found: an artifact that
  appears meanwhile stays "missing" (`Found` in `SignedAtOneMoment`).

## 6. Not modelled

Text, paths, encodings, secret detection and symbolic links; the digest of the references of a
memory checkpoint; wording of previews; acceptance criteria and the shortening of texts in capsules. File
identities appear where a reader compares them (`Inspection`) and nowhere else. The two passes of the
pending list are one atomic read.

* `CloseRecord` removes the temporary file and the record lock, and the code swallows a failure of either unlink
  (memory-vnext-pending-writer.mjs:441-446). One that leaves the temporary file without the lock is left out: it would be the debris
  that `PendingTreeListable` says a lock explains.
* A Lite workspace is its journal here, and with an empty journal `LiteCurrent` is active and not blocked. The code returns
  `initial_state` there, whatever the proposal of `initialize` says (lite-initializer.mjs:52).
* The stores that ticket handlers compare have one counter. The digest of registry-store.mjs:462-471 covers the store of one
  project and the allocations, so the code refuses less often than `HandlerApplies`, for which any change is a conflict; that
  one confirmation publishes once does not depend on it, because the store of the project changes with each of its own
  changes.

The components with status `not_modelled` in `PROJECT.json` carry
the reason.

## 7. Plan

The catalogue page of the report: the project, the lot filter and the graph filter it shows agree with
the views of `LotRules`. What a failure leaves for good in the ticket registry
(`ticket-allocations.recovery.lock`, or a lock file that was opened and not written) has no property: the
code has no recovery for it, so there is none to check.
