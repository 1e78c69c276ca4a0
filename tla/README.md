# A formal model of the T3 Code server and its client

T3 Code is a server (Node, Effect) that runs coding agents (Codex, Claude, Cursor,
OpenCode) for a web client and a desktop shell.  Its core is event sourced: clients and
reactors dispatch commands, a decider turns them into events, and the events feed an
in-memory read model, SQLite projection tables and a live stream, which reactors and
clients follow.  This directory holds TLA+ modules for that core and for what hangs on
it (provider sessions, checkpoints, terminals, git status, the client's
synchronisation), TLC instances of them, and TLAPS proofs.  Paths are relative to the
repository; `S/` stands for `apps/server/src/`, `W/` for `apps/web/src/`, `P/` for
`packages/shared/src/`.

    tlasany M.tla                        parse
    tlc -workers 2 -config X.cfg M       check (which M: see "Runs")
    tlapm M_proofs.tla                   prove (some leaves name a timeout)

## 1. Inventory

| component | state | operations | hard behaviour |
|---|---|---|---|
| Orchestration domain (`S/orchestration/decider.ts`, `projector.ts`) | read model: projects, threads with messages, plans, activities, checkpoints, latest turn, session | decide a command, fold an event | revert to a turn, placeholders, streamed text, which sequences are admitted |
| Projection pipeline and snapshot (`S/orchestration/Layers/ProjectionPipeline.ts`, `ProjectionSnapshotQuery.ts`) | nine tables, a cursor per projector, image files | apply an event, bootstrap, snapshot | must agree with the projector after a restart; adoption of pending turn starts; stops in a bootstrap |
| Engine, event store, receipts (`S/orchestration/Layers/OrchestrationEngine.ts`, `S/persistence/Layers/`) | queue, worker, read model, log, receipts | dispatch, the worker's transaction, reconcile, publish | retries, failures between any two accesses, ambiguous commits, stops, hot stream |
| Normalizer (`S/orchestration/Normalizer.ts`) | image files | write the files of a message before its command | removal by commands that were queued before |
| Provider runtime ingestion (`S/orchestration/Layers/ProviderRuntimeIngestion.ts`) | buffers per turn and message | provider events -> commands | acts on a read model that changes before its command is decided; partial text |
| Provider command reactor, deletion reactor, reaper, provider service (`S/orchestration/Layers/`, `S/provider/Layers/`) | sessions, bindings | start, send, interrupt, stop, sweep | the send is forked; stops and sweeps act on what was read earlier |
| Checkpoint reactor and store | git refs | baseline, capture, restore, revert | four effects, any of which fails; captures late |
| Keyed coalescing worker, drainable worker (`P/`) | values, marks, queue, counter | enqueue, drain, loop | two transactions per item, failures |
| Terminal manager (`S/terminal/Layers/Manager.ts`) | sessions, processes, transcripts | open, clear, restart, close, limit, drain fibers | callbacks against operations; sessions dropped by the limit |
| Git status broadcaster (`S/git/Layers/GitStatusBroadcaster.ts`) | cache, counted pollers | subscribe, refresh, poll | release on interruption, stale reads |
| WebSocket methods (`S/ws.ts`) | subscriptions, bootstrap of a turn start | snapshot then live stream | the window between the two; four steps of which one fails |
| Command gate (`S/serverRuntimeStartup.ts`) | readiness, queue | enqueue, signal, fail | overtaking; everyone failed |
| Web client synchronisation (`W/environments/runtime/`) | connection, subscriptions, cache, saved environments | reconnect, recover, retain, evict, add, remove | overlapping reconnects and calls, timers of dropped entries |
| Web stores (`W/store.ts`, `W/components/ChatView.tsx`) | threads, drafts | reducers, first send | duplicates, retries after a lost connection |
| Adapters, protocol packages, auth, settings, UI, desktop, contracts | various | conversion, input/output | section 7 |

Interaction: clients call `dispatch` through `ws.ts`, after the gate; ingestion and the
checkpoint reactor call it too.  The engine's one worker serializes all commands and
publishes each event to a PubSub, which the reactors and the client subscriptions read.
Requests to the provider are events (`thread.turn-start-requested`, ...) that the
command reactor turns into calls; what the provider answers comes back as commands
through ingestion.

What makes the components correct:

- engine: a command takes effect at most once and whole; answers are true and always
  given; the stream is ordered and complete; after a failure the memory is level with
  the database;
- domain: memory and tables agree whatever the sequence of commands; turn counts are
  unique; a revert cuts only the end of a conversation; a resolved approval stays so;
- bootstrap: each projector applies each event once, whatever it was stopped in;
- files: the image files are those that rows refer to;
- workers: nothing is stranded or queued twice; drains wait for the last item and
  return;
- turns: every request is sent or reported as failed, what is stopped stays stopped,
  sessions that run are known, the answer is neither lost nor repeated;
- checkpoints: a checkpoint has the files and the conversation of its turn, a revert
  restores both or is reported as failed;
- workspace: output in order, exits noticed, processes found, status shown;
- client: what it shows is what the server has, once the connection is up; retries
  neither lose nor strand a message.

`PROJECT.json` lists every component and, under `hazards`, the places where this can go
wrong, with the property that watches each, or why there is none.

## 2. Modules

| module | models | source |
|---|---|---|
| `Projector`, `Decider` | the read model and the fold; `Allowed` and `DecidedEvents`; pure operators | `projector.ts`, `decider.ts`, `commandInvariants.ts` |
| `ProjectionPipeline` | the projectors on a record of tables, and `Snapshot` | `ProjectionPipeline.ts`, `ProjectionSnapshotQuery.ts` |
| `Orchestration` | composes the three: a step per accepted command, and `Restart` | |
| `OrchestrationEngine` | decider, projector and tables with queue, worker, transaction, receipts, failures, stops | `OrchestrationEngine.ts` |
| `CommandLog` | the abstract promise of the engine, which `OrchestrationEngine` implements | |
| `ProjectionBootstrap` | cursors, `bootstrap` with its read limit, upgrades, stops | `ProjectionPipeline.ts` |
| `Attachments` | image files: written before, removed after | `Normalizer.ts`, `ProjectionPipeline.ts` |
| `KeyedCoalescingWorker`, `DrainableWorker` | the two workers and their callers | `packages/shared` |
| `TerminalOutput`, `TerminalSessions` | one terminal's events; the sessions of all | `Manager.ts` |
| `GitStatusBroadcaster` | cache, streams, refreshes, the counted poller | `GitStatusBroadcaster.ts` |
| `Checkpointing` | baselines, captures, placeholders, reverts, with workspace, refs and conversation | `CheckpointReactor.ts` and others |
| `ProviderSessions`, `TurnFlow` | the adapters' and the directory's sessions; on it, the reactors, the reaper and ingestion's session updates | `ProviderService.ts`, `ProviderCommandReactor.ts`, ... |
| `AssistantMessages` | deltas, waits and completions becoming messages | `ProviderRuntimeIngestion.ts` |
| `CommandGate` | the gate of the startup | `serverRuntimeStartup.ts` |
| `FirstSend` | a draft, its window and the bootstrap of its turn on the server | `ChatView.tsx`, `ws.ts` |
| `EnvironmentConnection`, `ThreadSubscriptions`, `SavedEnvironment` | a connection and its reconnects; the cache of subscriptions; saved environments | `W/environments/runtime/` |
| `ClientStore`, `ThreadSync`, `ShellSync` | the client's reducers; composed with the server, an open thread; the list of threads | `store.ts`, `ws.ts`, `service.ts` |
| `MC...` | the areas that TLC checks, each with its components as one instance | |
| `..._proofs` | theorems about the component or the area of that name | |

`Orchestration` composes `Decider`, `Projector` and `ProjectionPipeline`;
`OrchestrationEngine` composes the same with the engine; `ThreadSync` composes
`Orchestration` with `ClientStore` and a connection; `TurnFlow` extends
`ProviderSessions`; `OrchestrationEngine` refines `CommandLog`.

An MC module extends one component and has the others as instances, one per component.
It declares their constants, which get their values in the `.cfg`, and adds a variable
`scenario`, on which its next-state relation depends.  The proof modules extend the MC
modules, so that a theorem is about the very specification that TLC runs, for all values
of the constants.  An assumption that a property needs is a variable that never changes,
rather than a constant, where one specification is to show what holds with it and what
without: `patient` (`SavedEnvironment`, `FirstSend`, `Checkpointing`), `diffs`
(`Checkpointing`: the provider reports the diff of a running turn, as Codex does and
Claude does not), `primed` (`GitStatusBroadcaster`: the local status was loaded before),
`sequential` (`TerminalOutput`: operations wait until all output is drained), `overlap`,
`mayFail` and `segment` (`Attachments`: the thread's part of a file name), `overlap`
(`TurnFlow`: `"none"`, `"sweeps"`, which begin at any time, or `"all"`).  What a property
must name and no guard reads is a history variable: `short` (`ProjectionBootstrap`),
`running` (`TurnFlow`), `dropped` (`TerminalOutput`).

**Domain.**  A command or event is a record with the `type` of the code and the fields
that some property distinguishes.  A text is the number of chunks in it, so that
appending a delta, replacing by a final text and keeping on an empty one are different;
titles, branches, scripts and model selections are one `Meta` value; time stamps are the
event's sequence.  `Orchestration!Commands` is the set of commands that some caller
sends in the current state: for example a session starts a turn only when a start waits
for one, and a checkpoint is captured at the count of its placeholder or after the last
one, as the reactors compute it.  `Accept` is the whole path of an accepted command:
decision, fold, all projectors.  `Restart` replaces the read model by the snapshot of
the tables.  `TurnsInSequence` (a message is sent only when the turn before has a
captured checkpoint; `FALSE` is a user who steers) and `AtomicDispatchers` (a reactor's
look and its dispatch are one step) choose assumptions about the callers.

**Engine.**  `phase` is the position in `processEnvelope`, with one action per await at
which something else can happen: `Take`, `FindReceipt`/`Decide`/`Refuse`/ `LookupFails`,
`AppendEvent`, `Commit`/`CommitUnreported`/`RollBack`, `Adopt`,
`PublishNext`/`AllPublished`, `Reconcile`/`ReconcileFails`,
`RecordRejection`/`RecordFails`, `Reply`.  `Dispatch` and `GiveUp` belong to the
callers; two calls with one command id are a call and its retry.  `Crash` loses the
memory, `Start` loads the snapshot.

**Bootstrap and files.**  A projector's rows are the sequence of events that it applied;
a transaction of the code is an action, and a stop may come between any two.  A replay
reads `ReadLimit` events at most; a projector whose replay ended before the log did is
kept in `short`.  In `Attachments` the files of a message are written one by one before
the command is queued; a cut (revert or deletion) lists and removes what no row refers
to.  It knows the files of a thread by the segment in their names
(`attachmentStore.ts:21`), the thread's id cut and in lower case, so threads whose ids
have one segment take each other's files: `segment` is any of `Segmentations`.

**Workers and terminals.**  A value of the keyed worker is the number of the enqueue
that brought it; each transaction is an action.  In `TerminalOutput` chunks are
numbered, a fiber may wait while it publishes, an operation while it writes.  In
`TerminalSessions` a session is an object that an operation keeps when the limit takes
it from the list; the order of `updatedAt` is a sequence.

**Turns.**  `ProviderSessions` has one adapter session of a thread, its binding and a
program counter per caller, who suspends only where the code really waits. `TurnFlow`
adds the worker of the command reactor, the forked sender of each turn, the deletion
reactor, the reaper and the ingestion, which reads the thread and dispatches later.
A request to Codex waits for its answer without a limit.  When the process dies, it
fails; when the session is closed under it, by a stop or a new session, the scope's end
interrupts the fiber that would fail it (`CodexSessionRuntime.ts:1179`,
`effect-codex-app-server/src/protocol.ts:318`), and it hangs for ever (`Abandoned`).  So
a forked send hangs, or the reactor itself in an interrupt, with all that waits behind.
A session that a forked send recovers loses its event fiber when the send ends
(`CodexAdapter.ts:1405`), and what it emits later is not heard.  A live session may also
refuse a turn with an error (`TurnRefused`), after which the thread forgets a turn that
still runs.
`AssistantMessages` is functional: each handler is an operator from what ingestion keeps
to the next, with a counter of dispatches of which one may fail (`Before`); a text is the
sequence of its deltas.  The delivery mode (`buffered`) and the deltas that are white
space (`blank`) are chosen initially.

**Checkpoints.**  The workspace and the conversation are contents that turns and users
change; a git ref holds a content.  The reactor's worker takes inputs in order and each
of its effects is an action that may fail.  The two events of a turn start are one
input; `patient` is the guard of the user interface (no send or revert during a turn or
revert).  A turn that is cut (interrupted or cancelled) gets a checkpoint that names its
git ref, but with the status "missing" (`CheckpointReactor.ts:51`): it counts as a
placeholder, and is captured again.

**Client.**  In `ThreadSubscriptions` the order in which entries were last used, which
eviction follows, is a relation `older` on them.  A connection delivers in order and may
break; the server's side reads a snapshot query by query, while the log grows, and
subscribes to the stream at the points where `ws.ts` does.  `ThreadSync` uses the whole domain: rows come from the tables of
`Orchestration`, the client from `ClientStore`.  `FirstSend` follows one draft from the
composer through the engine's queue to the steps of the bootstrap and back.  Each of
the bootstrap's commands (creation of the thread, its worktree and branch, turn start,
deletion) may fail to be committed, and so may the git worktree; whatever fails, the
cleanup deletes the thread that this send created, if that command succeeds (`CleanUp`).
In `SavedEnvironment` a change of another environment comes at any time: it disconnects
one that is registered and not yet listed, and connects one that is listed and not
registered.

## 3. Runs

Each run is an area.  Where an MC module puts several components together, they have no
variable in common, and `scenario`, chosen initially, says which of them, with which
assumptions, a behaviour exercises; a property that belongs to some scenarios only says
so.

| run (`.cfg`) | scenarios | what it shows |
|---|---|---|
| Domain | lifecycle, conversation, steering, content | `StoresAgree`: the tables and the read model hold the same after a restart at any time, and the summaries are fresh; `TurnsAreDistinct`: a count for each turn and a start adopted once; `RevertCutsTheEnd`; `ApprovalStaysResolved` |
| Engine | failing, stopping | `LogAgrees` (at most once, true answers, ordered stream), `LevelWithTheLog`, `RejectedIsFinal`, `ImplementsCommandLog`, `EveryCallEnds` |
| Projections | cursors; files | `CursorsAgree`; `FilesMatchRows`, `FilesAreKept` |
| Workspace | worker; terminal; roomy, serial, tight (sessions); git | `NothingLost`, `DrainWaitsForWork`, `EveryDrainReturns`; `TerminalAgrees`; `TerminalsAreTracked`; `StatusIsShown`, `RemoteIsFollowed` |
| Checkpoints | worker, steady; checkpoints | `DrainIsSafe`, `EveryItemIsHandled`; `CheckpointsAreTrue`, `RevertRestores`, `EveryRevertIsAnswered` |
| Intake | gate; send | `GateKeepsOrder`, `EveryoneIsServed`; `FailureLeavesNothing`, `SendArrives` |
| Connections | connection; views, again; saved | `ReconnectIsSafe`, `EndsOnTheSession`; `CacheIsBounded`, `InUseKept`; `SavedAgrees` |
| Synchronisation | turn, plans; list | `ThreadAgrees`; `ListIsApplied`, `ListFollows` |
| Turns | stopping, failing, sweeping, calm; answering | `EveryTurnIsAnswered`, `SessionsAreTrue`, `StopsTheRightOnes`; `AnswerIsWhole` |
| SteeredRevert, LatePlaceholder, LostRejection | | findings (section 6) |

**Bounds.**

- Domain: 5 events in lifecycle (two projects with two threads, to a deletion), 11 in
  conversation (two messages, a complete turn with its checkpoint, the next one's start,
  a revert), 10 in steering, 7 in content (a plan, two activities, a request and its
  response around a turn).  Elsewhere one thread suffices, because no event changes
  another one.  The caps on lists (2000 messages, ...) are set to 10 and not reached:
  the read model alone applies them, so reaching one makes memory and tables differ by
  design.
- Engine: three commands, one of which decides a batch of two, a retry of one, and
  either two failures of different kinds without a stop or one with a stop (without the
  batch): enough for a failure of the retry after one of the call.
- Projections: four projectors, one of them new and one not required by the snapshot,
  five events, a read limit of two, three stops, so that a new or stopped projector is
  behind by more than one read, and by more than two; files of three messages in two
  threads, two parts each, with three cuts, with and without overlap and faults, and with
  a segment for each thread or one for both.
- Workspace: two keys, two callers, two enqueues per key (one in process, one waiting);
  three fibers, three chunks and two operations, which overlap the output or wait for it
  (three processes in all, with a fiber of each); three operations on two terminals with
  one that may stay beside those that run, or two; two streams, a refresh and a change
  of the remote.
- Checkpoints: three items and two drains; three turns, three edits and two reverts of a
  user who waits, without failures; of a user who does not, two turns, one revert and
  two edits, or with diffs one edit and a failure (`FewSteps`).
- Intake: three commands; up to three sends of one draft, by a patient user or not, with
  one kind of command that fails, at any of its calls, or one lost connection
  (`OneFault`).
- Connections: two callers, a break and a failure; two threads with two views and two
  entries, or one view (`OneView`) and three, so that entries are made again, one place
  in the cache and a timer of one tick; three ensures, two adds, two removals of a
  patient user, fewer (`FewCalls`) of another.
- Synchronisation: seven events (a turn with its answer, checkpoint and revert) with a
  break, six with plans; three changes of two threads in the list, a break and a failed
  read.
- Turns: two turns, in two modes: with a stop; one of them alone with a change of mode, a
  death and a failure; with a stop, an interrupt, a death, a failure and sweeps at any
  time, of requests that wait for one another; without overlap, with one request of each
  kind (`FewRequests`);
  five deltas, of which none or the second is white space, in two items with up to two
  waits and at most one failing dispatch, buffered and streaming, and a buffer of two
  deltas, so that it spills.

`CHECK_DEADLOCK FALSE` is set because the inputs are bounded: when they are used up and
all is handled, nothing is left to do.  That nobody waits for ever is what the liveness
properties say.

**Assumptions that scenarios make.**  Some properties hold only if callers do not
overlap, and say so; the others are checked without such assumptions.

- Terminal: whatever overlaps, the queue is drained, the transcript is in order, nothing
  is shown twice, a live process has a running session, and an exit is noticed and told
  unless it was dropped: by a clear, which empties the queue (`Manager.ts:1783`), or by a
  fiber of the process before a restart.  That nothing is dropped, and
  that the subscriber shows the transcript, needs operations that wait for the output
  (`sequential`): "cleared" is published after the transcript was emptied (1787), and
  output that is drained between is in the transcript and no longer shown.
- Terminal sessions: in `roomy` everything overlaps but the limit is not reached; in
  `serial` it is, but operations and exits wait for one another; in `tight` both, and
  only the limit itself holds.
- Turns: that stops hold (`StopHolds`), that what runs is marked in the directory
  (`RunningIsKnown`) and that every turn is answered without exception are about
  `overlap = "none"`: a request finds all at rest except a running turn, and so does a
  sweep; the first two also about no death or failure.  With sweeps at any time
  (`"sweeps"`), which nothing in the code keeps from running into a request, no process
  is lost, and as long as no turn is refused, the reaper takes none that ran when it read
  the thread; but it may take a turn that began since, whose request then may hang.  `EveryTurnIsAnswered` is checked
  with everything overlapping, and names what it leaves out: the requests that hang, and
  those that wait behind one that keeps the reactor.  With `"all"`, a stop may be
  followed by a session of a turn under way, and a session may run that is marked as
  stopped.
- Checkpoints, `patient`: the user waits, as the interface enforces
  (`ChatView.tsx:2330`), and no step has failed; that a checkpoint which names a ref
  has it needs only the second; that no placeholder stays needs both.  What a ref holds is
  compared with the end of its turn for providers without diffs: a diff of a running turn
  is captured while it runs.  At this grain two turns may get one count when nobody
  waits; the domain's `TurnsAreDistinct` has capture and dispatch in one step.
- Answers: without failing dispatches nothing is lost or repeated, except in one case:
  in buffered mode, when all that an item said before its first wait is white space,
  that segment is dropped, and at the completion after a second wait the whole text is
  taken again, because the first segment has no message
  (`ProviderRuntimeIngestion.ts:1351`); `NothingLost` therefore excludes white space
  in a buffer with two waits.  A failing
  dispatch may lose text, and with a completion that repeats it, may repeat it.  A
  session that exits drops what is buffered and leaves its messages streaming.
- Bootstrap: no assumption on the log.  A projector that is behind by more than a read
  (1000 events) misses those between the read and the next event that is committed, and
  `CursorsAgree` says just that: without such a replay (`short`) there are no gaps and
  the snapshot's sequence is exact; with one, gaps come only after a whole read.
- Saved environments: however calls and changes overlap, what is registered is open
  (`RegisteredIsOpen`), and a client once registered is open only while it is
  (`OnlyRefusedStay`).  The rest is about calls and changes of other environments that
  wait (`patient`): overlapping ensures may make two clients, of which the one whose
  registration is refused stays open, and a change during an add disconnects what the
  add has just registered.
- Git status: the local status of a stream is compared only if it was `primed`; a stream
  that loads it may overwrite a newer one (the remote's has no such condition).
- Files: whatever overlaps or fails, rows have their files but for named reasons (a cut
  that failed after its side effects, clients that did not wait, another thread with the
  same segment), and a cut takes only files with the segment of its thread
  (`FilesAreKept`).  That deletions leave nothing is about clients that wait for the cuts
  of their thread (`~overlap`), that reverts do not, also about nothing that fails
  (`~mayFail`).
- First send: `FailureLeavesNothing` (but for who creates the thread) and
  `StartsInWorktree` are about a patient user, a connection that has lasted so far and a
  cleanup that did not fail (`Orderly`).  A worktree stays if the thread could not be told
  of it, since nothing knows it then.

**Fairness** is weak except where noted, and assumed of fibers only.  The engine's
worker, the keyed and drainable workers, the reactors' workers and senders, the reaper
and ingestion loop for ever (`Effect.forever`, streams), and every effect in them (a
database access, a file, a git command, a provider call) returns or fails, but for the
requests to a session that is closed under them.  The gate: the startup ends, and what it runs ends.  The client: a stream that is open sends its
snapshot, a timer fires, a settled promise is seen, a broken transport comes back.
Strong fairness is assumed of a poll that reads the remote: it may fail, but not always.
Nothing is assumed of users, failures, stops, breaks or deaths; a turn that runs ends by
itself in `TurnFlow`.  `EveryDrainReturns` is about finitely many enqueues: a key that
is enqueued for ever keeps the loop of `processKey` and starves the others, a hazard
without a property.

Every property has a mutant in `PROJECT.json`, a plausible bug in the code under which
TLC finds it violated.  The mutated operators stand next to the definitions they
replace.

## 4. Proofs

For all values of the constants, under the hypotheses that a theorem names.  The
inductive invariants stand at the head of each part; a lemma per action says what it
does, one says that it keeps the invariant, with a step per conjunct.

**Orchestration engine** (`OrchestrationEngine_proofs`).

- `AllAgree` (`LogAgrees`), `LogGrowsByBatches`.  At-most-once needs that the
  transaction in progress belongs to a command without a receipt and has appended a
  prefix of its batch (`TransactionInv`); true answers need that the answer in the
  worker's hands agrees with the receipt (`AnswerInv`); order needs that what is still
  to be published lies after what was published and not beyond the read model, which
  needs the dispatch's start to be the read model's sequence until the worker adopts or
  reconciles (`StreamInv`).
- `EngineImplementsCommandLog`, the refinement: `Commit` and `CommitUnreported` map to
  `CommandLog!Accept`, `RecordRejection` to `Reject`, `Reply` to `Answer`, `Crash` and
  `GiveUp` to `Lose`, all others to stuttering.
- `RejectionIsFinal` (`RejectedIsFinal`), whose `"record" \notin faults` is the very
  assumption that LostRejection breaks.
- `StaysLevel` (`LevelWithTheLog`) for behaviours with `[]BatchAgrees`: when a decided
  batch is stored, the tables, read back, are what the read model folds it to, and the
  batch is no longer than one read.  Decisions, folds and tables stay opaque in these
  proofs; that they agree is the domain's property `StoresAgree`, which TLC checks.
  Given it, what the worker folds, adopts or reconciles is always the snapshot of a
  prefix of the log, whichever way a dispatch ended (`LevelInv`).

**Projections** (`ProjectionBootstrap_proofs`).

- `AppliedAtMostOnce`, `CursorsStayTrue` (`CursorsAgree`), for a log of any length and
  any limit: a cursor is the last event that the rows have, and what a bootstrap has in
  hand lies after it (`CursorInv`); a projector of which no replay was cut off is level
  with the log when the server is up (`Level`), and one that is behind has a whole read
  in a row before each gap (`MissesBeyondLimit`), since a gap comes only after a replay
  that ended at the limit.
- `AttachmentsAreKept` (`FilesAreKept`), whatever fails or overlaps and whichever threads
  share a segment: a command that waits is known as such, and what a send has written is
  there unless a cut under its segment came (`FilesInv`).
- `AttachmentsMatchRows` (`FilesMatchRows`): a row's files are there but for the cuts
  that may have taken them (`RowsInv`); when clients wait, nothing of a deleted thread is
  left (`WaitInv`), and when nothing fails either, every file has a message that is sent
  or shown (`CalmInv`).  `FileBounds`: messages and cuts differ, and belong to a thread.

**Workspace** (`Workspace_proofs`).

- `NoValueLost` (`NothingLost`), `DrainsWait` (`DrainWaitsForWork`).  A key is marked
  queued exactly when it is in the queue or in transit, active exactly when the worker
  holds its value, never both; a waiting value has a marked key; the last value of a key
  waits, is in process or has been processed.
- `GitStatusIsShown` (`StatusIsShown`): the poller is counted exactly by the streams
  that are open; the last status of a part in a stream's queue, or if none waits the one
  it shows, is the cached one (`AllAreTold`).  For the remote part this holds always,
  for the local one if it was `primed`, since then no stream loads it.  `GitCalls`:
  finitely many streams.
- `TerminalOutputAgrees` (`TerminalAgrees`), whatever overlaps: what is queued has a
  fiber of its process that will look at it, an exit waits, is about to be told, was told
  or was dropped, and transcript and queue are in order.  In the `sequential` setting
  nothing is dropped, and what subscribers show follows the transcript.

**Checkpoints** (`Checkpoints_proofs`).

- `DrainsAreSafe` (`DrainIsSafe`), for the workers of the reactors: the counter is at
  least the number of items queued or in hand, what is queued is in one of the two
  places, and what a drain has to cover was enqueued.
- `CheckpointsStayTrue` (`CheckpointsAreTrue`, placeholders and cut turns included) and `RevertsRestore` (`RevertRestores`).
  Whatever users do and whatever fails (`AnyInv`): turns end in their order, a turn has
  one checkpoint, and as long as nothing failed a captured one has its ref unless the
  revert under way has deleted it.  For a user who waits and no failure (`PatientInv`):
  events, placeholders and captures under way are all about the latest turn, the
  checkpoints are those of the turns that the provider remembers, and of the latest one
  (`TurnState`); a revert is under way alone, and says how far the conversation, the
  refs and the thread have come (`RevertState`).  Without diffs, a ref also holds what
  its turn left, and from the restore on the workspace is what the last kept turn left
  (`RefsAreEnds`).  `CheckBounds`: bounds are numbers, and `None` is none of the others.
  `CheckpointsWithoutBounds` states both without the bounds of the run (`FewSteps`).

**Turns** (`Turns_proofs`), for any turns, modes and bounds.

- `SessionsStayTrue` (`SessionsAreTrue`).  Whatever overlaps and fails, what is kept has
  its type and a caller in the provider service is where it can be (`AnyInv`).  Where
  requests do not overlap one another, whenever sweeps come and whatever fails
  (`SoloInv`): but for requests that hang, one reactor or sender apart from the reaper
  has something to do, so sessions are started one at a time and none is lost from the
  list.  Where sweeps wait as well and nothing fails (`CalmInv`): one reactor or sender at
  a time has something to do (`OneAtATime`), and what it does in the service is what it
  waits for (`CallsAreKnown`); the session that runs is the bound one, and the one that
  is being started is the only one (`LiveFits`); the events on their way from the
  provider lead from the turn that the thread shows to the one that runs
  (`TurnsFollow`), and its status to that of the session (`StatusFollows`).  A stop then
  holds because whoever waits to be sent was asked for later (`StopKept`).
- `ReaperTakesIdle`, the action property of `StopsTheRightOnes` (`ReapsIdle`), with sweeps
  at any time and whatever dies, as long as requests do not overlap one another and none
  is refused.  A turn that runs in a session of which the thread hears is shown by the
  thread, or the event that says so is on its way (`TurnIsTold`), and a session that is
  idle long enough has no event on its way (`IdleIsShown`); so no such turn ran when a
  sweep found the thread without one (`QuietInv`).  One that began since may be taken: the
  property does not exclude it, as the code does not (`ProviderSessionReaper.ts`).
- `AnswersAreWhole` (`AnswerIsWhole`), for any delivery mode, white space and bounds.
  Whatever dispatch fails, what is buffered and what streams is remembered, so that the
  end of the turn finds it (`AnyAnswer`).  As long as none failed (`Calm`), at most the
  message of the open segment is remembered, has a rest in the buffer and streams, and it
  is the last one (`CalmRows`); a segment gets a name that no message has (`CalmNames`);
  the texts of the messages and the rest rise and have each visible delta (`Told`).  A
  completion repeats the text of its item, so it must be known that the item has its
  first message, or all of its text still in the buffer, or only white space so far
  (`FirstTold`): this is what fails after a second wait in the case of section 3.

**Intake** (`CommandGate_proofs`).

- `KeepsOrder` (`GateKeepsOrder`): the queue is the rest of the order in which commands
  were offered, of which all before it have ended or are in hand.
- `FailedSendLeavesNothing` (`FailureLeavesNothing`) and `TurnsStartInWorktree`.  That
  one send creates the thread holds whatever happens (`AnyInv`).  For a patient user, a
  connection that has lasted and a cleanup that did not fail (`Orderly`), whichever other
  command fails: one send is under way, the thread is just as far as its saga, and the
  last view on the stream is the thread's (`CalmInv`).

**Connections** (`Connections_proofs`).

- `ReconnectsAreSafe` (`ReconnectIsSafe`): whoever holds the chain or waits has a
  promise that resolves only by a snapshot that came after the call (`Fresh`), and the
  chain has each caller once (`Distinct`).
- `CacheStaysBounded` (`CacheIsBounded`) and `UsedSubscriptionsStay` (`InUseKept`): the
  count of references of an entry is the number of views that hold it, a timer runs for
  every entry that may go (`Ticking`), and more entries than the capacity stay only if
  they may not go (`Small`).  The loop of the eviction is a choice of the oldest ones,
  whose existence is a lemma.  `CacheBounds`: finitely many views.
- `SavedEnvironmentAgrees` (`SavedAgrees`): what is registered is open, and what was
  registered is disposed, however calls and changes overlap (`Safe`); when they wait, what is registered, stored or on disk without being
  listed belongs to the call that is under way.

**Client** (`Synchronisation_proofs`).  `ListIsThatOfItsSequence` (`ListIsApplied`) and
`ListNeverGoesBack`, the safety part of `ListFollows`.  The sequence of the last applied
event means something only because nothing is skipped: whatever was published since is
on its way in the order of the log, is known to be missed, or waits for the deletion of
its thread (`NothingSkipped`).  That a row which is read late never brings a thread back
needs that it was read before any deletion that comes after it (`ItemsAreRows`), and the
snapshot's rows must be those of its sequence (`SnapshotIsRows`).

Assumptions: the named `ASSUME`s of the modules (`EngineAssumption`, `CapsAssumption`,
the two `WorkerAssumption`s, `BootstrapAssumption`, `ConnectionAssumption`,
`GateAssumption`, `TurnFlowAssumption`, `AnswerAssumption`), which TLC evaluates in the runs, and the hypotheses `...Bounds` or
`...Calls` of the theorems about instances: they say that bounds are natural numbers,
that kinds of calls are disjoint, that `None` is none of the others and that views or
streams are finite, all of which the `.cfg` files satisfy.

**Only model-checked.**

- Liveness: fairness and `ENABLED` are beyond the installed provers.
- `StoresAgree`, `TurnsAreDistinct`, `RevertCutsTheEnd`, `ApprovalStaysResolved` and
  `ThreadAgrees`: what the domain's folds compute over a batch is an induction over
  data that cannot be carried out with the installed provers (a least counterexample in
  a set of numbers can, and is where it suffices).
- `TerminalsAreTracked`, which is about lists that the folds of the community modules
  compute.

## 5. Plan

1. A proof of `TerminalSessions` (`LiveIsListed`); in the domain,
   that a resolved approval stays so and that a revert cuts the end.
2. A stop and a start of the server in `TurnFlow` and `Checkpointing`.
3. Proposed plans in `AssistantMessages`; approvals, user input and restarts for another
   model in `TurnFlow`.
4. An abstract specification of the client's synchronisation: a reader of the log.

## 6. Findings

- **LatePlaceholder.**  The projector refuses a placeholder over a captured checkpoint
  and says why; the turns projector of the tables does not.  As ingestion looks first
  and dispatches later, the placeholder can come after the capture: memory keeps the
  capture, the tables lose it, and a restart shows it.
- **SteeredRevert.**  After a revert of a thread in which the user sent a second message
  before the first one's turn began, the read model and the tables keep different user
  messages.
- **LostRejection.**  A rejection whose receipt cannot be written is answered but not
  remembered; a retry with the same id may be accepted.

Behaviour that the models show and no document contradicts is noted with its hazard in
`PROJECT.json` and under the assumptions above.

## 7. Not modelled

Wholly: the generated protocol packages and schemas, authentication, settings and
keybindings (input/output and conversion), the rendering of the user interface, the
Electron shell, marketing pages and scripts; metrics, tracing and logging.

Of the modelled parts:

- Domain: the encoding of rows; `latestTurn` after a restart (the tables choose by
  request time, the read model the one last touched; compared nowhere); deleted projects
  as parents.  Time stamps increase.
- Attachments: commands of deleted threads are accepted by the decider and their files
  stay, as do those of refused commands; a bootstrap's replay does not remove files
  here.
- Turns: one thread; restarts for another directory or model, approvals, user input,
  titles and branch names, the cache of duplicate starts, adoption of an existing
  session, the status "error", and a stop of the server (a start that was committed and
  not handled is then lost, which is listed as a hazard).  The resume cursor is always
  there.  The mode that ingestion writes back may be older than the bound one.
- Answers: one turn whose items follow each other; proposed plans; a change of the
  delivery mode within a turn.
- Checkpoints: one thread and workspace; Codex refuses a rollback while a turn runs
  (external); the activity that reports a failed revert is assumed to be appended; the
  diff queries.
- Terminals: write, resize, the poll for subprocesses, sanitising and capping, the two
  signals of a kill, an open that is interrupted, the end of the server.
- Git status: GitCore, GitManager and its cache of a second; cache update and
  publication (to an unbounded PubSub) are one step.  `getStatus`, which stores a remote status without publishing it, has no caller
  in the server (`streamStatus` and `refreshStatus` in `ws.ts`, `refreshStatus` in
  `ProviderCommandReactor.ts`, `refreshLocalStatus` in `CheckpointReactor.ts` are all).
- Client: one thread or list at a time; a snapshot of the same sequence whose time is
  not newer is ignored, so a gap may last over a reconnect in the list; in an open
  thread, events under way while the snapshot is read may be missed (`ws.ts:686`), which
  `ThreadAgrees` leaves out; a reconnect while the subscription sleeps may wait for ever
  (`connection.ts:64`); entries of late connections stay unsubscribed, and the timer of
  a dropped entry may evict its successor (`service.ts:304`, `348`); the runtime store,
  and the batching of events.
- Saved environments: one environment; a failed add leaves its record on disk.
- `ThreadSync` reads the row of a list item when it is delivered and takes a broken
  connection up again without a snapshot of the list; `ShellSync` has both in full.
- First send: one draft and window; nothing is claimed of a cleanup that fails; after a lost connection a retry may send twice, and
  the cleanup of a running bootstrap may delete a thread in which a retry started a
  turn.
