-------------------------- MODULE OrchestrationEngine --------------------------
(***************************************************************************)
(* The orchestration engine                                                *)
(* (apps/server/src/orchestration/Layers/OrchestrationEngine.ts): calls of *)
(* dispatch queue commands, one worker takes them one by one, looks for a  *)
(* receipt, decides, writes events, projections and the receipt in one     *)
(* SQLite transaction, adopts the new read model, publishes the events and *)
(* answers the call.  Any database access may fail, a commit may fail      *)
(* although it took place, a caller may go away, and the server may stop   *)
(* at any point.                                                           *)
(*                                                                         *)
(* The sequence of an event is its index in the log: sequence is           *)
(* AUTOINCREMENT and an insert that is rolled back gives its number back.  *)
(***************************************************************************)
EXTENDS Decider, ProjectionPipeline

CONSTANTS
  CommandId,
  Call,         \* calls of dispatch: two calls with one id are a call and its retry
  CommandIdOf,  \* Call -> CommandId
  CommandOf,    \* CommandId -> command
  Faults,       \* the database accesses that may fail, of FaultKinds
  ReadLimit,    \* DEFAULT_READ_FROM_SEQUENCE_LIMIT = 1000
  MaxFaults,    \* bound: the kinds of failure in a behaviour
  MaxCrashes    \* bound: stops of the server

FaultKinds == {"lookup", "transaction", "commit", "reconcile", "record"}

ASSUME EngineAssumption ==
  /\ CommandIdOf \in [Call -> CommandId]
  /\ Faults \subseteq FaultKinds
  /\ ReadLimit \in Nat \ {0}
  /\ MaxFaults \in Nat
  /\ MaxCrashes \in Nat

VARIABLES
  \* In the database.
  log,               \* orchestration_events: [commandId, event]
  receipts,          \* orchestration_command_receipts: id -> [status, resultSequence]
  tables,            \* the projection tables
  \* In memory.
  readModel,
  snapshotSequence,  \* readModel.snapshotSequence
  queue,             \* commandQueue: calls, whose envelopes hold command and deferred
  published,         \* the sequences that eventPubSub delivered since the server started
  firstSequence,     \* the length of the log when the server started
  \* The worker.
  phase,             \* where it is in processEnvelope
  current,           \* the call whose envelope it processes
  dispatchStart,     \* dispatchStartSequence
  batch,             \* eventBases: the events that were decided
  saved,             \* the events that the open transaction appended
  outbox,            \* the sequences that are still to be published
  outcome,           \* the answer: [status, sequence]
  \* The callers and the bounds.
  calls,             \* Call -> [status, sequence]
  faults,            \* the kinds of failure that there were
  crashes

durable == << log, receipts, tables >>
model == << readModel, snapshotSequence >>
stream == << published, firstSequence >>
work == << current, dispatchStart, batch, saved >>
vars == << log, receipts, tables, readModel, snapshotSequence, queue, published,
           firstSequence, phase, current, dispatchStart, batch, saved, outbox, outcome,
           calls, faults, crashes >>

NoOutcome == [status |-> "none", sequence |-> 0]
IdleCall == [status |-> "idle", sequence |-> 0]

Id == CommandIdOf[current]

Stamp(id, events) == [i \in 1..Len(events) |-> [commandId |-> id, event |-> events[i]]]

\* commandReceiptRepository.upsert
WithReceipt(id, receipt) ==
  [x \in DOMAIN receipts \cup {id} |-> IF x = id THEN receipt ELSE receipts[x]]

\* The numbers from + 1 to to, in order.
SequencesAfter(from, to) == [i \in 1..(to - from) |-> from + i]

(***************************************************************************)
(* Callers.                                                                *)
(***************************************************************************)
Dispatch(k) ==
  /\ phase # "down"
  /\ calls[k].status = "idle"
  /\ calls' = [calls EXCEPT ![k].status = "waiting"]
  /\ queue' = Append(queue, k)
  /\ UNCHANGED << durable, model, stream, phase, work, outbox, outcome, faults, crashes >>

\* The fiber that awaits the deferred is interrupted (its connection closed);
\* the envelope stays where it is.
GiveUp(k) ==
  /\ calls[k].status = "waiting"
  /\ calls' = [calls EXCEPT ![k].status = "gone"]
  /\ UNCHANGED << durable, model, stream, queue, phase, work, outbox, outcome, faults, crashes >>

(***************************************************************************)
(* The worker: from the queue to the decision.                             *)
(***************************************************************************)
Take ==
  /\ phase = "idle"
  /\ queue # << >>
  /\ phase' = "received"
  /\ current' = Head(queue)
  /\ queue' = Tail(queue)
  /\ dispatchStart' = snapshotSequence
  /\ UNCHANGED << durable, model, stream, batch, saved, outbox, outcome, calls, faults, crashes >>

NeverHasReceipt == FALSE
HasReceipt == Id \in DOMAIN receipts

\* An accepted command is answered as the first time, a rejected one with
\* OrchestrationCommandPreviouslyRejectedError.
OutcomeAccepted(receipt) == [status |-> "accepted", sequence |-> receipt.resultSequence]
OutcomeOf(receipt) ==
  IF receipt.status = "accepted"
  THEN [status |-> "accepted", sequence |-> receipt.resultSequence]
  ELSE [status |-> "rejected", sequence |-> 0]

FindReceipt ==
  /\ phase = "received"
  /\ HasReceipt
  /\ phase' = "replying"
  /\ outcome' = OutcomeOf(receipts[Id])
  /\ UNCHANGED << durable, model, stream, queue, work, outbox, calls, faults, crashes >>

Decide ==
  /\ phase = "received"
  /\ ~HasReceipt
  /\ Allowed(readModel, CommandOf[Id])
  /\ phase' = "transaction"
  /\ batch' = DecidedEvents(readModel, CommandOf[Id])
  /\ saved' = << >>
  /\ UNCHANGED << durable, model, stream, queue, current, dispatchStart, outbox, outcome,
                  calls, faults, crashes >>

\* decideOrchestrationCommand fails with an invariant error.
Refuse ==
  /\ phase = "received"
  /\ ~HasReceipt
  /\ ~Allowed(readModel, CommandOf[Id])
  /\ phase' = "failed"
  /\ outcome' = [status |-> "rejected", sequence |-> 0]
  /\ UNCHANGED << durable, model, stream, queue, work, outbox, calls, faults, crashes >>

\* A database access of kind fails.
Fault(kind) ==
  /\ kind \in Faults
  /\ faults' = faults \cup {kind}
  /\ Cardinality(faults') <= MaxFaults

Fails ==
  /\ phase' = "failed"
  /\ outcome' = [status |-> "failed", sequence |-> 0]

LookupFails ==
  /\ phase = "received"
  /\ Fault("lookup")
  /\ Fails
  /\ UNCHANGED << durable, model, stream, queue, work, outbox, calls, crashes >>

(***************************************************************************)
(* The worker: the transaction.  Its appends and projections are seen by   *)
(* nobody before the commit.                                               *)
(***************************************************************************)
AppendEvent ==
  /\ phase = "transaction"
  /\ Len(saved) < Len(batch)
  /\ saved' = Append(saved, [commandId |-> Id, event |-> batch[Len(saved) + 1]])
  /\ UNCHANGED << durable, model, stream, queue, phase, current, dispatchStart, batch, outbox,
                  outcome, calls, faults, crashes >>

AllSaved == Len(saved) = Len(batch)

\* The events, their projections and the receipt become durable together.  (A
\* transaction without events would fail; the decider decides no such batch.)
Committed ==
  /\ phase = "transaction"
  /\ AllSaved
  /\ saved # << >>
  /\ log' = log \o saved
  /\ tables' = ProjectAllToTables(tables, batch, Len(log))
  /\ receipts' = WithReceipt(Id, [status |-> "accepted",
                                  resultSequence |-> Len(log) + Len(saved)])

Commit ==
  /\ Committed
  /\ phase' = "committed"
  /\ outcome' = [status |-> "accepted", sequence |-> Len(log) + Len(saved)]
  /\ UNCHANGED << model, stream, queue, work, outbox, calls, faults, crashes >>

\* COMMIT reports an error although it took effect.
CommitUnreported ==
  /\ Committed
  /\ Fault("commit")
  /\ Fails
  /\ UNCHANGED << model, stream, queue, work, outbox, calls, crashes >>

\* An append, a projection, the receipt or the commit fails: nothing is kept.
RollBack ==
  /\ phase = "transaction"
  /\ Fault("transaction")
  /\ Fails
  /\ UNCHANGED << durable, model, stream, queue, work, outbox, calls, crashes >>

(***************************************************************************)
(* The worker: after the transaction.                                      *)
(***************************************************************************)
Adopt ==
  /\ phase = "committed"
  /\ readModel' = ProjectEvents(readModel, batch)
  /\ snapshotSequence' = outcome.sequence
  /\ outbox' = SequencesAfter(Len(log) - Len(batch), Len(log))
  /\ phase' = "publishing"
  /\ UNCHANGED << durable, stream, queue, work, outcome, calls, faults, crashes >>

\* eventStore.readFromSequence(dispatchStartSequence), with its default limit
NothingPersisted == << >>
PersistedFrom ==
  SubSeq(log, Max({1, dispatchStart}), Min({dispatchStart + ReadLimit, Len(log)}))
PersistedSince == SubSeq(log, dispatchStart + 1, Min({dispatchStart + ReadLimit, Len(log)}))

\* reconcileReadModelAfterDispatchFailure
Reconcile ==
  /\ phase = "failed"
  /\ LET events == PersistedSince
         last == dispatchStart + Len(events)
     IN  /\ readModel' = ProjectEvents(readModel, [i \in 1..Len(events) |-> events[i].event])
         /\ snapshotSequence' = IF events = << >> THEN snapshotSequence ELSE last
         /\ outbox' = SequencesAfter(dispatchStart, last)
  /\ phase' = "reconciled"
  /\ UNCHANGED << durable, stream, queue, work, outcome, calls, faults, crashes >>

\* The failure is logged and nothing else.
ReconcileFails ==
  /\ phase = "failed"
  /\ Fault("reconcile")
  /\ phase' = "reconciled"
  /\ UNCHANGED << durable, model, stream, queue, work, outbox, outcome, calls, crashes >>

PublishNext ==
  /\ phase \in {"publishing", "reconciled"}
  /\ outbox # << >>
  /\ published' = Append(published, Head(outbox))
  /\ outbox' = Tail(outbox)
  /\ UNCHANGED << durable, model, firstSequence, queue, phase, work, outcome, calls, faults,
                  crashes >>

AllPublished ==
  /\ phase = "publishing"
  /\ outbox = << >>
  /\ phase' = "replying"
  /\ UNCHANGED << durable, model, stream, queue, work, outbox, outcome, calls, faults, crashes >>

\* Only an invariant error leaves a rejected receipt.
RecordRejection ==
  /\ phase = "reconciled"
  /\ outbox = << >>
  /\ phase' = "replying"
  /\ receipts' = IF outcome.status # "rejected" THEN receipts
                 ELSE WithReceipt(Id, [status |-> "rejected",
                                       resultSequence |-> snapshotSequence])
  /\ UNCHANGED << log, tables, model, stream, queue, work, outbox, outcome, calls, faults,
                  crashes >>

\* The failure to store the receipt is ignored.
RecordFails ==
  /\ phase = "reconciled"
  /\ outbox = << >>
  /\ outcome.status = "rejected"
  /\ Fault("record")
  /\ phase' = "replying"
  /\ UNCHANGED << durable, model, stream, queue, work, outbox, outcome, calls, crashes >>

AnsweredOnSuccess ==
  IF calls[current].status = "waiting" /\ outcome.status = "accepted"
  THEN [calls EXCEPT ![current] = outcome] ELSE calls
Answered ==
  IF calls[current].status = "waiting" THEN [calls EXCEPT ![current] = outcome] ELSE calls

\* The deferred is completed, whether or not somebody still waits for it.
Reply ==
  /\ phase = "replying"
  /\ phase' = "idle"
  /\ calls' = Answered
  /\ outcome' = NoOutcome
  /\ batch' = << >>
  /\ saved' = << >>
  /\ UNCHANGED << durable, model, stream, queue, current, dispatchStart, outbox, faults,
                  crashes >>

(***************************************************************************)
(* The server stops and starts.                                            *)
(***************************************************************************)
Crash ==
  /\ phase # "down"
  /\ crashes < MaxCrashes
  /\ crashes' = crashes + 1
  /\ phase' = "down"
  /\ queue' = << >>
  /\ outbox' = << >>
  /\ outcome' = NoOutcome
  /\ calls' = [k \in Call |-> IF calls[k].status # "waiting" THEN calls[k]
                              ELSE [status |-> "lost", sequence |-> 0]]
  /\ batch' = << >>
  /\ saved' = << >>
  /\ UNCHANGED << durable, model, stream, current, dispatchStart, faults >>

\* bootstrap has nothing to do, because every transaction moved every projector.
Start ==
  /\ phase = "down"
  /\ phase' = "idle"
  /\ readModel' = Snapshot(tables)
  /\ snapshotSequence' = Len(log)
  /\ published' = << >>
  /\ firstSequence' = Len(log)
  /\ UNCHANGED << durable, queue, work, outbox, outcome, calls, faults, crashes >>

Init ==
  /\ log = << >>
  /\ receipts = << >>
  /\ tables = EmptyTables
  /\ readModel = EmptyReadModel
  /\ snapshotSequence = 0
  /\ queue = << >>
  /\ published = << >>
  /\ firstSequence = 0
  /\ phase = "down"
  /\ current \in Call
  /\ dispatchStart = 0
  /\ batch = << >>
  /\ saved = << >>
  /\ outbox = << >>
  /\ outcome = NoOutcome
  /\ calls = [k \in Call |-> IdleCall]
  /\ faults = {}
  /\ crashes = 0

Worker ==
  \/ Take \/ FindReceipt \/ Decide \/ Refuse \/ LookupFails
  \/ AppendEvent \/ Commit \/ CommitUnreported \/ RollBack
  \/ Adopt \/ Reconcile \/ ReconcileFails \/ PublishNext \/ AllPublished
  \/ RecordRejection \/ RecordFails \/ Reply

Next ==
  \/ \E k \in Call : Dispatch(k) \/ GiveUp(k)
  \/ Worker
  \/ Crash
  \/ Start

\* The worker fiber loops for ever (Effect.forever) and every effect it runs ends.
Spec == Init /\ [][Next]_vars /\ WF_vars(Worker)

(***************************************************************************)
(* Properties.                                                             *)
(***************************************************************************)
Phases == {"down", "idle", "received", "transaction", "committed", "publishing", "failed",
           "reconciled", "replying"}

\* Types of what the worker, the callers and the receipts table hold.
TypeOK ==
  /\ phase \in Phases
  /\ current \in Call
  /\ queue \in Seq(Call)
  /\ calls \in [Call -> [status : {"idle", "waiting", "gone", "accepted", "rejected", "failed",
                                  "lost"},
                        sequence : Nat]]
  /\ outcome \in [status : {"none", "accepted", "rejected", "failed"}, sequence : Nat]
  /\ DOMAIN receipts \subseteq CommandId
  /\ \A id \in DOMAIN receipts :
       receipts[id] \in [status : {"accepted", "rejected"}, resultSequence : Nat]
  /\ snapshotSequence \in Nat /\ dispatchStart \in Nat /\ firstSequence \in Nat
  /\ faults \subseteq Faults /\ crashes \in 0..MaxCrashes

\* The positions of a command's events in the log.
EventsOf(id) == {i \in DOMAIN log : log[i].commandId = id}

\* A command has events exactly when its receipt says accepted, and they are
\* one run of the log that ends at the receipt's resultSequence: no retry, crash
\* or failed commit makes it happen twice or by halves.
AtMostOnce ==
  \A id \in CommandId :
    IF id \in DOMAIN receipts /\ receipts[id].status = "accepted"
    THEN \E first \in 1..receipts[id].resultSequence :
           EventsOf(id) = first..receipts[id].resultSequence
    ELSE EventsOf(id) = {}

\* The log grows only by the whole batch that the decider made of the current
\* read model for a command without a receipt, which then has one.
WholeBatches ==
  [][log' # log =>
       \E id \in CommandId \ DOMAIN receipts :
         /\ Allowed(readModel, CommandOf[id])
         /\ log' = log \o Stamp(id, DecidedEvents(readModel, CommandOf[id]))
         /\ receipts' = WithReceipt(id, [status |-> "accepted", resultSequence |-> Len(log')])]_vars

\* A caller that was told "accepted" finds that receipt and that event.
AcceptedIsTrue ==
  \A k \in Call : calls[k].status = "accepted" =>
    /\ CommandIdOf[k] \in DOMAIN receipts
    /\ receipts[CommandIdOf[k]] = [status |-> "accepted", resultSequence |-> calls[k].sequence]

\* A command that was reported rejected is never accepted, by no call with its
\* id, unless the receipt of a rejection could not be stored (RecordRejection).
RejectedIsFinal ==
  "record" \notin faults =>
    \A k \in Call : calls[k].status = "rejected" => EventsOf(CommandIdOf[k]) = {}

\* The same whatever fails ("deduplicated via command receipts",
\* Services/OrchestrationEngine.ts).
RejectedForGood ==
  \A k \in Call : calls[k].status = "rejected" => EventsOf(CommandIdOf[k]) = {}

\* Subscribers see persisted events in dispatch order, each at most once, and
\* never before the read model holds them.
StreamInOrder ==
  /\ \A i, j \in DOMAIN published : i < j => published[i] < published[j]
  /\ \A i \in DOMAIN published : firstSequence < published[i] /\ published[i] <= snapshotSequence

\* Between two commands the stream has every event persisted since the server
\* started, and the read model is the one that a restart would load: also after a
\* transaction whose commit failed although it took effect, unless the log could
\* not be read either (reconcileReadModelAfterDispatchFailure).
Reconciled == ~({"commit", "reconcile"} \subseteq faults)

CaughtUp ==
  phase = "idle" /\ Reconciled =>
    /\ published = SequencesAfter(firstSequence, Len(log))
    /\ snapshotSequence = Len(log)
    /\ readModel = Snapshot(tables)

\* The events that a stop of the server would keep from its subscribers belong
\* to one command.
UnpublishedIsOneCommand ==
  phase # "down" /\ Reconciled =>
    \A i, j \in (firstSequence + Len(published) + 1)..Len(log) :
      log[i].commandId = log[j].commandId

\* What the log, the receipts, the answers and the stream say of a command is
\* the same, whatever fails, is retried or stops (dispatch, processEnvelope).
LogAgrees == TypeOK /\ AtMostOnce /\ AcceptedIsTrue /\ StreamInOrder

\* At rest the stream and the read model are level with the log, and at most the
\* events of one command wait for their subscribers.
LevelWithTheLog == CaughtUp /\ UnpublishedIsOneCommand

\* Every call of dispatch, which waits once, is answered, given up or lost with
\* the server (Effect.forever, and the deferred of every envelope).
EveryCallEnds == <>[](\A k \in Call : calls[k].status # "waiting")

\* The engine implements the command log.
Promise == INSTANCE CommandLog WITH
  log <- [i \in 1..Len(log) |-> log[i].commandId],
  decided <- [id \in CommandId |-> IF id \in DOMAIN receipts THEN receipts[id].status ELSE "open"],
  status <- [k \in Call |-> calls[k].status]

ImplementsCommandLog == Promise!Spec
=============================================================================
