---------------------------- MODULE Orchestration ----------------------------
(***************************************************************************)
(* The domain of the orchestration server: the in-memory read model, the   *)
(* projection tables, and the commands that change both.  Every accepted   *)
(* command is one atomic step here; OrchestrationEngine takes that step    *)
(* apart (queue, transaction, receipts, failures).                         *)
(*                                                                         *)
(* The commands offered in a state are those that some caller of the       *)
(* engine sends in it: the web client, ProviderRuntimeIngestion and        *)
(* CheckpointReactor.                                                      *)
(***************************************************************************)
EXTENDS Decider, ProjectionPipeline

CONSTANTS
  ProjectId, ThreadId, TurnId, UserMessageId, PlanId, ActivityId, RequestId, Meta, Mode,
  AssistantMessage,     \* TurnId -> the id of the turn's assistant message
  CommandTypes,         \* the kinds of command that this instance sends
  AtomicDispatchers,    \* FALSE: a reactor may act on a read model it read earlier
  TurnsInSequence,      \* TRUE: a turn starts only when the one before it has a checkpoint
  MaxSequence           \* bound: the number of events

VARIABLES
  readModel,  \* the engine's in-memory model
  tables,     \* the projection tables
  sequence,   \* the sequence of the last event
  started     \* environment: the turns that the provider has started

vars == << readModel, tables, sequence, started >>

(***************************************************************************)
(* The commands the callers of the engine send.                            *)
(***************************************************************************)
Checkpoints(t) == ToSet(readModel.threads[t].checkpoints)

\* The next free turn count, for a caller that saw no checkpoint of the turn.
NextTurnCount(t, turn) ==
  1 + Max({0} \cup {c.checkpointTurnCount : c \in {d \in Checkpoints(t) : d.turnId # turn}})

CapturedTurns(t) == {c.turnId : c \in {d \in Checkpoints(t) : d.status # "missing"}}

MessageIds(m) == UNION {{x.id : x \in ToSet(m.threads[t].messages)} : t \in DOMAIN m.threads}

FreshUserMessages ==
  UserMessageId \ (MessageIds(readModel) \cup {r.id : r \in ToSet(tables.messages)})

ProjectCommands ==
  [type : {"project.create", "project.meta.update"}, projectId : ProjectId, meta : Meta]
    \cup [type : {"project.delete"}, projectId : ProjectId, force : BOOLEAN]

ThreadCommands ==
  [type : {"thread.create"}, threadId : ThreadId, projectId : ProjectId, meta : Meta,
   runtimeMode : Mode, interactionMode : Mode]
    \cup [type : {"thread.delete", "thread.archive", "thread.unarchive",
                  "thread.session.stop"}, threadId : ThreadId]
    \cup [type : {"thread.meta.update"}, threadId : ThreadId, meta : Meta]
    \cup [type : {"thread.runtime-mode.set"}, threadId : ThreadId, runtimeMode : Mode]
    \cup [type : {"thread.interaction-mode.set"}, threadId : ThreadId, interactionMode : Mode]

\* The user may steer: send the next message while a turn runs, or after a turn
\* that was never captured.
StartableThreads ==
  {t \in DOMAIN readModel.threads :
     TurnsInSequence => t \notin DOMAIN tables.pending /\ started \subseteq CapturedTurns(t)}

\* The provider starts a new turn only for a message that waits for one.
RunnableTurns(t) == IF t \in DOMAIN tables.pending THEN TurnId ELSE started

SessionCommands ==
  UNION {{[type |-> "thread.session.set", threadId |-> t,
           session |-> [status |-> "running", activeTurnId |-> turn]] :
            turn \in RunnableTurns(t)} : t \in DOMAIN readModel.threads}
    \cup {[type |-> "thread.session.set", threadId |-> t,
           session |-> [status |-> "ready", activeTurnId |-> None]] : t \in ThreadId}

\* Plans that a turn may be asked to implement.
SourcePlans == {None} \cup [threadId : ThreadId, planId : PlanId]

TurnCommands ==
  [type : {"thread.turn.start"}, threadId : StartableThreads, messageId : FreshUserMessages,
   sourceProposedPlan : SourcePlans]
    \cup [type : {"thread.turn.interrupt"}, threadId : ThreadId, turnId : started \cup {None}]
    \cup {[type |-> type, threadId |-> t, turnId |-> turn,
           messageId |-> AssistantMessage[turn]] :
            type \in {"thread.message.assistant.delta", "thread.message.assistant.complete"},
            t \in ThreadId, turn \in started}

\* Activity kinds that the projections tell apart.
Activity ==
  [id : ActivityId, turnId : TurnId \cup {None}, requestId : {None}, stale : {FALSE},
   kind : {"tool"}]
    \cup [id : ActivityId, turnId : TurnId, requestId : RequestId, stale : {FALSE},
          kind : {"approval.requested", "approval.resolved",
                  "user-input.requested", "user-input.resolved"}]
    \cup [id : ActivityId, turnId : {None}, requestId : RequestId, stale : BOOLEAN,
          kind : {"provider.approval.respond.failed",
                  "provider.user-input.respond.failed"}]

ContentCommands ==
  [type : {"thread.proposed-plan.upsert"}, threadId : ThreadId,
   proposedPlan : [id : PlanId, turnId : TurnId, implemented : BOOLEAN]]
    \cup [type : {"thread.activity.append"}, threadId : ThreadId, activity : Activity]
    \cup [type : {"thread.approval.respond", "thread.user-input.respond"},
          threadId : ThreadId, requestId : RequestId]

DiffComplete(t, turn, status, count) ==
  [type |-> "thread.turn.diff.complete", threadId |-> t, turnId |-> turn, status |-> status,
   checkpointTurnCount |-> count, assistantMessageId |-> AssistantMessage[turn]]

\* ProviderRuntimeIngestion on turn.diff.updated: a placeholder, unless the turn
\* has a checkpoint.  The check and the dispatch are not one step in the code.
PlaceholderCommands ==
  UNION {{DiffComplete(t, turn, "missing", NextTurnCount(t, turn)) :
            turn \in {u \in started :
              AtomicDispatchers => u \notin {c.turnId : c \in Checkpoints(t)}}} :
         t \in DOMAIN readModel.threads}

\* While another turn is active, a turn is captured only to replace its placeholder.
MayCapture(t, turn) ==
  LET session == readModel.threads[t].session
  IN  /\ turn \notin CapturedTurns(t)
      /\ \/ session = None
         \/ session.activeTurnId \in {None, turn}
         \/ \E c \in Checkpoints(t) : c.turnId = turn

\* CheckpointReactor: the capture of a turn that has none, at the count of its
\* placeholder or after the last one.
CaptureCommands ==
  LET Count(t, turn) ==
        LET placeholder == {c \in Checkpoints(t) : c.turnId = turn}
        IN  IF placeholder = {} THEN NextTurnCount(t, turn)
            ELSE (CHOOSE c \in placeholder : TRUE).checkpointTurnCount
  IN  UNION {{DiffComplete(t, turn, status, Count(t, turn)) :
                turn \in {u \in started : MayCapture(t, u)}, status \in {"ready", "error"}} :
             t \in DOMAIN readModel.threads}

\* The client asks for a revert; CheckpointReactor completes it when the count
\* is 0 or that of a checkpoint.
RevertCommands ==
  [type : {"thread.checkpoint.revert"}, threadId : ThreadId, turnCount : 0..Cardinality(TurnId)]
    \cup UNION {{[type |-> "thread.revert.complete", threadId |-> t, turnCount |-> n] :
                   n \in (0..MaxSequence) \cap
                           ({0} \cup {c.checkpointTurnCount : c \in Checkpoints(t)})} :
                t \in DOMAIN readModel.threads}

Commands ==
  {cmd \in ProjectCommands \cup ThreadCommands \cup SessionCommands \cup TurnCommands
             \cup ContentCommands \cup PlaceholderCommands \cup CaptureCommands \cup RevertCommands :
     cmd.type \in CommandTypes}

(***************************************************************************)
(* Steps.                                                                  *)
(***************************************************************************)
StartedBy(cmd) ==
  IF cmd.type = "thread.session.set" THEN {cmd.session.activeTurnId} \ {None} ELSE {}

\* An accepted command: its events reach the read model and the tables.
Accept(cmd) ==
  LET events == DecidedEvents(readModel, cmd)
  IN  /\ Allowed(readModel, cmd)
      /\ sequence + Len(events) <= MaxSequence
      /\ readModel' = ProjectEvents(readModel, events)
      /\ tables' = ProjectAllToTables(tables, events, sequence)
      /\ sequence' = sequence + Len(events)
      /\ started' = started \cup StartedBy(cmd)

\* The server restarts with the tables up to date: the read model is what the
\* snapshot query finds.
Restart ==
  /\ readModel' = Snapshot(tables)
  /\ UNCHANGED << tables, sequence, started >>

Init ==
  /\ readModel = EmptyReadModel
  /\ tables = EmptyTables
  /\ sequence = 0
  /\ started = {}

Next == Restart \/ \E cmd \in Commands : Accept(cmd)

Spec == Init /\ [][Next]_vars

(***************************************************************************)
(* Properties.                                                             *)
(***************************************************************************)

\* Types: both stores name known projects and threads, a thread belongs to a
\* project of the model, and sequence stays in its bound.
TypeOK ==
  /\ sequence \in 0..MaxSequence
  /\ started \subseteq TurnId
  /\ DOMAIN readModel.projects \subseteq ProjectId
  /\ DOMAIN readModel.threads \subseteq ThreadId
  /\ \A t \in DOMAIN readModel.threads :
       readModel.threads[t].projectId \in DOMAIN readModel.projects
  /\ \A r \in tables.turns : r.threadId \in ThreadId /\ r.turnId \in TurnId

\* The fields of a thread in the read model and in the snapshot.
SameFields(fields) ==
  /\ DOMAIN readModel.threads = DOMAIN tables.threads
  /\ \A t \in DOMAIN readModel.threads, f \in fields :
       readModel.threads[t][f] = SnapshotThread(tables, t)[f]

\* What a restart would load for projects, thread lifecycle, modes and sessions
\* is what the running server holds (projector.ts against ProjectionPipeline.ts
\* and ProjectionSnapshotQuery.ts, written three times over).
RestartKeepsLifecycle ==
  /\ readModel.projects = tables.projects
  /\ SameFields({"projectId", "meta", "runtimeMode", "interactionMode", "archived",
                 "deleted", "session"})

\* The same for plans, activities and checkpoints: turns, reverts and late
\* updates leave both stores with the same lists in the same order.
RestartKeepsTranscript == SameFields({"proposedPlans", "activities", "checkpoints"})

\* The same for messages.  The read model retains messages of a reverted thread
\* by age, the tables also by the turn that a user message started.
RestartKeepsMessages == SameFields({"messages"})

\* No two turns of a thread share a checkpoint turn count: the count names the
\* git ref of the checkpoint (CheckpointReactor, ProviderRuntimeIngestion).
OneTurnPerCheckpoint ==
  \A t \in DOMAIN readModel.threads : \A c, d \in Checkpoints(t) :
    (c.checkpointTurnCount = d.checkpointTurnCount \/ c.turnId = d.turnId) => c = d

\* A user message starts at most one turn: no two turn rows adopted the same
\* pending turn start, and an adopted one is no longer pending (the adoption in
\* the turns projector).
StartAdoptedOnce ==
  /\ \A q, r \in tables.turns :
       q.pendingMessageId # None /\ q.pendingMessageId = r.pendingMessageId => q = r
  /\ \A t \in DOMAIN tables.pending, r \in tables.turns :
       r.pendingMessageId # tables.pending[t].messageId

\* The shell summary stored with a thread is the one its rows give now: every
\* event that changes an input of it also refreshes it (refreshThreadShellSummary).
ShellSummaryFresh ==
  \A t \in DOMAIN tables.threads :
    tables.threads[t].summary = ShellSummary(tables, t, tables.threads[t].latestTurnId)

\* An approval that was resolved is never pending again, whatever duplicated or
\* late activity arrives (applyPendingApprovalsProjection).
ApprovalStaysResolved ==
  [][\A q \in DOMAIN tables.approvals :
       tables.approvals[q].status = "resolved" => tables'.approvals[q].status = "resolved"]_vars

UserMessages(list) == SelectSeq(list, LAMBDA m : m.role = "user")

\* A thread loses user messages only from the end of the conversation, and then
\* what stays of its transcript belongs to turns that still have a checkpoint
\* (thread.reverted in the read model).
RevertCuts ==
  \A t \in DOMAIN readModel.threads :
    LET old == readModel.threads[t]
        new == readModel'.threads[t]
    IN  /\ \/ IsPrefix(UserMessages(new.messages), UserMessages(old.messages))
           \/ IsPrefix(UserMessages(old.messages), UserMessages(new.messages))
        /\ Len(new.checkpoints) < Len(old.checkpoints) =>
             {m.turnId : m \in ToSet(new.messages)}
               \subseteq {c.turnId : c \in ToSet(new.checkpoints)} \cup {None}
RevertCutsTheEnd == [][RevertCuts]_vars

\* A placeholder never overwrites a captured checkpoint (what projector.ts says
\* of the read model), in the tables that survive a restart.
CapturedCheckpointKept ==
  [][\A r \in tables.turns, q \in tables'.turns :
       r.threadId = q.threadId /\ r.turnId = q.turnId /\ r.checkpoint # None /\ q.checkpoint # None
         => (r.checkpoint.status # "missing" => q.checkpoint.status # "missing")]_vars
=============================================================================
