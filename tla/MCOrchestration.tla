--------------------------- MODULE MCOrchestration ---------------------------
(***************************************************************************)
(* Instances of Orchestration for TLC.  Each sends the commands of one     *)
(* part of the domain, so that it can be looked at in some depth.          *)
(***************************************************************************)
CONSTANTS None, MaxThreadMessages, MaxThreadCheckpoints, MaxThreadPlans, MaxThreadActivities

VARIABLES scenario, readModel, tables, sequence, started

allVars == <<scenario, readModel, tables, sequence, started>>

\* The assistant message id is derived from the item of the turn.
MCAssistantMessage == [t \in {"t1", "t2"} |-> IF t = "t1" THEN "a-t1" ELSE "a-t2"]

\* A thread to talk in.
Setup == {"project.create", "thread.create"}

\* Turns without what the provider streams, so that two messages can be steered.
SteeringCommands ==
  Setup \cup {"thread.turn.start", "thread.session.set", "thread.turn.diff.complete",
              "thread.revert.complete"}

\* Projects and threads: creation, deletion, archive, settings.
Lifecycle == INSTANCE Orchestration
  WITH ProjectId <- {"p1", "p2"}, ThreadId <- {"th1", "th2"}, TurnId <- {}, UserMessageId <- {},
       PlanId <- {}, ActivityId <- {}, RequestId <- {}, Meta <- {"m1", "m2"}, Mode <- {"o1", "o2"},
       AssistantMessage <- MCAssistantMessage, AtomicDispatchers <- TRUE,
       TurnsInSequence <- TRUE, MaxSequence <- 5, CommandTypes <-
         {"project.create", "project.meta.update", "project.delete", "thread.create",
          "thread.delete", "thread.archive", "thread.unarchive", "thread.meta.update",
          "thread.runtime-mode.set", "thread.interaction-mode.set", "thread.session.stop"}

\* Turns: user messages, sessions, streamed answers, checkpoints and reverts.
Conversation == INSTANCE Orchestration
  WITH ProjectId <- {"p1"}, ThreadId <- {"th1"}, TurnId <- {"t1", "t2"}, UserMessageId <- {"u1", "u2"},
       PlanId <- {}, ActivityId <- {}, RequestId <- {}, Meta <- {"m1"}, Mode <- {"o1"},
       AssistantMessage <- MCAssistantMessage, AtomicDispatchers <- TRUE,
       TurnsInSequence <- TRUE, MaxSequence <- 11, CommandTypes <-
         Setup \cup
           {"thread.turn.start", "thread.session.set", "thread.turn.interrupt",
            "thread.message.assistant.delta", "thread.message.assistant.complete",
            "thread.turn.diff.complete", "thread.checkpoint.revert", "thread.revert.complete"}

\* A user who sends the next message while a turn runs.
Steering == INSTANCE Orchestration
  WITH ProjectId <- {"p1"}, ThreadId <- {"th1"}, TurnId <- {"t1", "t2"}, UserMessageId <- {"u1", "u2"},
       PlanId <- {}, ActivityId <- {}, RequestId <- {}, Meta <- {"m1"}, Mode <- {"o1"},
       AssistantMessage <- MCAssistantMessage, AtomicDispatchers <- TRUE,
       TurnsInSequence <- FALSE, MaxSequence <- 10, CommandTypes <-
         SteeringCommands

\* Plans, activities and approvals around one turn.
Content == INSTANCE Orchestration
  WITH ProjectId <- {"p1"}, ThreadId <- {"th1"}, TurnId <- {"t1"}, UserMessageId <- {"u1"},
       PlanId <- {"pl1"}, ActivityId <- {"x1", "x2"}, RequestId <- {"q1"}, Meta <- {"m1"}, Mode <- {"o1"},
       AssistantMessage <- MCAssistantMessage, AtomicDispatchers <- TRUE,
       TurnsInSequence <- TRUE, MaxSequence <- 7, CommandTypes <-
         Setup \cup
           {"thread.session.set", "thread.turn.start", "thread.proposed-plan.upsert",
            "thread.activity.append", "thread.approval.respond", "thread.user-input.respond",
            "thread.turn.diff.complete", "thread.revert.complete"}

\* A reactor that acts on a read model it read earlier.
Late == INSTANCE Orchestration
  WITH ProjectId <- {"p1"}, ThreadId <- {"th1"}, TurnId <- {"t1", "t2"}, UserMessageId <- {"u1", "u2"},
       PlanId <- {}, ActivityId <- {}, RequestId <- {}, Meta <- {"m1"}, Mode <- {"o1"},
       AssistantMessage <- MCAssistantMessage, AtomicDispatchers <- FALSE,
       TurnsInSequence <- TRUE, MaxSequence <- 13, CommandTypes <-
         SteeringCommands

MCInit ==
  Content!Init /\ scenario \in {"lifecycle", "conversation", "steering", "content"}

MCNext ==
  \/ scenario = "lifecycle" /\ Lifecycle!Next /\ UNCHANGED scenario
  \/ scenario = "conversation" /\ Conversation!Next /\ UNCHANGED scenario
  \/ scenario = "steering" /\ Steering!Next /\ UNCHANGED scenario
  \/ scenario = "content" /\ Content!Next /\ UNCHANGED scenario

MCSpec == MCInit /\ [][MCNext]_allVars

SteeringSpec ==
  Steering!Init /\ scenario = "steering" /\ [][Steering!Next /\ UNCHANGED scenario]_allVars
LateSpec == Late!Init /\ scenario = "late" /\ [][Late!Next /\ UNCHANGED scenario]_allVars

-----------------------------------------------------------------------------
\* What a restart would load is what the running server holds; for messages,
\* when a turn starts only after the one before it has a checkpoint.  The summary
\* in the row of a thread is that of the rows it is made from.
StoresAgree ==
  /\ scenario = "conversation" => Conversation!TypeOK
  /\ Content!RestartKeepsLifecycle
  /\ Content!RestartKeepsTranscript
  /\ scenario # "steering" => Content!RestartKeepsMessages
  /\ Content!ShellSummaryFresh

\* No two turns share a checkpoint, and a message starts one turn.
TurnsAreDistinct == Content!OneTurnPerCheckpoint /\ Content!StartAdoptedOnce

\* Without steering, a thread loses user messages only from its end.
RevertCutsTheEnd == [][scenario = "conversation" => Content!RevertCuts]_allVars

\* An approval stays resolved.
ApprovalStaysResolved == Content!ApprovalStaysResolved

\* With steering: the messages of the read model are those of the tables
\* (thread.reverted in projector.ts and in ProjectionPipeline.ts).
SteeredKeepsMessages == Steering!RestartKeepsMessages

\* A placeholder never overwrites a captured checkpoint (projector.ts says so).
CapturedCheckpointKept == Late!CapturedCheckpointKept
=============================================================================
