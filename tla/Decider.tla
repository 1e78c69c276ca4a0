------------------------------- MODULE Decider -------------------------------
(***************************************************************************)
(* decideOrchestrationCommand: turns a command into the events it causes,  *)
(* or rejects it with an invariant error                                   *)
(* (apps/server/src/orchestration/decider.ts and commandInvariants.ts).    *)
(*                                                                         *)
(* A command is a record [type |-> "thread.create", ...] without its       *)
(* commandId: the engine adds the id to every event (withEventBase).       *)
(***************************************************************************)
EXTENDS Projector

\* requireProject, requireThread
HasProject(model, projectId) == projectId \in DOMAIN model.projects

HasThread(model, threadId) == threadId \in DOMAIN model.threads

\* listThreadsByProjectId(...).filter(thread => thread.deletedAt === null)
ActiveThreads(model, projectId) ==
  {t \in DOMAIN model.threads : /\ model.threads[t].projectId = projectId
                                /\ ~model.threads[t].deleted}

\* thread.turn.start may point at a proposed plan that it implements.
SourcePlanAllowed(model, cmd) ==
  LET source == cmd.sourceProposedPlan
  IN  source # None =>
      /\ HasThread(model, source.threadId)
      /\ HasId(model.threads[source.threadId].proposedPlans, source.planId)
      /\ model.threads[source.threadId].projectId = model.threads[cmd.threadId].projectId

\* The requireX calls of each command.  None of them looks at deletedAt.
Allowed(model, cmd) ==
  CASE cmd.type = "project.create" -> ~HasProject(model, cmd.projectId)
    [] cmd.type = "project.meta.update" -> HasProject(model, cmd.projectId)
    [] cmd.type = "project.delete" ->
         /\ HasProject(model, cmd.projectId)
         /\ ActiveThreads(model, cmd.projectId) = {} \/ cmd.force
    [] cmd.type = "thread.create" ->
         HasProject(model, cmd.projectId) /\ ~HasThread(model, cmd.threadId)
    [] cmd.type = "thread.archive" ->
         HasThread(model, cmd.threadId) /\ ~model.threads[cmd.threadId].archived
    [] cmd.type = "thread.unarchive" ->
         HasThread(model, cmd.threadId) /\ model.threads[cmd.threadId].archived
    [] cmd.type = "thread.turn.start" ->
         HasThread(model, cmd.threadId) /\ SourcePlanAllowed(model, cmd)
    [] OTHER -> HasThread(model, cmd.threadId)

\* A command whose single event carries the command's own payload.
EventType ==
  ("project.create" :> "project.created") @@
  ("project.meta.update" :> "project.meta-updated") @@
  ("thread.create" :> "thread.created") @@
  ("thread.delete" :> "thread.deleted") @@
  ("thread.archive" :> "thread.archived") @@
  ("thread.unarchive" :> "thread.unarchived") @@
  ("thread.meta.update" :> "thread.meta-updated") @@
  ("thread.runtime-mode.set" :> "thread.runtime-mode-set") @@
  ("thread.interaction-mode.set" :> "thread.interaction-mode-set") @@
  ("thread.turn.interrupt" :> "thread.turn-interrupt-requested") @@
  ("thread.approval.respond" :> "thread.approval-response-requested") @@
  ("thread.user-input.respond" :> "thread.user-input-response-requested") @@
  ("thread.checkpoint.revert" :> "thread.checkpoint-revert-requested") @@
  ("thread.session.stop" :> "thread.session-stop-requested") @@
  ("thread.session.set" :> "thread.session-set") @@
  ("thread.proposed-plan.upsert" :> "thread.proposed-plan-upserted") @@
  ("thread.turn.diff.complete" :> "thread.turn-diff-completed") @@
  ("thread.revert.complete" :> "thread.reverted") @@
  ("thread.activity.append" :> "thread.activity-appended")

SingleEvent(cmd) == [cmd EXCEPT !.type = EventType[cmd.type]]

\* decideCommandSequence: the threads first, the project last, in one batch.
\* The order among the threads is that of the read model; here any fixed one.
DeleteProjectEvents(model, cmd) ==
  LET deleted(t) == [type |-> "thread.deleted", threadId |-> t]
      threads == SetToSeq(ActiveThreads(model, cmd.projectId))
  IN  [i \in DOMAIN threads |-> deleted(threads[i])]
        \o << [type |-> "project.deleted", projectId |-> cmd.projectId] >>

MessageEvent(cmd, role, text, turnId, streaming) ==
  [type |-> "thread.message-sent", threadId |-> cmd.threadId, messageId |-> cmd.messageId,
   role |-> role, text |-> text, turnId |-> turnId, streaming |-> streaming]

\* The user message and the request to start a turn, with the modes that the
\* thread has at this moment.
TurnStartEvents(model, cmd) ==
  LET thread == model.threads[cmd.threadId]
  IN  << MessageEvent(cmd, "user", 1, None, FALSE),
         [type |-> "thread.turn-start-requested", threadId |-> cmd.threadId,
          messageId |-> cmd.messageId, runtimeMode |-> thread.runtimeMode,
          interactionMode |-> thread.interactionMode,
          sourceProposedPlan |-> cmd.sourceProposedPlan] >>

\* The events of an allowed command.
DecidedEvents(model, cmd) ==
  CASE cmd.type = "project.delete" -> DeleteProjectEvents(model, cmd)
    [] cmd.type = "thread.turn.start" -> TurnStartEvents(model, cmd)
    [] cmd.type = "thread.message.assistant.delta" ->
         << MessageEvent(cmd, "assistant", 1, cmd.turnId, TRUE) >>
    [] cmd.type = "thread.message.assistant.complete" ->
         << MessageEvent(cmd, "assistant", 0, cmd.turnId, FALSE) >>
    [] OTHER -> << SingleEvent(cmd) >>
=============================================================================
