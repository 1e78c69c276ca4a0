----------------------------- MODULE ClientStore -----------------------------
(***************************************************************************)
(* A thread in the store of the web client, and the reducer that folds the *)
(* events of the thread's subscription into it (apps/web/src/store.ts,     *)
(* applyEnvironmentOrchestrationEvent): a third copy of what projector.ts  *)
(* and ProjectionPipeline.ts do with the same events.                      *)
(***************************************************************************)
EXTENDS Projector

\* mapThread of a thread that the server sent, without the plan that its latest
\* turn implements.
ClientThread(thread) ==
  [messages |-> thread.messages, proposedPlans |-> thread.proposedPlans,
   activities |-> thread.activities, turnDiffSummaries |-> thread.checkpoints,
   session |-> thread.session, latestTurn |-> thread.latestTurn]

buildLatestTurn(turnId, state, assistantMessageId) ==
  [turnId |-> turnId, state |-> state, assistantMessageId |-> assistantMessageId]

IsClientTurn(thread, turnId) == thread.latestTurn = None \/ thread.latestTurn.turnId = turnId

rebindTurnDiffSummaries(summaries, turnId, messageId) ==
  [i \in DOMAIN summaries |->
     IF summaries[i].turnId = turnId THEN [summaries[i] EXCEPT !.assistantMessageId = messageId]
     ELSE summaries[i]]

\* A final message completes the turn, unless it was interrupted or failed.
TurnAfterMessage(thread, e) ==
  LET old == IF thread.latestTurn = None THEN None ELSE thread.latestTurn.state
      state == CASE e.streaming -> "running"
                 [] ~e.streaming /\ old \in {"interrupted", "error"} -> old
                 [] OTHER -> "completed"
  IN  buildLatestTurn(e.turnId, state, e.messageId)

ClientText(old, text, streaming) ==
  IF streaming THEN old + text ELSE IF text > 0 THEN text ELSE old

ClientMessageSent(thread, e) ==
  LET answer == e.role = "assistant" /\ e.turnId # None
      message == [id |-> e.messageId, role |-> e.role, text |-> e.text,
                  turnId |-> e.turnId, streaming |-> e.streaming]
      merge(old) == [message EXCEPT !.role = old.role,
                                    !.text = ClientText(old.text, e.text, e.streaming)]
      messages == IF HasId(thread.messages, e.messageId)
                  THEN PatchById(thread.messages, e.messageId, merge)
                  ELSE Append(thread.messages, message)
  IN  [thread EXCEPT
        !.messages = KeepLast(messages, MaxThreadMessages),
        !.turnDiffSummaries =
          IF answer THEN rebindTurnDiffSummaries(@, e.turnId, e.messageId) ELSE @,
        !.latestTurn =
          IF answer /\ IsClientTurn(thread, e.turnId) THEN TurnAfterMessage(thread, e) ELSE @]

ClientSessionSet(thread, e) ==
  LET turnId == e.session.activeTurnId
      running == e.session.status = "running" /\ turnId # None
      same == thread.latestTurn # None /\ IsClientTurn(thread, turnId)
  IN  [thread EXCEPT
        !.session = e.session,
        !.latestTurn = IF ~running THEN @
                       ELSE buildLatestTurn(turnId, "running",
                                            IF same THEN @.assistantMessageId ELSE None)]

ClientPlanUpserted(thread, e) ==
  [thread EXCEPT !.proposedPlans = KeepLast(UpsertById(@, e.proposedPlan), MaxThreadPlans)]

ClientActivityAppended(thread, e) ==
  [thread EXCEPT !.activities = KeepLast(ReplaceAtEnd(@, e.activity), MaxThreadActivities)]

\* A placeholder never replaces a captured summary.
RefusesDiff(summaries, e) ==
  /\ e.status = "missing"
  /\ \E i \in DOMAIN summaries : summaries[i].turnId = e.turnId /\ summaries[i].status # "missing"

\* Unlike in projector.ts, the latest turn follows only when it is this turn.
ClientDiffCompleted(thread, e) ==
  LET others == SelectSeq(thread.turnDiffSummaries, LAMBDA c : c.turnId # e.turnId)
  IN  IF RefusesDiff(thread.turnDiffSummaries, e) THEN thread
      ELSE [thread EXCEPT
             !.turnDiffSummaries = KeepLast(InsertByTurnCount(others, CheckpointOf(e)),
                                            MaxThreadCheckpoints),
             !.latestTurn = IF IsClientTurn(thread, e.turnId)
                            THEN LatestTurnOf(CheckpointOf(e)) ELSE @]

\* For a mutation: the messages of all turns stay.
KeepMessages(messages, turns, turnCount) == messages
\* retainThreadMessagesAfterRevert: the same rules as on the server.
RetainClientMessages(messages, turns, turnCount) == RetainMessages(messages, turns, {}, turnCount)

\* retainThreadActivitiesAfterRevert, retainThreadProposedPlansAfterRevert
RetainClientContent(list, turns) == RetainByTurn(list, turns)

ClientReverted(thread, e) ==
  LET upTo == SelectSeq(thread.turnDiffSummaries, LAMBDA c : c.checkpointTurnCount <= e.turnCount)
      summaries == KeepLast(upTo, MaxThreadCheckpoints)
      turns == {summaries[i].turnId : i \in DOMAIN summaries}
  IN  [thread EXCEPT
        !.turnDiffSummaries = summaries,
        !.messages = KeepLast(RetainClientMessages(@, turns, e.turnCount), MaxThreadMessages),
        !.proposedPlans = KeepLast(RetainClientContent(@, turns), MaxThreadPlans),
        !.activities = RetainClientContent(@, turns),
        !.latestTurn = IF summaries = << >> THEN None ELSE LatestTurnOf(Last(summaries))]

\* isThreadDetailEvent: the events that a subscription of a thread carries.
DetailTypes ==
  {"thread.message-sent", "thread.proposed-plan-upserted", "thread.activity-appended",
   "thread.turn-diff-completed", "thread.reverted", "thread.session-set"}

applyEnvironmentOrchestrationEvent(thread, e) ==
  CASE e.type = "thread.message-sent" -> ClientMessageSent(thread, e)
    [] e.type = "thread.session-set" -> ClientSessionSet(thread, e)
    [] e.type = "thread.proposed-plan-upserted" -> ClientPlanUpserted(thread, e)
    [] e.type = "thread.turn-diff-completed" -> ClientDiffCompleted(thread, e)
    [] e.type = "thread.reverted" -> ClientReverted(thread, e)
    [] e.type = "thread.activity-appended" -> ClientActivityAppended(thread, e)
=============================================================================
