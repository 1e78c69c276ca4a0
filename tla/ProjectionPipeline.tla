-------------------------- MODULE ProjectionPipeline --------------------------
(***************************************************************************)
(* The projection tables in SQLite: the projectors that apply one event to *)
(* them (apps/server/src/orchestration/Layers/ProjectionPipeline.ts and    *)
(* persistence/Layers/ProjectionTurns.ts) and the snapshot query that      *)
(* rebuilds the read model from them when the server starts                *)
(* (ProjectionSnapshotQuery.ts).                                           *)
(*                                                                         *)
(* A projector is named by the table it writes.  `seq` is the sequence of  *)
(* the event; it stands for occurredAt/createdAt wherever rows are ordered *)
(* by a time stamp.                                                        *)
(***************************************************************************)
EXTENDS Projector

\* The projectors in the order in which projectEvent and bootstrap run them.
Projectors == << "projects", "messages", "plans", "activities", "sessions", "turns",
                 "checkpoints", "approvals", "threads" >>

EmptyTables ==
  [projects |-> << >>, messages |-> << >>, plans |-> << >>, activities |-> << >>,
   sessions |-> << >>, turns |-> {}, pending |-> << >>, approvals |-> << >>,
   threads |-> << >>]

OfThread(rows, threadId) == SelectSeq(rows, LAMBDA r : r.threadId = threadId)

\* DELETE ... WHERE thread_id, then upsert the kept rows: rows of other threads
\* stay, and the order by creation time is unchanged.
KeepRows(rows, threadId, kept) ==
  SelectSeq(rows, LAMBDA r : r.threadId # threadId \/ HasId(kept, r.id))

(***************************************************************************)
(* The turns table.  A row is keyed by (threadId, turnId); the pending row *)
(* of a thread (turn_id IS NULL) is kept in `pending`.  checkpoint is None *)
(* while checkpoint_turn_count IS NULL.                                    *)
(***************************************************************************)
TurnRow(tables, threadId, turnId) ==
  {r \in tables.turns : r.threadId = threadId /\ r.turnId = turnId}

NewTurnRow(e, seq, turnId, state) ==
  [threadId |-> e.threadId, turnId |-> turnId, state |-> state, requestedAt |-> seq,
   pendingMessageId |-> None, sourceProposedPlan |-> None, assistantMessageId |-> None,
   checkpoint |-> None]

\* Updates the row of the turn, or inserts one, with patch applied.
UpsertTurn(tables, e, seq, turnId, state, patch(_)) ==
  LET old == TurnRow(tables, e.threadId, turnId)
      rows == IF old = {} THEN {NewTurnRow(e, seq, turnId, state)} ELSE old
  IN  (tables.turns \ old) \cup {patch(r) : r \in rows}

Coalesce(a, b) == IF a # None THEN a ELSE b

\* deletePendingTurnStartByThreadId
KeepPending(pending, threadId) == pending
WithoutPending(pending, threadId) == [t \in DOMAIN pending \ {threadId} |-> pending[t]]

\* A session that runs a turn adopts the thread's pending turn start.
TurnsOnSessionSet(tables, e, seq) ==
  LET turnId == e.session.activeTurnId
      hasPending == e.threadId \in DOMAIN tables.pending
      start == tables.pending[e.threadId]
      isNew == TurnRow(tables, e.threadId, turnId) = {}
      adopt(r) ==
        LET running == [r EXCEPT !.state = IF @ \in {"completed", "error"} THEN @ ELSE "running"]
        IN  IF ~hasPending THEN running
            ELSE [running EXCEPT
                   !.pendingMessageId = Coalesce(@, start.messageId),
                   !.sourceProposedPlan = Coalesce(@, start.sourceProposedPlan),
                   !.requestedAt = IF isNew THEN start.requestedAt ELSE @]
  IN  IF turnId = None \/ e.session.status # "running" THEN tables
      ELSE [tables EXCEPT
             !.turns = UpsertTurn(tables, e, seq, turnId, "running", adopt),
             !.pending = WithoutPending(@, e.threadId)]

TurnsOnMessageSent(tables, e, seq) ==
  LET finished(state) == IF state \in {"interrupted", "error"} THEN state ELSE "completed"
      patch(r) == [r EXCEPT !.assistantMessageId = e.messageId,
                            !.state = IF e.streaming THEN @ ELSE finished(@)]
  IN  IF e.turnId = None \/ e.role # "assistant" THEN tables
      ELSE [tables EXCEPT !.turns = UpsertTurn(tables, e, seq, e.turnId, "running", patch)]

TurnsOnInterrupt(tables, e, seq) ==
  LET patch(r) == [r EXCEPT !.state = "interrupted"]
  IN  IF e.turnId = None THEN tables
      ELSE [tables EXCEPT !.turns = UpsertTurn(tables, e, seq, e.turnId, "interrupted", patch)]

\* clearCheckpointTurnConflict, then the upsert: the count is unique per thread,
\* and the row takes whatever checkpoint the event brings.
TurnsOnDiffCompleted(tables, e, seq) ==
  LET conflicts(r) == /\ r.threadId = e.threadId
                      /\ r.turnId # e.turnId
                      /\ r.checkpoint # None
                      /\ r.checkpoint.checkpointTurnCount = e.checkpointTurnCount
      cleared == [tables EXCEPT !.turns =
                    {IF conflicts(r) THEN [r EXCEPT !.checkpoint = None] ELSE r : r \in @}]
      patch(r) == [r EXCEPT
                    !.state = IF e.status = "error" THEN "error" ELSE "completed",
                    !.assistantMessageId = e.assistantMessageId,
                    !.checkpoint = [checkpointTurnCount |-> e.checkpointTurnCount,
                                    status |-> e.status]]
  IN  [tables EXCEPT !.turns = UpsertTurn(cleared, e, seq, e.turnId, "completed", patch)]

\* The turns that thread.reverted keeps.
KeptTurnsBelow(tables, e) ==
  {r \in tables.turns : /\ r.threadId = e.threadId
                        /\ r.checkpoint # None
                        /\ r.checkpoint.checkpointTurnCount < e.turnCount}

KeptTurns(tables, e) ==
  {r \in tables.turns : /\ r.threadId = e.threadId
                        /\ r.checkpoint # None
                        /\ r.checkpoint.checkpointTurnCount <= e.turnCount}

KeptTurnIds(tables, e) == {r.turnId : r \in KeptTurns(tables, e)}

TurnsOnReverted(tables, e) ==
  [tables EXCEPT !.turns = {r \in @ : r.threadId # e.threadId} \cup KeptTurns(tables, e),
                 !.pending = WithoutPending(@, e.threadId)]

TurnsOnStartRequested(tables, e, seq) ==
  [tables EXCEPT !.pending =
     (e.threadId :> [messageId |-> e.messageId, requestedAt |-> seq,
                     sourceProposedPlan |-> e.sourceProposedPlan]) @@ @]

ApplyTurns(tables, e, seq) ==
  CASE e.type = "thread.turn-start-requested" -> TurnsOnStartRequested(tables, e, seq)
    [] e.type = "thread.session-set" -> TurnsOnSessionSet(tables, e, seq)
    [] e.type = "thread.message-sent" -> TurnsOnMessageSent(tables, e, seq)
    [] e.type = "thread.turn-interrupt-requested" -> TurnsOnInterrupt(tables, e, seq)
    [] e.type = "thread.turn-diff-completed" -> TurnsOnDiffCompleted(tables, e, seq)
    [] e.type = "thread.reverted" -> TurnsOnReverted(tables, e)
    [] OTHER -> tables

(***************************************************************************)
(* The other projectors.                                                   *)
(***************************************************************************)
ApplyProjects(tables, e) ==
  CASE e.type = "project.created" ->
         [tables EXCEPT !.projects = (e.projectId :> NewProject(e)) @@ @]
    [] e.type = "project.meta-updated" ->
         [tables EXCEPT !.projects =
            PatchKey(@, e.projectId, LAMBDA p : [p EXCEPT !.meta = e.meta])]
    [] e.type = "project.deleted" ->
         [tables EXCEPT !.projects =
            PatchKey(@, e.projectId, LAMBDA p : [p EXCEPT !.deleted = TRUE])]
    [] OTHER -> tables

\* Message rows are keyed by messageId alone; the role and the thread of the
\* last event win, the text is merged as in the read model.

MessagesOnSent(rows, e) ==
  LET text == IF HasId(rows, e.messageId)
              THEN MergeText((CHOOSE r \in ToSet(rows) : r.id = e.messageId).text,
                             e.text, e.streaming)
              ELSE e.text
  IN  UpsertById(rows, [id |-> e.messageId, threadId |-> e.threadId, role |-> e.role,
                        text |-> text, turnId |-> e.turnId, streaming |-> e.streaming])

\* retainProjectionMessagesAfterRevert: also the user message that started a
\* kept turn and the assistant message that ended it.
MessagesOnReverted(tables, e) ==
  LET started == {r.pendingMessageId : r \in KeptTurns(tables, e)}
      ended == {r.assistantMessageId : r \in KeptTurns(tables, e)}
  IN  RetainMessages(OfThread(tables.messages, e.threadId), KeptTurnIds(tables, e),
                     (started \cup ended) \ {None}, e.turnCount)

ApplyMessages(tables, e) ==
  CASE e.type = "thread.message-sent" ->
         [tables EXCEPT !.messages = MessagesOnSent(@, e)]
    [] e.type = "thread.reverted" ->
         [tables EXCEPT !.messages = KeepRows(@, e.threadId, MessagesOnReverted(tables, e))]
    [] OTHER -> tables

ApplyPlans(tables, e, seq) ==
  CASE e.type = "thread.proposed-plan-upserted" ->
         [tables EXCEPT !.plans =
            UpsertById(@, [threadId |-> e.threadId, updatedAt |-> seq] @@ e.proposedPlan)]
    [] e.type = "thread.reverted" ->
         [tables EXCEPT !.plans = KeepRows(@, e.threadId,
            RetainByTurn(OfThread(@, e.threadId), KeptTurnIds(tables, e)))]
    [] OTHER -> tables

ApplyActivities(tables, e) ==
  CASE e.type = "thread.activity-appended" ->
         [tables EXCEPT !.activities =
            ReplaceAtEnd(@, [threadId |-> e.threadId] @@ e.activity)]
    [] e.type = "thread.reverted" ->
         [tables EXCEPT !.activities = KeepRows(@, e.threadId,
            RetainByTurn(OfThread(@, e.threadId), KeptTurnIds(tables, e)))]
    [] OTHER -> tables

ApplySessions(tables, e) ==
  IF e.type = "thread.session-set"
  THEN [tables EXCEPT !.sessions = (e.threadId :> e.session) @@ @]
  ELSE tables

\* A request can be opened when its approval is not resolved yet.
AlwaysOpens(approvals, requestId) == TRUE
MayOpen(approvals, requestId) ==
  requestId \in DOMAIN approvals => approvals[requestId].status = "pending"

\* An approval is opened by approval.requested, unless it was resolved before,
\* and resolved by approval.resolved, by the user's response, or by a failed
\* response whose detail says that the request is stale.
ApprovalOnActivity(approvals, e) ==
  LET a == e.activity
      known == a.requestId \in DOMAIN approvals
      open == known /\ approvals[a.requestId].status = "pending"
      row(status) == a.requestId :> [threadId |-> IF known THEN approvals[a.requestId].threadId
                                                   ELSE e.threadId,
                                     status |-> status]
  IN  CASE a.requestId = None -> approvals
        [] a.kind = "approval.resolved" -> row("resolved") @@ approvals
        [] a.kind = "provider.approval.respond.failed" /\ a.stale /\ open ->
             row("resolved") @@ approvals
        [] a.kind = "approval.requested" /\ MayOpen(approvals, a.requestId) ->
             (a.requestId :> [threadId |-> e.threadId, status |-> "pending"]) @@ approvals
        [] OTHER -> approvals

ApplyApprovals(tables, e) ==
  CASE e.type = "thread.activity-appended" ->
         [tables EXCEPT !.approvals = ApprovalOnActivity(@, e)]
    [] e.type = "thread.approval-response-requested" ->
         [tables EXCEPT !.approvals =
            (e.requestId :> [threadId |-> IF e.requestId \in DOMAIN @
                                          THEN @[e.requestId].threadId ELSE e.threadId,
                             status |-> "resolved"]) @@ @]
    [] OTHER -> tables

(***************************************************************************)
(* The threads table, with the shell summary that the sidebar shows.       *)
(***************************************************************************)
PendingApprovals(tables, threadId) ==
  {q \in DOMAIN tables.approvals : /\ tables.approvals[q].threadId = threadId
                                   /\ tables.approvals[q].status = "pending"}

\* derivePendingUserInputCountFromActivities
OpenUserInputs(activities) ==
  LET step(open, a) ==
        CASE a.requestId = None -> open
          [] a.kind = "user-input.requested" -> open \cup {a.requestId}
          [] a.kind = "user-input.resolved" -> open \ {a.requestId}
          [] a.kind = "provider.user-input.respond.failed" /\ a.stale -> open \ {a.requestId}
          [] OTHER -> open
  IN  FoldLeft(step, {}, activities)

\* deriveHasActionableProposedPlan: the newest plan of the latest turn decides,
\* and when there is none, the newest plan of the thread.
HasActionablePlan(latestTurnId, plans) ==
  LET ofTurn == {p \in plans : latestTurnId # None /\ p.turnId = latestTurnId}
      newest(ps) == CHOOSE p \in ps : \A q \in ps : q.updatedAt <= p.updatedAt
  IN  CASE ofTurn # {} -> ~newest(ofTurn).implemented
        [] ofTurn = {} /\ plans # {} -> ~newest(plans).implemented
        [] OTHER -> FALSE

ShellSummary(tables, threadId, latestTurnId) ==
  LET users == SelectSeq(OfThread(tables.messages, threadId), LAMBDA m : m.role = "user")
  IN  [latestUserMessage |-> IF users = << >> THEN None ELSE Last(users).id,
       pendingApprovalCount |-> Cardinality(PendingApprovals(tables, threadId)),
       pendingUserInputCount |->
         Cardinality(OpenUserInputs(OfThread(tables.activities, threadId))),
       hasActionableProposedPlan |->
         HasActionablePlan(latestTurnId, ToSet(OfThread(tables.plans, threadId)))]

NewThreadRow(e) ==
  [projectId |-> e.projectId, meta |-> e.meta, runtimeMode |-> e.runtimeMode,
   interactionMode |-> e.interactionMode, archived |-> FALSE, deleted |-> FALSE,
   latestTurnId |-> None,
   summary |-> [latestUserMessage |-> None, pendingApprovalCount |-> 0,
                pendingUserInputCount |-> 0, hasActionableProposedPlan |-> FALSE]]

RefreshTypes ==
  {"thread.message-sent", "thread.proposed-plan-upserted", "thread.activity-appended",
   "thread.approval-response-requested", "thread.user-input-response-requested",
   "thread.session-set", "thread.turn-diff-completed", "thread.reverted"}

\* The row of an existing thread after an event.
PatchThreadRow(tables, row, e) ==
  LET latestTurnId == CASE e.type = "thread.session-set" -> e.session.activeTurnId
                        [] e.type = "thread.turn-diff-completed" -> e.turnId
                        [] e.type = "thread.reverted" -> None
                        [] OTHER -> row.latestTurnId
  IN  CASE e.type = "thread.deleted" -> [row EXCEPT !.deleted = TRUE]
        [] e.type = "thread.archived" -> [row EXCEPT !.archived = TRUE]
        [] e.type = "thread.unarchived" -> [row EXCEPT !.archived = FALSE]
        [] e.type = "thread.meta-updated" -> [row EXCEPT !.meta = e.meta]
        [] e.type = "thread.runtime-mode-set" -> [row EXCEPT !.runtimeMode = e.runtimeMode]
        [] e.type = "thread.interaction-mode-set" ->
             [row EXCEPT !.interactionMode = e.interactionMode]
        [] e.type \in RefreshTypes ->
             [row EXCEPT !.latestTurnId = latestTurnId,
                         !.summary = ShellSummary(tables, e.threadId, latestTurnId)]
        [] OTHER -> row

ApplyThreads(tables, e) ==
  CASE e.type = "thread.created" ->
         [tables EXCEPT !.threads = (e.threadId :> NewThreadRow(e)) @@ @]
    [] "threadId" \in DOMAIN e /\ e.type # "thread.created" ->
         [tables EXCEPT !.threads =
            PatchKey(@, e.threadId, LAMBDA row : PatchThreadRow(tables, row, e))]
    [] OTHER -> tables

(***************************************************************************)
(* Running the projectors, and reading the snapshot back.                  *)
(***************************************************************************)
ApplyProjector(name, tables, e, seq) ==
  CASE name = "projects" -> ApplyProjects(tables, e)
    [] name = "messages" -> ApplyMessages(tables, e)
    [] name = "plans" -> ApplyPlans(tables, e, seq)
    [] name = "activities" -> ApplyActivities(tables, e)
    [] name = "sessions" -> ApplySessions(tables, e)
    [] name = "turns" -> ApplyTurns(tables, e, seq)
    [] name = "checkpoints" -> tables
    [] name = "approvals" -> ApplyApprovals(tables, e)
    [] name = "threads" -> ApplyThreads(tables, e)

\* projectionPipeline.projectEvent
ProjectToTables(tables, e, seq) ==
  FoldLeft(LAMBDA t, name : ApplyProjector(name, t, e, seq), tables, Projectors)

\* The events of one command; the first gets the sequence from + 1.
ProjectAllToTables(tables, events, from) ==
  FoldLeftDomain(LAMBDA t, i : ProjectToTables(t, events[i], from + i), tables, events)

\* Rows without the columns that the read model does not have.
Strip(rows) ==
  [i \in DOMAIN rows |-> [f \in DOMAIN rows[i] \ {"threadId", "updatedAt"} |-> rows[i][f]]]

\* listCheckpointRows of a thread: ORDER BY checkpoint_turn_count
CheckpointsOf(tables, threadId) ==
  LET rows == {r \in tables.turns : r.threadId = threadId /\ r.checkpoint # None}
      checkpoint(r) == [turnId |-> r.turnId, assistantMessageId |-> r.assistantMessageId]
                       @@ r.checkpoint
  IN  SetToSortSeq({checkpoint(r) : r \in rows},
                   LAMBDA c, d : c.checkpointTurnCount < d.checkpointTurnCount)

\* listLatestTurnRows: the row with the greatest requested_at
LatestTurnRow(tables, threadId) ==
  LET rows == {r \in tables.turns : r.threadId = threadId}
      latest == CHOOSE r \in rows : \A q \in rows : q.requestedAt <= r.requestedAt
  IN  IF rows = {} THEN None
      ELSE [turnId |-> latest.turnId, state |-> latest.state,
            assistantMessageId |-> latest.assistantMessageId]

SnapshotThread(tables, threadId) ==
  LET row == tables.threads[threadId]
  IN  [projectId |-> row.projectId, meta |-> row.meta, runtimeMode |-> row.runtimeMode,
       interactionMode |-> row.interactionMode, archived |-> row.archived,
       deleted |-> row.deleted, latestTurn |-> LatestTurnRow(tables, threadId),
       messages |-> Strip(OfThread(tables.messages, threadId)),
       proposedPlans |-> Strip(OfThread(tables.plans, threadId)),
       activities |-> Strip(OfThread(tables.activities, threadId)),
       checkpoints |-> CheckpointsOf(tables, threadId),
       session |-> IF threadId \in DOMAIN tables.sessions THEN tables.sessions[threadId]
                   ELSE None]

\* getSnapshot
Snapshot(tables) ==
  [projects |-> tables.projects,
   threads |-> [t \in DOMAIN tables.threads |-> SnapshotThread(tables, t)]]
=============================================================================
