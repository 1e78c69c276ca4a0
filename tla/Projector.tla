------------------------------ MODULE Projector ------------------------------
(***************************************************************************)
(* The in-memory read model of the orchestration server and the pure       *)
(* function that folds one domain event into it                            *)
(* (apps/server/src/orchestration/projector.ts).                           *)
(*                                                                         *)
(* Events are records [type |-> "thread.created", ...].  Titles, branches, *)
(* scripts and model selections are one opaque Meta value; a message text  *)
(* is the number of chunks it holds; createdAt is the position of a row in *)
(* its list, so the stamps of successive commands are assumed to increase. *)
(***************************************************************************)
EXTENDS Integers, Sequences, SequencesExt

CONSTANTS
  None,                 \* null / undefined
  MaxThreadMessages,    \* 2000
  MaxThreadCheckpoints, \* 500
  MaxThreadPlans,       \* 200
  MaxThreadActivities   \* 500

ASSUME CapsAssumption ==
  /\ MaxThreadMessages \in Nat \ {0}
  /\ MaxThreadCheckpoints \in Nat \ {0}
  /\ MaxThreadPlans \in Nat \ {0}
  /\ MaxThreadActivities \in Nat \ {0}

(***************************************************************************)
(* Lists.                                                                  *)
(***************************************************************************)

\* list.slice(-n)
KeepLast(list, n) == SubSeq(list, Max({1, Len(list) - n + 1}), Len(list))

HasId(list, id) == \E i \in DOMAIN list : list[i].id = id

\* list.map(entry => entry.id === id ? patch(entry) : entry)
PatchById(list, id, patch(_)) ==
  [i \in DOMAIN list |-> IF list[i].id = id THEN patch(list[i]) ELSE list[i]]

\* [...list.filter(entry => entry.id !== id), entry]
ReplaceAtEnd(list, entry) == Append(SelectSeq(list, LAMBDA e : e.id # entry.id), entry)

\* Rows sorted by createdAt: a known row keeps its place, a new one goes last.
UpsertById(list, entry) ==
  IF HasId(list, entry.id)
  THEN PatchById(list, entry.id, LAMBDA e : entry)
  ELSE Append(list, entry)

\* Applies patch to f[key] when the key is present, as updateThread does.
PatchKey(f, key, patch(_)) ==
  IF key \in DOMAIN f THEN [f EXCEPT ![key] = patch(@)] ELSE f

(***************************************************************************)
(* The state of a thread and the transitions of its parts.                 *)
(***************************************************************************)

\* createEmptyReadModel without its snapshotSequence, which the engine holds.
EmptyReadModel == [projects |-> << >>, threads |-> << >>]

NewProject(e) == [meta |-> e.meta, deleted |-> FALSE]

NewThread(e) ==
  [projectId |-> e.projectId, meta |-> e.meta, runtimeMode |-> e.runtimeMode,
   interactionMode |-> e.interactionMode, archived |-> FALSE, deleted |-> FALSE,
   latestTurn |-> None, messages |-> << >>, proposedPlans |-> << >>,
   activities |-> << >>, checkpoints |-> << >>, session |-> None]

checkpointStatusToLatestTurnState(status) ==
  CASE status = "error" -> "error"
    [] status = "missing" -> "interrupted"
    [] OTHER -> "completed"

\* Streaming chunks are appended, a non-empty final text replaces what was
\* streamed, an empty final text keeps it.
MergeText(old, text, streaming) ==
  IF streaming THEN old + text ELSE IF text > 0 THEN text ELSE old

MessageSent(thread, e) ==
  LET message == [id |-> e.messageId, role |-> e.role, text |-> e.text,
                  turnId |-> e.turnId, streaming |-> e.streaming]
      merge(old) == [message EXCEPT !.role = old.role,
                                    !.text = MergeText(old.text, e.text, e.streaming)]
      messages == IF HasId(thread.messages, e.messageId)
                  THEN PatchById(thread.messages, e.messageId, merge)
                  ELSE Append(thread.messages, message)
  IN  [thread EXCEPT !.messages = KeepLast(messages, MaxThreadMessages)]

IsLatestTurn(thread, turnId) ==
  thread.latestTurn # None /\ thread.latestTurn.turnId = turnId

\* A session that runs a turn makes it the latest turn; any other session
\* update leaves latestTurn as it was.
SessionSet(thread, e) ==
  LET turnId == e.session.activeTurnId
      running == e.session.status = "running" /\ turnId # None
  IN  [thread EXCEPT
        !.session = e.session,
        !.latestTurn =
          IF ~running THEN @
          ELSE [turnId |-> turnId, state |-> "running",
                assistantMessageId |-> IF IsLatestTurn(thread, turnId)
                                       THEN @.assistantMessageId ELSE None]]

ProposedPlanUpserted(thread, e) ==
  [thread EXCEPT !.proposedPlans =
     KeepLast(UpsertById(@, e.proposedPlan), MaxThreadPlans)]

ActivityAppended(thread, e) ==
  [thread EXCEPT !.activities =
     KeepLast(ReplaceAtEnd(@, e.activity), MaxThreadActivities)]

CheckpointOf(e) ==
  [turnId |-> e.turnId, checkpointTurnCount |-> e.checkpointTurnCount,
   status |-> e.status, assistantMessageId |-> e.assistantMessageId]

\* toSorted by checkpointTurnCount is stable: among equals the new one is last.
InsertByTurnCount(list, c) ==
  LET before(d) == d.checkpointTurnCount <= c.checkpointTurnCount
  IN  Append(SelectSeq(list, before), c) \o SelectSeq(list, LAMBDA d : ~before(d))

LatestTurnOf(checkpoint) ==
  [turnId |-> checkpoint.turnId,
   state |-> checkpointStatusToLatestTurnState(checkpoint.status),
   assistantMessageId |-> checkpoint.assistantMessageId]

\* A placeholder (status "missing") never replaces a captured checkpoint.
TurnDiffCompleted(thread, e) ==
  LET checkpoint == CheckpointOf(e)
      captured == \E i \in DOMAIN thread.checkpoints :
                     /\ thread.checkpoints[i].turnId = e.turnId
                     /\ thread.checkpoints[i].status # "missing"
      others == SelectSeq(thread.checkpoints, LAMBDA c : c.turnId # e.turnId)
  IN  IF captured /\ e.status = "missing" THEN thread
      ELSE [thread EXCEPT
             !.checkpoints = KeepLast(InsertByTurnCount(others, checkpoint),
                                      MaxThreadCheckpoints),
             !.latestTurn = LatestTurnOf(checkpoint)]

(***************************************************************************)
(* Reverting a thread to a turn count.                                     *)
(***************************************************************************)

\* candidates.slice(0, n): the n oldest
NewestOnes(list, n) == SubSeq(list, Max({1, Len(list) - n + 1}), Len(list))
OldestOnes(list, n) == SubSeq(list, 1, Min({n, Len(list)}))

\* The messages that survive: system messages, those of a retained turn, those
\* in `kept`, and then for each role the oldest messages without a removed turn
\* until turnCount messages of that role are retained.
RetainMessages(messages, turns, kept, turnCount) ==
  LET ids(list) == {list[i].id : i \in DOMAIN list}
      direct == kept \cup ids(SelectSeq(messages,
                  LAMBDA m : m.role = "system" \/ m.turnId \in turns))
      fill(retained, role) ==
        LET have == Len(SelectSeq(messages,
                          LAMBDA m : m.role = role /\ m.id \in retained))
            candidates == SelectSeq(messages,
                            LAMBDA m : /\ m.role = role
                                       /\ m.id \notin retained
                                       /\ m.turnId \in turns \cup {None})
            missing == Max({0, turnCount - have})
        IN  retained \cup ids(OldestOnes(candidates, missing))
      retained == fill(fill(direct, "user"), "assistant")
  IN  SelectSeq(messages, LAMBDA m : m.id \in retained)

\* Plans and activities survive when they have no turn or a retained one.
RetainByTurn(list, turns) == SelectSeq(list, LAMBDA x : x.turnId \in turns \cup {None})

Reverted(thread, e) ==
  LET upTo == SelectSeq(thread.checkpoints, LAMBDA c : c.checkpointTurnCount <= e.turnCount)
      checkpoints == KeepLast(upTo, MaxThreadCheckpoints)
      turns == {checkpoints[i].turnId : i \in DOMAIN checkpoints}
  IN  [thread EXCEPT
        !.checkpoints = checkpoints,
        !.messages = KeepLast(RetainMessages(@, turns, {}, e.turnCount), MaxThreadMessages),
        !.proposedPlans = KeepLast(RetainByTurn(@, turns), MaxThreadPlans),
        !.activities = RetainByTurn(@, turns),
        !.latestTurn = IF checkpoints = << >> THEN None
                       ELSE LatestTurnOf(Last(checkpoints))]

(***************************************************************************)
(* The fold.                                                               *)
(***************************************************************************)

ProjectProjects(projects, e) ==
  CASE e.type = "project.created" -> (e.projectId :> NewProject(e)) @@ projects
    [] e.type = "project.meta-updated" ->
         PatchKey(projects, e.projectId, LAMBDA p : [p EXCEPT !.meta = e.meta])
    [] e.type = "project.deleted" ->
         PatchKey(projects, e.projectId, LAMBDA p : [p EXCEPT !.deleted = TRUE])
    [] OTHER -> projects

\* What an event does to the thread it names; types the projector does not
\* handle (requests to the provider) leave the thread alone.
ProjectThread(thread, e) ==
  CASE e.type = "thread.deleted" -> [thread EXCEPT !.deleted = TRUE]
    [] e.type = "thread.archived" -> [thread EXCEPT !.archived = TRUE]
    [] e.type = "thread.unarchived" -> [thread EXCEPT !.archived = FALSE]
    [] e.type = "thread.meta-updated" -> [thread EXCEPT !.meta = e.meta]
    [] e.type = "thread.runtime-mode-set" -> [thread EXCEPT !.runtimeMode = e.runtimeMode]
    [] e.type = "thread.interaction-mode-set" ->
         [thread EXCEPT !.interactionMode = e.interactionMode]
    [] e.type = "thread.message-sent" -> MessageSent(thread, e)
    [] e.type = "thread.session-set" -> SessionSet(thread, e)
    [] e.type = "thread.proposed-plan-upserted" -> ProposedPlanUpserted(thread, e)
    [] e.type = "thread.turn-diff-completed" -> TurnDiffCompleted(thread, e)
    [] e.type = "thread.reverted" -> Reverted(thread, e)
    [] e.type = "thread.activity-appended" -> ActivityAppended(thread, e)
    [] OTHER -> thread

ProjectThreads(threads, e) ==
  CASE e.type = "thread.created" -> (e.threadId :> NewThread(e)) @@ threads
    [] "threadId" \in DOMAIN e /\ e.type # "thread.created" ->
         PatchKey(threads, e.threadId, LAMBDA t : ProjectThread(t, e))
    [] OTHER -> threads

projectEvent(model, e) ==
  [projects |-> ProjectProjects(model.projects, e),
   threads |-> ProjectThreads(model.threads, e)]

\* Folding a list of events, oldest first.
ProjectEvents(model, events) == FoldLeft(projectEvent, model, events)
=============================================================================
