----------------------------- MODULE Checkpointing -----------------------------
(***************************************************************************)
(* The checkpoint reactor (orchestration/Layers/CheckpointReactor.ts) and  *)
(* the checkpoint store (checkpointing/Layers/CheckpointStore.ts) for one  *)
(* thread: what a turn leaves in the workspace is captured in a git ref    *)
(* and shown as a checkpoint, and a revert restores the files, rolls the   *)
(* provider back, deletes refs and cuts the thread, each in a step that    *)
(* may fail and that the provider, the ingestion and the user interleave   *)
(* with.  The content of the workspace is a number, a new one per edit.    *)
(***************************************************************************)
EXTENDS Integers, Sequences, FiniteSets, FiniteSetsExt

CONSTANTS
  MaxTurns, MaxEdits, MaxReverts, MaxFaults,
  None

VARIABLES
  diffs,         \* whether the provider reports the diff of a running turn (Codex does)
  patient,       \* whether the user waits until all of the server's work is done
  files,         \* the content of the workspace
  edits,         \* how many contents there were
  refs,          \* the git refs: turn count -> the content that it holds
  checkpoints,   \* the thread's checkpoints in the read model
  session,       \* the active turn of the thread's session in the read model
  shown,         \* the turns that the thread shows
  turns,         \* how many turns were asked for
  running,       \* the turn that the provider works on, or None
  conversation,  \* the completed turns that the provider remembers
  events,        \* runtime events that are not yet ingested
  placeholder,   \* the placeholder that the ingestion is about to dispatch, or None
  inputs,        \* the queue of the reactor
  reactor,       \* what the reactor is doing
  reverts,       \* what became of each request to revert
  faults,        \* how many steps failed
  ends           \* turn -> the content of the workspace when the turn ended

readModel == <<checkpoints, session, shown>>
provider  == <<turns, running, conversation, ends>>
ingestion == <<events, placeholder>>
vars == <<files, edits, refs, readModel, provider, ingestion, inputs, reactor, reverts, faults>>
assumed == <<diffs, patient>>

Turn  == 1..MaxTurns
Count == Nat
Content == 0..MaxEdits
(* A checkpoint is captured unless its status is missing; git says whether *)
(* its ref is the git ref of its count.                                    *)
Checkpoint == [turn : Turn, count : Count, captured : BOOLEAN, git : BOOLEAN]

Input == [type : {"start"}] \cup [type : {"completed"}, turn : Turn, cut : BOOLEAN]
         \cup [type : {"placeholder"}, turn : Turn, count : Count]
         \cup [type : {"revert"}, count : Count, id : 1..MaxReverts]

Idle == [pc |-> "idle"]
Work ==
       {Idle}
  \cup [pc : {"baseline"}, count : Count]
  \cup [pc : {"capture", "dispatch"}, turn : Turn, count : Count, cut : BOOLEAN]
  \cup [pc : {"restore", "rollback", "delete", "complete"}, id : 1..MaxReverts,
        count : Count, current : Count, target : Count \cup {None}, stale : SUBSET Count]

TypeOK ==
  /\ diffs \in BOOLEAN /\ patient \in BOOLEAN
  /\ files \in Content /\ edits \in Content
  /\ DOMAIN refs \subseteq Count /\ refs \in [DOMAIN refs -> Content]
  /\ checkpoints \subseteq Checkpoint
  /\ session \in Turn \cup {None}
  /\ shown \subseteq Turn
  /\ turns \in 0..MaxTurns
  /\ running \in Turn \cup {None}
  /\ conversation \in Seq(Turn)
  /\ events \in Seq([type : {"started", "diff", "completed"}, turn : Turn])
  /\ placeholder \in [turn : Turn, count : Count] \cup {None}
  /\ inputs \in Seq(Input)
  /\ reactor \in Work
  /\ reverts \in [1..MaxReverts -> {"none", "requested", "reverted", "failed"}]
  /\ faults \in 0..MaxFaults
  /\ ends \in [Turn -> Content \cup {None}]

Init ==
  /\ diffs \in BOOLEAN /\ patient \in BOOLEAN
  /\ files = 0 /\ edits = 0
  /\ refs = [c \in {} |-> 0]
  /\ checkpoints = {} /\ session = None /\ shown = {}
  /\ turns = 0 /\ running = None /\ conversation = <<>>
  /\ events = <<>> /\ placeholder = None
  /\ inputs = <<>> /\ reactor = Idle
  /\ reverts = [r \in 1..MaxReverts |-> "none"]
  /\ faults = 0
  /\ ends = [t \in Turn |-> None]

CurrentTurnCount == Max({0} \cup {c.count : c \in checkpoints})

(* Everything that was asked of the server is done. *)
Settled ==
  /\ running = None /\ session = None
  /\ events = <<>> /\ placeholder = None /\ inputs = <<>> /\ reactor = Idle
  /\ turns = Cardinality({t \in Turn : ends[t] # None})

Fault == faults < MaxFaults /\ faults' = faults + 1

-----------------------------------------------------------------------------
(* The user: a turn (its message and its request are the two inputs of the *)
(* reactor that are handled alike), an edit of the workspace by hand, and  *)
(* a revert, which the client offers while the session is not running, to  *)
(* the checkpoint before one that it shows.                                *)

AskTurn ==
  /\ turns < MaxTurns
  /\ IF patient THEN Settled
     ELSE session = None /\ turns = Cardinality({t \in Turn : ends[t] # None})
  /\ turns' = turns + 1
  /\ inputs' = Append(inputs, [type |-> "start"])
  /\ UNCHANGED <<files, edits, refs, readModel, running, conversation, ends, ingestion,
                 reactor, reverts, faults>>

EditByHand ==
  /\ edits < MaxEdits /\ Settled
  /\ edits' = edits + 1 /\ files' = edits'
  /\ UNCHANGED <<refs, readModel, provider, ingestion, inputs, reactor, reverts, faults>>

AskRevert(id) ==
  /\ reverts[id] = "none" /\ \A r \in 1..(id - 1) : reverts[r] # "none"
  /\ IF patient THEN Settled ELSE session = None
  /\ \E c \in checkpoints :
       inputs' = Append(inputs, [type |-> "revert", count |-> Max({0, c.count - 1}), id |-> id])
  /\ reverts' = [reverts EXCEPT ![id] = "requested"]
  /\ UNCHANGED <<files, edits, refs, readModel, provider, ingestion, reactor, faults>>

-----------------------------------------------------------------------------
(* The provider *)

TurnStarts ==
  /\ running = None /\ turns > 0 /\ ends[turns] = None
  /\ running' = turns
  /\ events' = Append(events, [type |-> "started", turn |-> turns])
  /\ inputs' = Append(inputs, [type |-> "start"])
  /\ shown' = shown \cup {turns}
  /\ UNCHANGED <<files, edits, refs, checkpoints, session, turns, conversation, ends,
                 placeholder, reactor, reverts, faults>>

TurnEdits ==
  /\ running # None /\ edits < MaxEdits
  /\ edits' = edits + 1 /\ files' = edits'
  /\ events' = IF diffs THEN Append(events, [type |-> "diff", turn |-> running]) ELSE events
  /\ UNCHANGED <<refs, readModel, provider, placeholder, inputs, reactor, reverts, faults>>

(* A turn ends by itself, or is cut: interrupted or cancelled. *)
TurnCompletes ==
  /\ running # None
  /\ running' = None
  /\ conversation' = Append(conversation, running)
  /\ ends' = [ends EXCEPT ![running] = files]
  /\ events' = Append(events, [type |-> "completed", turn |-> running])
  /\ \E cut \in BOOLEAN :
       inputs' = Append(inputs, [type |-> "completed", turn |-> running, cut |-> cut])
  /\ UNCHANGED <<files, edits, refs, readModel, turns, placeholder, reactor, reverts, faults>>

-----------------------------------------------------------------------------
(* The runtime ingestion: a diff of a turn without a checkpoint becomes a  *)
(* placeholder, which is decided on before it is dispatched.               *)

Ingest ==
  /\ events # <<>> /\ placeholder = None
  /\ events' = Tail(events)
  /\ LET event == Head(events) IN
     \/ /\ event.type = "started"
        /\ session' = event.turn /\ UNCHANGED placeholder
     \/ /\ event.type = "completed"
        /\ session' = IF session = event.turn THEN None ELSE session
        /\ UNCHANGED placeholder
     \/ /\ event.type = "diff"
        /\ placeholder' = IF \E c \in checkpoints : c.turn = event.turn THEN None
                          ELSE [turn |-> event.turn, count |-> CurrentTurnCount + 1]
        /\ UNCHANGED session
  /\ UNCHANGED <<files, edits, refs, checkpoints, shown, provider, inputs, reactor, reverts, faults>>

(* thread.turn-diff-completed in the read model: a placeholder does not    *)
(* replace a captured checkpoint.                                          *)
WithCheckpoint(checkpoint) ==
  IF ~checkpoint.captured /\ \E c \in checkpoints : c.turn = checkpoint.turn /\ c.captured
  THEN checkpoints
  ELSE {c \in checkpoints : c.turn # checkpoint.turn} \cup {checkpoint}

DispatchPlaceholder ==
  /\ placeholder # None
  /\ checkpoints' = WithCheckpoint([turn |-> placeholder.turn, count |-> placeholder.count,
                                    captured |-> FALSE, git |-> FALSE])
  /\ shown' = shown \cup {placeholder.turn}
  /\ inputs' = Append(inputs, [type |-> "placeholder", turn |-> placeholder.turn,
                               count |-> placeholder.count])
  /\ placeholder' = None
  /\ UNCHANGED <<files, edits, refs, session, provider, events, reactor, reverts, faults>>

-----------------------------------------------------------------------------
(* The reactor takes its inputs one at a time. *)

Captured(turn) == \E c \in checkpoints : c.turn = turn /\ c.captured

HasRef(count) == count \in DOMAIN refs
WithRef(count) == [c \in DOMAIN refs \cup {count} |-> IF c = count THEN files ELSE refs[c]]
WithoutRefs(counts) == [c \in DOMAIN refs \ counts |-> refs[c]]

(* For a mutation: a baseline is captured for every turn. *)
TakeStartAlways(input) ==
  /\ input.type = "start"
  /\ reactor' = [pc |-> "baseline", count |-> CurrentTurnCount]
  /\ UNCHANGED <<reverts, faults>>

(* ensurePreTurnBaseline...: the ref of the current count must exist. *)
TakeStart(input) ==
  /\ input.type = "start"
  /\ reactor' = IF ~HasRef(CurrentTurnCount)
                THEN [pc |-> "baseline", count |-> CurrentTurnCount] ELSE Idle
  /\ UNCHANGED <<reverts, faults>>

(* The count of a placeholder is used for the capture. *)
NextTurnCount(turn) ==
  IF \E c \in checkpoints : c.turn = turn
  THEN (CHOOSE c \in checkpoints : c.turn = turn).count
  ELSE CurrentTurnCount + 1

(* captureCheckpointFromTurnCompletion *)
TakeCompleted(input) ==
  /\ input.type = "completed"
  /\ reactor' = IF session \notin {None, input.turn} \/ Captured(input.turn) THEN Idle
                ELSE [pc |-> "capture", turn |-> input.turn, count |-> NextTurnCount(input.turn),
                      cut |-> input.cut]
  /\ UNCHANGED <<reverts, faults>>

(* captureCheckpointFromPlaceholder *)
TakePlaceholder(input) ==
  /\ input.type = "placeholder"
  /\ reactor' = IF Captured(input.turn) THEN Idle
                ELSE [pc |-> "capture", turn |-> input.turn, count |-> input.count, cut |-> FALSE]
  /\ UNCHANGED <<reverts, faults>>

Answer(id, outcome) == reverts' = [reverts EXCEPT ![id] = outcome]

(* handleRevertRequested, up to the restore: it is refused if the session  *)
(* has gone, or if the count has no checkpoint (any longer).               *)
TakeRevert(input) ==
  /\ input.type = "revert"
  /\ \/ /\ Answer(input.id, "failed") /\ Fault
        /\ reactor' = Idle
     \/ /\ input.count # 0 /\ ~\E c \in checkpoints : c.count = input.count
        /\ Answer(input.id, "failed") /\ UNCHANGED faults
        /\ reactor' = Idle
     \/ /\ input.count = 0 \/ \E c \in checkpoints : c.count = input.count
        /\ reactor' =
             [pc |-> "restore", id |-> input.id,
              count   |-> input.count,
              current |-> CurrentTurnCount,
              target  |-> IF input.count = 0 \/ \E c \in checkpoints :
                                                  c.count = input.count /\ c.git
                          THEN input.count ELSE None,
              stale   |-> {c.count : c \in {d \in checkpoints :
                                              d.count > input.count /\ d.git}}]
        /\ UNCHANGED <<reverts, faults>>

TakeInput ==
  /\ reactor = Idle /\ inputs # <<>>
  /\ inputs' = Tail(inputs)
  /\ LET input == Head(inputs) IN
       TakeStart(input) \/ TakeCompleted(input) \/ TakePlaceholder(input) \/ TakeRevert(input)
  /\ UNCHANGED <<files, edits, refs, readModel, provider, ingestion>>

(* captureCheckpoint for a baseline.  A failure is logged. *)
CaptureBaseline ==
  /\ reactor.pc = "baseline"
  /\ \/ refs' = WithRef(reactor.count) /\ UNCHANGED faults
     \/ UNCHANGED refs /\ Fault
  /\ reactor' = Idle
  /\ UNCHANGED <<files, edits, readModel, provider, ingestion, inputs, reverts>>

(* captureAndDispatchCheckpoint: the ref, and then the checkpoint.  A      *)
(* failure is shown as an activity.                                        *)
Capture ==
  /\ reactor.pc = "capture"
  /\ \/ /\ refs' = WithRef(reactor.count)
        /\ reactor' = [reactor EXCEPT !.pc = "dispatch"]
        /\ UNCHANGED faults
     \/ UNCHANGED refs /\ Fault /\ reactor' = Idle
  /\ UNCHANGED <<files, edits, readModel, provider, ingestion, inputs, reverts>>

(* checkpointStatusFromRuntime: the checkpoint of a turn that was cut is   *)
(* missing, and thereby comes back to the reactor as a placeholder, which  *)
(* is captured once more.                                                  *)
DispatchCapture ==
  /\ reactor.pc = "dispatch"
  /\ \/ /\ checkpoints' = WithCheckpoint([turn |-> reactor.turn, count |-> reactor.count,
                                          captured |-> ~reactor.cut, git |-> TRUE])
        /\ shown' = shown \cup {reactor.turn}
        /\ inputs' = IF reactor.cut
                     THEN Append(inputs, [type |-> "placeholder", turn |-> reactor.turn,
                                          count |-> reactor.count])
                     ELSE inputs
        /\ UNCHANGED faults
     \/ UNCHANGED <<checkpoints, shown, inputs>> /\ Fault
  /\ reactor' = Idle
  /\ UNCHANGED <<files, edits, refs, session, provider, ingestion, reverts>>

-----------------------------------------------------------------------------
(* The steps of a revert *)

GiveUp == reactor' = Idle /\ Answer(reactor.id, "failed")

(* For a mutation: a checkpoint without a ref ends the revert in silence. *)
RestoreOrDrop ==
  /\ reactor.pc = "restore"
  /\ LET commit == IF reactor.target # None /\ HasRef(reactor.target)
                   THEN refs[reactor.target] ELSE None
     IN \/ /\ commit = None
           /\ reactor' = Idle /\ UNCHANGED <<reverts, files>>
        \/ /\ commit # None
           /\ files' = commit
           /\ reactor' = [reactor EXCEPT !.pc = "rollback"]
           /\ UNCHANGED reverts
  /\ UNCHANGED <<edits, refs, readModel, provider, ingestion, inputs, faults>>

(* restoreCheckpoint: without its ref, count 0 is restored from HEAD. *)
Restore ==
  /\ reactor.pc = "restore"
  /\ LET commit == IF reactor.target # None /\ HasRef(reactor.target)
                   THEN refs[reactor.target]
                   ELSE IF reactor.count = 0 THEN 0 ELSE None
     IN \/ /\ commit = None
           /\ GiveUp /\ UNCHANGED <<files, faults>>
        \/ /\ commit # None
           /\ files' = commit
           /\ reactor' = [reactor EXCEPT !.pc =
                            IF reactor.current > reactor.count THEN "rollback" ELSE "delete"]
           /\ UNCHANGED <<reverts, faults>>
        \/ /\ commit # None /\ Fault
           /\ files' \in {files, commit}
           /\ GiveUp
  /\ UNCHANGED <<edits, refs, readModel, provider, ingestion, inputs>>

(* For a mutation: the provider keeps as many turns as are discarded. *)
RollbackSwapped ==
  /\ reactor.pc = "rollback"
  /\ conversation' = SubSeq(conversation, 1, reactor.current - reactor.count)
  /\ reactor' = [reactor EXCEPT !.pc = "delete"]
  /\ UNCHANGED <<reverts, faults, files, edits, refs, readModel, turns, running, ends,
                 ingestion, inputs>>

(* rollbackConversation: the last turns, as many as there are checkpoints  *)
(* to discard.  Codex refuses it while a turn runs.                        *)
Rollback ==
  /\ reactor.pc = "rollback"
  /\ \/ /\ running = None \/ ~diffs
        /\ conversation' = SubSeq(conversation, 1,
                             Max({0, Len(conversation) - (reactor.current - reactor.count)}))
        /\ reactor' = [reactor EXCEPT !.pc = "delete"]
        /\ UNCHANGED <<reverts, faults>>
     \/ /\ running # None /\ diffs
        /\ GiveUp /\ UNCHANGED <<conversation, faults>>
     \/ GiveUp /\ Fault /\ UNCHANGED conversation
  /\ UNCHANGED <<files, edits, refs, readModel, turns, running, ends, ingestion, inputs>>

(* deleteCheckpointRefs.  The ref of a placeholder is not a git ref. *)
DeleteRefs ==
  /\ reactor.pc = "delete"
  /\ \/ /\ refs' = WithoutRefs(reactor.stale)
        /\ reactor' = [reactor EXCEPT !.pc = "complete"]
        /\ UNCHANGED <<reverts, faults>>
     \/ /\ \E gone \in SUBSET reactor.stale : refs' = WithoutRefs(gone)
        /\ GiveUp /\ Fault
  /\ UNCHANGED <<files, edits, readModel, provider, ingestion, inputs>>

(* thread.revert.complete *)
CompleteRevert ==
  /\ reactor.pc = "complete"
  /\ \/ /\ checkpoints' = {c \in checkpoints : c.count <= reactor.count}
        /\ shown' = {c.turn : c \in checkpoints'}
        /\ Answer(reactor.id, "reverted") /\ reactor' = Idle
        /\ UNCHANGED faults
     \/ GiveUp /\ Fault /\ UNCHANGED <<checkpoints, shown>>
  /\ UNCHANGED <<files, edits, refs, session, provider, ingestion, inputs>>

-----------------------------------------------------------------------------
Reactor ==
  TakeInput \/ CaptureBaseline \/ Capture \/ DispatchCapture
  \/ Restore \/ Rollback \/ DeleteRefs \/ CompleteRevert

Next ==
  /\ UNCHANGED assumed
  /\ \/ AskTurn \/ EditByHand \/ \E id \in 1..MaxReverts : AskRevert(id)
     \/ TurnStarts \/ TurnEdits \/ TurnCompletes
     \/ Ingest \/ DispatchPlaceholder
     \/ TakeInput \/ CaptureBaseline \/ Capture \/ DispatchCapture
     \/ Restore \/ Rollback \/ DeleteRefs \/ CompleteRevert

Spec == Init /\ [][Next]_vars

(* The reactor's worker goes on; users and the provider owe it nothing. *)
Fairness == WF_vars(Reactor)

-----------------------------------------------------------------------------
(* Properties *)

(* Each request to revert is carried out or reported as failed, whichever  *)
(* step fails and whatever waits before it (processInputSafely).           *)
EveryRevertIsAnswered ==
  \A id \in 1..MaxReverts : reverts[id] = "requested" ~> reverts[id] \in {"reverted", "failed"}

(* When all is quiet, a checkpoint that names a git ref has it, so that    *)
(* the thread can be reverted to it.                                       *)
CapturedIsRestorable == Settled => \A c \in checkpoints : c.git => HasRef(c.count)

(* When all is quiet, no checkpoint is a placeholder any longer            *)
(* (captureCheckpointFromPlaceholder).                                     *)
PlaceholdersAreReplaced == Settled => \A c \in checkpoints : c.captured

(* No two turns of a thread have the same turn count, and thereby the same *)
(* git ref (checkpointRefForThreadTurn).                                   *)
CountsAreUnique == \A c, d \in checkpoints : c.count = d.count => c = d

(* When all is quiet, the provider remembers just the turns that the       *)
(* thread shows (rollbackConversation).                                    *)
ProviderForgetsTheSame == Settled => shown = {conversation[i] : i \in 1..Len(conversation)}

(* When all is quiet, the ref of a captured checkpoint holds the workspace *)
(* as its turn left it (captureCheckpointFromTurnCompletion).              *)
CheckpointIsTurnEnd ==
  Settled => \A c \in checkpoints : c.captured => refs[c.count] = ends[c.turn]

(* As long as no step has failed, checkpoints can be reverted to; with a   *)
(* user who waits, they are also captured and those of the conversation,   *)
(* and without diffs, which capture a turn that runs, those of the ends of *)
(* turns.                                                                  *)
CheckpointsAreTrue ==
  /\ TypeOK
  /\ faults = 0 => CapturedIsRestorable
  /\ faults = 0 /\ patient =>
       CountsAreUnique /\ ProviderForgetsTheSame /\ PlaceholdersAreReplaced
  /\ faults = 0 /\ patient /\ ~diffs => CheckpointIsTurnEnd

(* A completed revert leaves the workspace as the last turn that it keeps  *)
(* left it (restoreCheckpoint), with a user who waits and no failure.      *)
RevertedRestores ==
  \A id \in 1..MaxReverts : reverts[id] = "requested" /\ reverts'[id] = "reverted" =>
    \A c \in checkpoints' : c.count = reactor.count => files = ends[c.turn]
RevertRestores == [][faults = 0 /\ patient /\ ~diffs => RevertedRestores]_vars
=============================================================================
