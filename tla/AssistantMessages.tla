---------------------------- MODULE AssistantMessages ----------------------------
(***************************************************************************)
(* How the answer of the assistant gets from the provider's events into    *)
(* the messages of its thread                                              *)
(* (apps/server/src/orchestration/Layers/ProviderRuntimeIngestion.ts): the *)
(* text of an item comes in deltas, which are dispatched at once or        *)
(* buffered until the item is complete, the agent waits for the user, or   *)
(* the turn ends.  Each wait ends a segment of the item; the next delta    *)
(* opens another message.                                                  *)
(*                                                                         *)
(* One turn, the items of which come one after the other, as the adapters  *)
(* send them.  The ingestion handles one event at a time; a dispatch that  *)
(* fails ends the handling of its event.  A text is the sequence of the    *)
(* numbers of its deltas.                                                  *)
(***************************************************************************)
EXTENDS Naturals, Sequences, SequencesExt, FiniteSets

CONSTANTS
  MaxBuffer,   \* MAX_BUFFERED_ASSISTANT_CHARS, in deltas
  MaxItems, MaxDeltas, MaxPauses, MaxFaults

VARIABLES
  buffered,  \* the delivery mode: ~enableAssistantStreaming
  blank,     \* the deltas that are white space
  turn,      \* "running", "completed" (handled), "failed" (its handling failed), "exited"
  sent,      \* the number of deltas that the provider has sent
  item,      \* the item that is open, or 0: [number, text]
  items,     \* the items that were opened
  pauses,
  faults,
  state      \* what the ingestion keeps, and the thread's messages

vars == <<buffered, blank, turn, sent, item, items, pauses, faults, state>>

NoItem == [number |-> 0, text |-> <<>>]
NoSegment == [number |-> 0, next |-> 0]
NoMessage == <<0, 0>>

(* turnMessageIdsByTurnKey, bufferedAssistantTextByMessageId and           *)
(* assistantSegmentStateByTurnKey of the turn, and the thread's messages   *)
(* in the order of their creation.                                         *)
Init ==
  /\ buffered \in BOOLEAN /\ blank \in SUBSET (1..MaxDeltas)
  /\ turn = "running" /\ sent = 0 /\ item = NoItem /\ items = 0
  /\ pauses = 0 /\ faults = 0
  /\ state = [remembered |-> <<>>, buffer |-> [id \in {} |-> <<>>], active |-> NoMessage,
              segment |-> NoSegment, messages |-> <<>>, failAt |-> 0, failed |-> FALSE]

-----------------------------------------------------------------------------
(* The parts of a handler: operators from a state to the next.  failAt     *)
(* counts the dispatches down to the one that fails.                       *)

(* assistantSegmentMessageId *)
MessageId(number, index) == <<number, index>>

Renderable(text) == \E i \in DOMAIN text : text[i] \notin blank

TextOf(s, id) == IF id \in DOMAIN s.buffer THEN s.buffer[id] ELSE <<>>

WithText(s, id, text) ==
  [s EXCEPT !.buffer = [x \in DOMAIN s.buffer \cup {id} |-> IF x = id THEN text ELSE s.buffer[x]]]

(* Cache.invalidate of the buffered text *)
Cleared(s, id) == [s EXCEPT !.buffer = [x \in DOMAIN s.buffer \ {id} |-> s.buffer[x]]]

IsMessage(messages, id) == \E i \in DOMAIN messages : messages[i].id = id

(* thread.message-sent of the read model: a streamed text is appended, and *)
(* the completion has none.                                                *)
Sent(messages, id, text, streaming) ==
  IF IsMessage(messages, id)
  THEN [i \in DOMAIN messages |->
          IF messages[i].id # id THEN messages[i]
          ELSE [messages[i] EXCEPT !.text = @ \o text, !.streaming = streaming]]
  ELSE Append(messages, [id |-> id, text |-> text, streaming |-> streaming])

Dispatch(s, id, text, streaming) ==
  IF s.failed THEN s
  ELSE IF s.failAt = 1 THEN [s EXCEPT !.failed = TRUE]
  ELSE [s EXCEPT !.messages = Sent(s.messages, id, text, streaming),
                 !.failAt = IF @ = 0 THEN 0 ELSE @ - 1]

Remember(s, id) ==
  IF s.failed \/ Contains(s.remembered, id) THEN s
  ELSE [s EXCEPT !.remembered = Append(@, id)]

Without(ids, id) ==
  IF Contains(ids, id) THEN RemoveAt(ids, CHOOSE i \in DOMAIN ids : ids[i] = id) ELSE ids

Forget(s, id) ==
  IF s.failed THEN s
  ELSE [s EXCEPT !.remembered = Without(@, id)]

(* startAssistantSegmentForTurn *)
WithSegment(s, number) ==
  LET next == IF s.segment.number = number THEN s.segment.next ELSE 0
  IN  [s EXCEPT !.segment = [number |-> number, next |-> next + 1],
                !.active = MessageId(number, next)]

(* getOrCreateAssistantMessageId *)
WithActive(s, number) == IF s.active # NoMessage THEN s ELSE WithSegment(s, number)

(* appendBufferedAssistantText, and the dispatch of what it spills         *)
AppendBuffered(s, id, delta) ==
  LET text == Append(TextOf(s, id), delta)
  IN  IF Len(text) <= MaxBuffer THEN WithText(s, id, text)
      ELSE Dispatch(Cleared(s, id), id, text, TRUE)

(* flushBufferedAssistantMessage *)
Flush(s, id) ==
  IF s.failed \/ ~Renderable(TextOf(s, id)) THEN IF s.failed THEN s ELSE Cleared(s, id)
  ELSE Dispatch(Cleared(s, id), id, TextOf(s, id), TRUE)

(* finalizeAssistantMessage *)
Finalize(s, id, projected, fallback) ==
  LET text == IF TextOf(s, id) # <<>> THEN TextOf(s, id)
              ELSE IF Renderable(fallback) THEN fallback ELSE <<>>
      told == IF Renderable(text) THEN Dispatch(Cleared(s, id), id, text, TRUE) ELSE Cleared(s, id)
  IN  IF s.failed THEN s
      ELSE IF projected \/ Renderable(text) THEN Dispatch(told, id, <<>>, FALSE) ELSE told

(* finalizeActiveAssistantSegmentForTurn *)
FinalizeActive(s, projected) ==
  IF s.failed \/ s.active = NoMessage THEN s
  ELSE LET done == Forget(Finalize(s, s.active, projected, <<>>), s.active)
       IN  IF done.failed THEN done ELSE [done EXCEPT !.active = NoMessage]

(* clearAssistantSegmentStateForTurn *)
WithoutSegment(s) == IF s.failed THEN s ELSE [s EXCEPT !.segment = NoSegment, !.active = NoMessage]

-----------------------------------------------------------------------------
(* The events, and how processRuntimeEvent handles them *)

(* An event is handled from the present state; one of its dispatches may   *)
(* fail, which a warning in the log tells (processInputSafely).            *)
Before == {[state EXCEPT !.failAt = n] : n \in 0..(IF faults < MaxFaults THEN 4 ELSE 0)}

Handled(s) ==
  /\ s.failAt > 0 => s.failed
  /\ faults' = faults + (IF s.failed THEN 1 ELSE 0)
  /\ state' = [s EXCEPT !.failAt = 0, !.failed = FALSE]

Failed == faults' > faults

(* content.delta of the open item, or of the next one *)
OnDelta(s, number, delta) ==
  LET known == WithActive(s, number)
      told == Remember(known, known.active)
  IN  IF buffered THEN AppendBuffered(told, told.active, delta)
      ELSE Dispatch(told, told.active, <<delta>>, TRUE)

ContentDelta ==
  /\ turn = "running" /\ sent < MaxDeltas
  /\ \/ item # NoItem /\ item' = [item EXCEPT !.text = Append(@, sent + 1)] /\ items' = items
     \/ /\ item = NoItem /\ items < MaxItems
        /\ items' = items + 1
        /\ item' = [number |-> items + 1, text |-> <<sent + 1>>]
  /\ sent' = sent + 1
  /\ \E s \in Before : Handled(OnDelta(s, item'.number, sent'))
  /\ UNCHANGED <<turn, pauses>>

(* request.opened and user-input.requested: what is buffered is flushed,   *)
(* and the segment is complete.                                            *)
FlushAll(s) ==
  LET flushed[i \in 0..Len(s.remembered)] ==
        IF i = 0 THEN s ELSE Flush(flushed[i - 1], s.remembered[i])
  IN  flushed[Len(s.remembered)]

OnPause(s) ==
  LET streaming == \E m \in ToSet(s.messages) : m.streaming
      flushes   == Contains(s.remembered, s.active) /\ Renderable(TextOf(s, s.active))
  IN  IF buffered THEN FinalizeActive(FlushAll(s), streaming \/ flushes)
      ELSE FinalizeActive(s, streaming)

Pause ==
  /\ turn = "running" /\ pauses < MaxPauses
  /\ pauses' = pauses + 1
  /\ \E s \in Before : Handled(OnPause(s))
  /\ UNCHANGED <<turn, sent, item, items>>

(* For a mutation: the text of a completion is always taken.               *)
FallbackAlways(old, detail) == detail

(* shouldApplyFallbackCompletionText, of the message as it was before *)
FallbackText(old, detail) == IF \A m \in old : m.text = <<>> THEN detail ELSE <<>>

(* item.completed of an assistant message, with its whole text or without. *)
OnItemCompleted(s, number, detail) ==
  LET id == IF s.active # NoMessage THEN s.active ELSE MessageId(number, 0)
      old == {m \in ToSet(s.messages) : m.id = id}
      fallback == FallbackText(old, detail)
      redundant == s.active = NoMessage /\ s.messages # <<>> /\ ~Renderable(detail)
      known == IF s.active = NoMessage THEN Remember(s, id) ELSE s
  IN  WithoutSegment(IF redundant THEN s ELSE Forget(Finalize(known, id, old # {}, fallback), id))

ItemCompleted ==
  /\ turn = "running" /\ item # NoItem
  /\ \E s \in Before, detail \in {<<>>, item.text} :
       Handled(OnItemCompleted(s, item.number, detail))
  /\ item' = NoItem
  /\ UNCHANGED <<turn, sent, items, pauses>>

(* An item of which no delta came. *)
WholeItemCompleted ==
  /\ turn = "running" /\ item = NoItem /\ items < MaxItems /\ sent < MaxDeltas
  /\ items' = items + 1 /\ sent' = sent + 1
  /\ \E s \in Before : Handled(OnItemCompleted(s, items', <<sent'>>))
  /\ UNCHANGED <<turn, item, pauses>>

(* turn.completed, first its session update: the messages that are still   *)
(* remembered are complete.                                                *)
SessionSet(s) ==
  IF s.failAt = 1 THEN [s EXCEPT !.failed = TRUE]
  ELSE [s EXCEPT !.failAt = IF @ = 0 THEN 0 ELSE @ - 1]

FinalizeAll(s, known, ids) ==
  LET done[i \in 0..Len(ids)] ==
        IF i = 0 THEN s ELSE Finalize(done[i - 1], ids[i], IsMessage(known, ids[i]), <<>>)
  IN  done[Len(ids)]

OnTurnCompleted(s) ==
  LET done == FinalizeAll(SessionSet(s), s.messages, s.remembered)
  IN  IF done.failed THEN done ELSE [WithoutSegment(done) EXCEPT !.remembered = <<>>]

TurnCompleted ==
  /\ turn = "running"
  /\ \E s \in Before : Handled(OnTurnCompleted(s))
  /\ turn' = IF Failed THEN "failed" ELSE "completed"
  /\ UNCHANGED <<sent, item, items, pauses>>

(* clearTurnStateForSession *)
OnSessionExited(s) ==
  LET told == SessionSet(s)
  IN  IF told.failed THEN told
      ELSE [told EXCEPT !.remembered = <<>>, !.segment = NoSegment, !.active = NoMessage,
              !.buffer = [x \in DOMAIN s.buffer \ ToSet(s.remembered) |-> s.buffer[x]]]

SessionExited ==
  /\ turn # "exited"
  /\ \E s \in Before : Handled(OnSessionExited(s))
  /\ turn' = "exited"
  /\ UNCHANGED <<sent, item, items, pauses>>

Next ==
  /\ UNCHANGED <<buffered, blank>>
  /\ \/ ContentDelta \/ Pause \/ ItemCompleted \/ WholeItemCompleted
     \/ TurnCompleted \/ SessionExited

Spec == Init /\ [][Next]_vars

-----------------------------------------------------------------------------
(* Properties *)

TypeOK ==
  /\ turn \in {"running", "completed", "failed", "exited"}
  /\ sent \in 0..MaxDeltas /\ items \in 0..MaxItems
  /\ pauses \in 0..MaxPauses /\ faults \in 0..MaxFaults
  /\ \A i \in DOMAIN state.messages : ToSet(state.messages[i].text) \subseteq 1..sent
  /\ \A i, j \in DOMAIN state.messages : state.messages[i].id = state.messages[j].id => i = j
  /\ \A id \in DOMAIN state.buffer : Len(state.buffer[id]) \in 1..MaxBuffer

(* What the thread shows or will show, message by message.                *)
Texts ==
  Append([i \in DOMAIN state.messages |-> state.messages[i].text],
         IF state.active = NoMessage THEN <<>> ELSE TextOf(state, state.active))

(* Nothing of the answer is lost, repeated or out of order, wherever the   *)
(* agent waits for the user: the messages, and what is buffered for the    *)
(* last of them, have each visible delta that the provider sent, in the    *)
(* order in which it was sent (processRuntimeEvent, content.delta to       *)
(* item.completed).                                                        *)
WholeAnswer ==
  turn # "exited" =>
    /\ \A delta \in 1..sent \ blank : \E i \in DOMAIN Texts : Contains(Texts[i], delta)
    /\ \A i, j \in DOMAIN Texts : \A k \in DOMAIN Texts[i], l \in DOMAIN Texts[j] :
         i < j \/ (i = j /\ k < l) => Texts[i][k] < Texts[j][l]

(* Only the message of the open segment streams.                           *)
OnlyActiveStreams ==
  turn # "exited" =>
    \A m \in ToSet(state.messages) : m.streaming => m.id = state.active

(* All of this as long as no dispatch failed; and of an item that begins   *)
(* with white space, a buffer keeps the answer only over one wait.         *)
NothingLost == faults = 0 /\ (buffered /\ blank # {} => pauses < 2) => WholeAnswer

(* Whatever dispatch fails: text is buffered only for messages that the    *)
(* end of the turn or of the session will find, and after a turn whose end *)
(* was handled nothing is buffered and no message streams (turn.completed).*)
NothingPending ==
  /\ DOMAIN state.buffer \subseteq ToSet(state.remembered)
  /\ turn = "completed" =>
       /\ state.remembered = <<>> /\ state.active = NoMessage
       /\ \A i \in DOMAIN state.messages : ~state.messages[i].streaming
=============================================================================
