------------------------------ MODULE ShellSync ------------------------------
(***************************************************************************)
(* The list of threads that a client shows (apps/server/src/ws.ts,         *)
(* subscribeShell; apps/web/src/rpc/wsTransport.ts, subscribe;             *)
(* apps/web/src/environments/runtime/service.ts, syncShellSnapshot and     *)
(* applyShellEvent).                                                       *)
(*                                                                         *)
(* The engine commits events and publishes them later, one by one.  A      *)
(* subscription first reads all rows, sends them as a snapshot, and only   *)
(* when the client has taken it joins the publication; for each event it   *)
(* then reads the row of the event's thread as it is at that moment.  The  *)
(* client drops what is not newer than what it applied last.               *)
(*                                                                         *)
(* The version of a row is the sequence of the last event of its thread.   *)
(***************************************************************************)
EXTENDS Integers, Sequences

CONSTANTS
  Thread,
  Time,       \* occurredAt of an event: any clock, that of a client as well
  MaxEvents,  \* bound: events
  MaxDrops,   \* bound: connections that break, with or without the server
  MaxFaults   \* bound: reads that fail

VARIABLES
  log,          \* orchestration_events: sequence -> [thread, deleted, time]
  version,      \* the rows: thread -> its version, 0 before it is created
  deletedAt,    \* thread -> the version that deleted it, 0 while it exists
  published,    \* the events the engine has given to eventPubSub
  stage,        \* of the subscription: "none", "snapshot", "live", "ended"
  snapshot,     \* the snapshot under way
  inbox,        \* the subscriber's queue of the PubSub: sequences
  wire,         \* items sent and not yet handled by the client
  shown,        \* the client's store: thread -> version, 0 if not there
  removed,      \* thread -> whether the client took it away
  lastApplied,  \* lastAppliedProjectionVersion; sequence -1 for null
  missed,       \* (history) events that no item and no snapshot brought
  drops, faults

server == << log, version, deletedAt, published >>
connection == << stage, snapshot, inbox, wire >>
client == << shown, removed, lastApplied >>
vars == << server, connection, client, missed, drops, faults >>

NoSnapshot == [sequence |-> 0, updatedAt |-> 0, rows |-> [t \in Thread |-> 0]]

Init ==
  /\ log = << >>
  /\ version = [t \in Thread |-> 0]
  /\ deletedAt = [t \in Thread |-> 0]
  /\ published = 0
  /\ stage = "none"
  /\ snapshot = NoSnapshot
  /\ inbox = << >>
  /\ wire = << >>
  /\ shown = [t \in Thread |-> 0]
  /\ removed = [t \in Thread |-> FALSE]
  /\ lastApplied = [sequence |-> -1, updatedAt |-> 0]
  /\ missed = {}
  /\ drops = 0
  /\ faults = 0

-----------------------------------------------------------------------------
(* The server.                                                             *)

\* An event of thread t: events and rows are committed together.  Events of a
\* deleted thread are possible (requireThread accepts it).
Commit(t, deleted, time) ==
  /\ Len(log) < MaxEvents
  /\ deleted => version[t] > 0
  /\ log' = Append(log, [thread |-> t, deleted |-> deleted, time |-> time])
  /\ version' = [version EXCEPT ![t] = Len(log) + 1]
  /\ deletedAt' = [deletedAt EXCEPT ![t] = IF deleted THEN Len(log) + 1 ELSE @]
  /\ UNCHANGED << published, connection, client, missed, drops, faults >>

\* PubSub.publish: an event reaches the subscribers of this moment.
Publish ==
  /\ published < Len(log)
  /\ published' = published + 1
  /\ inbox' = IF stage = "live" THEN Append(inbox, published + 1) ELSE inbox
  /\ missed' = IF stage = "snapshot" /\ published + 1 > snapshot.sequence
               THEN missed \cup {published + 1} ELSE missed
  /\ UNCHANGED << log, version, deletedAt, stage, snapshot, wire, client, drops, faults >>

\* getShellSnapshot: one transaction; the rows that are not deleted, and the
\* latest of all times in them.
ShellRows == [t \in Thread |-> IF deletedAt[t] = 0 THEN version[t] ELSE 0]
UpdatedAt ==
  LET times == {log[version[t]].time : t \in {u \in Thread : version[u] > 0}}
  IN  IF times = {} THEN 0 ELSE CHOOSE m \in times : \A x \in times : x <= m

\* The subscription loop calls subscribeShell on the session it has.
Subscribe ==
  /\ stage = "none"
  /\ stage' = "snapshot"
  /\ snapshot' = [sequence |-> Len(log), updatedAt |-> UpdatedAt, rows |-> ShellRows]
  /\ UNCHANGED << server, inbox, wire, client, missed, drops, faults >>

\* "Failed to load orchestration shell snapshot" is no transport error: the
\* loop returns.
SubscribeFails ==
  /\ stage = "none"
  /\ faults < MaxFaults
  /\ faults' = faults + 1
  /\ stage' = "ended"
  /\ UNCHANGED << server, snapshot, inbox, wire, client, missed, drops >>

\* toShellStreamEvent: the row of the event's thread, with the event's sequence.
Item(s) ==
  LET t == log[s].thread
  IN  [sequence |-> s, thread |-> t, removes |-> log[s].deleted,
       row |-> IF log[s].deleted \/ deletedAt[t] > 0 THEN 0 ELSE version[t]]

Deliver ==
  /\ inbox # << >>
  /\ inbox' = Tail(inbox)
  /\ LET item == Item(Head(inbox))
     IN  wire' = IF item.removes \/ item.row > 0 THEN Append(wire, item) ELSE wire
  /\ UNCHANGED << server, stage, snapshot, client, missed, drops, faults >>

\* Effect.catch(() => Effect.succeed(Option.none())): an event whose row cannot
\* be read is left out.
DeliverFails ==
  /\ inbox # << >>
  /\ ~log[Head(inbox)].deleted
  /\ faults < MaxFaults
  /\ faults' = faults + 1
  /\ inbox' = Tail(inbox)
  /\ missed' = missed \cup {Head(inbox)}
  /\ UNCHANGED << server, stage, snapshot, wire, client, drops >>

\* The connection breaks, or the server stops: then what the engine had not
\* published is never published.  The loop waits and subscribes again.
Break(stops) ==
  /\ stage \in {"snapshot", "live"}
  /\ drops < MaxDrops
  /\ drops' = drops + 1
  /\ stage' = "none"
  /\ inbox' = << >>
  /\ wire' = << >>
  /\ published' = IF stops THEN Len(log) ELSE published
  /\ UNCHANGED << log, version, deletedAt, snapshot, client, missed, faults >>

-----------------------------------------------------------------------------
(* The client.                                                             *)

\* For a mutation: only the times are compared.
NewerTime(s) == s.updatedAt > lastApplied.updatedAt \/ lastApplied.sequence = -1
shouldApplyProjectionSnapshot(s) ==
  \/ s.sequence > lastApplied.sequence
  \/ s.sequence = lastApplied.sequence /\ s.updatedAt > lastApplied.updatedAt

shouldApplyProjectionEvent(sequence) == sequence > lastApplied.sequence

\* The store holds the snapshot's threads and no other.
syncServerShellSnapshot(s) ==
  /\ shown' = s.rows
  /\ removed' = [t \in Thread |-> s.rows[t] = 0 /\ (removed[t] \/ shown[t] > 0)]

\* thread-upserted, thread-removed
applyEnvironmentShellEvent(item) ==
  /\ shown' = [shown EXCEPT ![item.thread] = IF item.removes THEN 0 ELSE item.row]
  /\ removed' = [removed EXCEPT ![item.thread] = item.removes]

\* For a mutation: a snapshot that is not applied counts as applied.
TakeAnyway ==
  /\ stage = "snapshot"
  /\ stage' = "live"
  /\ lastApplied' = [sequence |-> snapshot.sequence, updatedAt |-> snapshot.updatedAt]
  /\ missed' = {e \in missed : e > snapshot.sequence}
  /\ UNCHANGED << server, snapshot, inbox, wire, shown, removed, drops, faults >>
\* syncShellSnapshot; then the subscription's stream goes on with the publication.
TakeSnapshot ==
  /\ stage = "snapshot"
  /\ stage' = "live"
  /\ IF shouldApplyProjectionSnapshot(snapshot)
     THEN /\ syncServerShellSnapshot(snapshot)
          /\ lastApplied' = [sequence |-> snapshot.sequence, updatedAt |-> snapshot.updatedAt]
          /\ missed' = {e \in missed : e > snapshot.sequence}
     ELSE UNCHANGED << client, missed >>
  /\ UNCHANGED << server, snapshot, inbox, wire, drops, faults >>

\* applyShellEvent
TakeItem ==
  /\ wire # << >>
  /\ wire' = Tail(wire)
  /\ LET item == Head(wire)
     IN  IF shouldApplyProjectionEvent(item.sequence)
         THEN /\ applyEnvironmentShellEvent(item)
              /\ lastApplied' = [lastApplied EXCEPT !.sequence = item.sequence]
         ELSE UNCHANGED client
  /\ UNCHANGED << server, stage, snapshot, inbox, missed, drops, faults >>

Next ==
  \/ \E t \in Thread, deleted \in BOOLEAN, time \in Time : Commit(t, deleted, time)
  \/ Publish
  \/ Subscribe \/ SubscribeFails \/ Deliver \/ DeliverFails
  \/ \E stops \in BOOLEAN : Break(stops)
  \/ TakeSnapshot \/ TakeItem

Spec == Init /\ [][Next]_vars

\* The engine publishes, the transport retries and delivers, the client handles.
Fairness ==
  /\ WF_vars(Publish)
  /\ WF_vars(Subscribe)
  /\ WF_vars(Deliver)
  /\ WF_vars(TakeSnapshot)
  /\ WF_vars(TakeItem)

-----------------------------------------------------------------------------
\* Types of the state.
TypeOK ==
  /\ log \in Seq([thread : Thread, deleted : BOOLEAN, time : Time])
  /\ version \in [Thread -> 0..Len(log)]
  /\ deletedAt \in [Thread -> 0..Len(log)]
  /\ published \in 0..Len(log)
  /\ stage \in {"none", "snapshot", "live", "ended"}
  /\ snapshot \in [sequence : 0..Len(log), updatedAt : Nat, rows : [Thread -> 0..Len(log)]]
  /\ inbox \in Seq(1..published)
  /\ wire \in Seq([sequence : 1..published, thread : Thread, removes : BOOLEAN, row : 0..Len(log)])
  /\ shown \in [Thread -> 0..Len(log)]
  /\ removed \in [Thread -> BOOLEAN]
  /\ lastApplied \in [sequence : -1..Len(log), updatedAt : Nat]
  /\ missed \subseteq 1..Len(log)
  /\ drops \in 0..MaxDrops
  /\ faults \in 0..MaxFaults

\* The sequence that the client compares with tells what it shows: it has the
\* effect of every event up to there, except of those that fell between the
\* snapshot and the subscription, or whose row could not be read.  (An event
\* whose thread is deleted before it is delivered waits for the deletion.)
AppliedIsShown ==
  \A i \in 1..Len(log) : i <= lastApplied.sequence /\ i \notin missed =>
    LET t == log[i].thread
    IN  \/ shown[t] >= i /\ ~log[i].deleted
        \/ shown[t] = 0 /\ deletedAt[t] > 0
        \/ deletedAt[t] > lastApplied.sequence
        \/ deletedAt[t] \in missed

\* Whatever is dropped, late or read again, a thread never goes back to an
\* older state and a removed thread never comes back (applyShellEvent,
\* syncShellSnapshot).
NeverBack ==
  [][\A t \in Thread :
       /\ shown'[t] >= shown[t] \/ removed'[t]
       /\ removed[t] => removed'[t]]_vars

\* A client whose loop has not ended and that missed nothing shows the rows of
\* the server in the end, after any number of broken connections.
Current == \A t \in Thread : shown[t] = ShellRows[t]
CatchesUp == <>[](stage = "ended" \/ missed # {} \/ Current)
=============================================================================
