-------------------------- MODULE ProjectionBootstrap --------------------------
(***************************************************************************)
(* The cursors of the projectors                                           *)
(* (apps/server/src/orchestration/Layers/ProjectionPipeline.ts, bootstrap  *)
(* and projectEvent; persistence/Layers/ProjectionState.ts): every         *)
(* projector applies the events of the log to its rows and keeps, in the   *)
(* same transaction, the sequence of the last one.  When the server        *)
(* starts, each projector replays what is after its cursor, up to the      *)
(* default limit of readFromSequence; then the read model is loaded, with  *)
(* the sequence that computeSnapshotSequence derives from the cursors.     *)
(*                                                                         *)
(* A database may have been written by an older version of the server that *)
(* had fewer projectors: the new ones have no row in projection_state.     *)
(***************************************************************************)
EXTENDS Integers, Sequences

CONSTANTS
  Order,      \* projectors: the projectors in the order of bootstrap
  Required,   \* REQUIRED_SNAPSHOT_PROJECTORS
  Older,      \* the projectors of the version that wrote the database first
  ReadLimit,  \* DEFAULT_READ_FROM_SEQUENCE_LIMIT = 1000
  MaxEvents,  \* bound: events
  MaxStops    \* bound: stops of the server

Projector == {Order[i] : i \in 1..Len(Order)}

ASSUME BootstrapAssumption ==
  /\ Order \in Seq(STRING)
  /\ \A i, j \in 1..Len(Order) : Order[i] = Order[j] => i = j
  /\ Required \subseteq Projector
  /\ Older \subseteq Projector
  /\ ReadLimit \in Nat \ {0}
  /\ MaxEvents \in Nat
  /\ MaxStops \in Nat

VARIABLES
  head,              \* the last sequence in orchestration_events
  cursor,            \* projection_state: projector -> lastAppliedSequence
  applied,           \* projector -> the events applied to its rows, in order
  installed,         \* the projectors of the version that runs
  phase,             \* "down", "cursor" (to be read), "replay", "up"
  at,                \* the index of the projector that bootstrap works on
  next, last,        \* the events its stream still delivers: next .. last
  snapshotSequence,  \* readModel.snapshotSequence
  stops,
  short              \* history: the projectors with a replay that ended before the log did

vars == << head, cursor, applied, installed, phase, at, next, last, snapshotSequence, stops, short >>

Init ==
  /\ head = 0
  /\ cursor = [p \in {} |-> 0]
  /\ applied = [p \in Projector |-> << >>]
  /\ installed = Older
  /\ phase = "down"
  /\ at = 0
  /\ next = 0
  /\ last = 0
  /\ snapshotSequence = 0
  /\ stops = 0
  /\ short = {}

\* The cursor of a projector; 0 when it has no row.
CursorOf(p) == IF p \in DOMAIN cursor THEN cursor[p] ELSE 0

\* ORDER BY sequence ASC LIMIT: pages of 500 until ReadLimit events are read.
\* Nobody appends while the engine bootstraps.
LastRead(from) == IF head <= from + ReadLimit THEN head ELSE from + ReadLimit

\* computeSnapshotSequence, over the projectors that this version requires.
RequiredNow == Required \cap installed
SnapshotSequence ==
  IF RequiredNow = {} \/ ~(RequiredNow \subseteq DOMAIN cursor) THEN 0
  ELSE CHOOSE s \in {cursor[p] : p \in RequiredNow} : \A p \in RequiredNow : s <= cursor[p]

(***************************************************************************)
(* runProjectorForEvent for the projectors ps: rows and cursors change in  *)
(* one transaction.                                                        *)
(***************************************************************************)
\* For a mutation: the cursor stays before the event.
CursorBefore(ps, e) == [p \in DOMAIN cursor \cup ps |-> IF p \in ps THEN e - 1 ELSE cursor[p]]
WithCursor(ps, e) == [p \in DOMAIN cursor \cup ps |-> IF p \in ps THEN e ELSE cursor[p]]

Run(ps, e) ==
  /\ applied' = [p \in Projector |-> IF p \in ps THEN Append(applied[p], e) ELSE applied[p]]
  /\ cursor' = WithCursor(ps, e)

\* makeOrchestrationEngine begins with projectionPipeline.bootstrap.
Start ==
  /\ phase = "down"
  /\ phase' = "cursor"
  /\ at' = 1
  /\ UNCHANGED << head, cursor, applied, installed, next, last, snapshotSequence, stops, short >>

\* bootstrapProjector: the cursor, and the query from it.
ReadCursor ==
  /\ phase = "cursor"
  /\ at <= Len(Order)
  /\ IF Order[at] \in installed
     THEN /\ phase' = "replay"
          /\ next' = CursorOf(Order[at]) + 1
          /\ last' = LastRead(CursorOf(Order[at]))
          /\ at' = at
     ELSE /\ at' = at + 1
          /\ UNCHANGED << phase, next, last >>
  /\ UNCHANGED << head, cursor, applied, installed, snapshotSequence, stops, short >>

Replay ==
  /\ phase = "replay"
  /\ next <= last
  /\ Run({Order[at]}, next)
  /\ next' = next + 1
  /\ UNCHANGED << head, installed, phase, at, last, snapshotSequence, stops, short >>

Replayed ==
  /\ phase = "replay"
  /\ next > last
  /\ phase' = "cursor"
  /\ at' = at + 1
  /\ short' = IF last < head THEN short \cup {Order[at]} ELSE short
  /\ UNCHANGED << head, cursor, applied, installed, next, last, snapshotSequence, stops >>

\* readModel = projectionSnapshotQuery.getSnapshot(); the worker starts.
LoadSnapshot ==
  /\ phase = "cursor"
  /\ at > Len(Order)
  /\ phase' = "up"
  /\ snapshotSequence' = SnapshotSequence
  /\ UNCHANGED << head, cursor, applied, installed, at, next, last, stops, short >>

\* The worker's transaction appends an event and runs every projector for it;
\* then the read model takes the event's sequence.
Commit ==
  /\ phase = "up"
  /\ head < MaxEvents
  /\ head' = head + 1
  /\ Run(installed, head + 1)
  /\ snapshotSequence' = head + 1
  /\ UNCHANGED << installed, phase, at, next, last, stops, short >>

Stop ==
  /\ phase # "down"
  /\ stops < MaxStops
  /\ stops' = stops + 1
  /\ phase' = "down"
  /\ UNCHANGED << head, cursor, applied, installed, at, next, last, snapshotSequence, short >>

\* The next start is that of a newer version.
Upgrade ==
  /\ phase = "down"
  /\ installed # Projector
  /\ installed' = Projector
  /\ UNCHANGED << head, cursor, applied, phase, at, next, last, snapshotSequence, stops, short >>

Next ==
  \/ Start \/ ReadCursor \/ Replay \/ Replayed \/ LoadSnapshot
  \/ Commit \/ Stop \/ Upgrade

Spec == Init /\ [][Next]_vars

-----------------------------------------------------------------------------
\* Types of the state.
TypeOK ==
  /\ head \in 0..MaxEvents
  /\ DOMAIN cursor \subseteq installed
  /\ \A p \in DOMAIN cursor : cursor[p] \in 1..head
  /\ applied \in [Projector -> Seq(1..head)]
  /\ installed \in {Older, Projector}
  /\ phase \in {"down", "cursor", "replay", "up"}
  /\ at \in 0..(Len(Order) + 1)
  /\ next \in 0..(head + 1)
  /\ last \in 0..head
  /\ snapshotSequence \in 0..head
  /\ stops \in 0..MaxStops
  /\ short \subseteq Projector

\* An event is applied to the rows of a projector at most once, and after the
\* events before it, however often bootstrap is interrupted: the rows of a
\* streamed message would otherwise take a delta twice (runProjectorForEvent).
AppliedOnce ==
  \A p \in Projector : \A i, j \in 1..Len(applied[p]) :
    i < j => applied[p][i] < applied[p][j]

\* The rows of a projector end at its cursor, where bootstrapProjector resumes,
\* and they hold every event before it, unless a replay of the projector was cut
\* off by the limit of a read.
NoGaps ==
  \A p \in Projector :
    /\ IF applied[p] = << >> THEN CursorOf(p) = 0 ELSE applied[p][Len(applied[p])] = CursorOf(p)
    /\ p \notin short => Len(applied[p]) = CursorOf(p)

\* An event is missed only by a projector that was behind by more than a read:
\* it applied ReadLimit events in a row, and jumps from the last of them to the
\* first event after the start (OrchestrationEventStore.readFromSequence).
MissesBeyondLimit ==
  \A p \in Projector : \A i \in 1..Len(applied[p]) :
    \/ applied[p][i] = (IF i = 1 THEN 0 ELSE applied[p][i - 1]) + 1
    \/ i > ReadLimit /\ applied[p][i - 1] = applied[p][i - ReadLimit] + ReadLimit - 1

\* No table that the read model is read from is behind its sequence, and unless
\* the replay of one was cut off, they hold all events and the sequence is that
\* of the last (computeSnapshotSequence; the engine continues, and clients
\* replay, from it).
SnapshotExact ==
  phase = "up" =>
    /\ \A p \in RequiredNow : snapshotSequence <= CursorOf(p)
    /\ \A p \in installed \ short : CursorOf(p) = head
    /\ RequiredNow # {} /\ RequiredNow \cap short = {} => snapshotSequence = head

\* Cursors, rows and the sequence of the read model agree, wherever a bootstrap
\* stops, whichever projectors are new, and however long the log has become.
CursorsAgree == TypeOK /\ AppliedOnce /\ NoGaps /\ MissesBeyondLimit /\ SnapshotExact
=============================================================================
