------------------------------ MODULE ThreadSync ------------------------------
(***************************************************************************)
(* An open thread in the web client (apps/server/src/ws.ts,                *)
(* subscribeThread and subscribeShell; apps/web/src/store.ts;              *)
(* apps/web/src/environments/runtime/service.ts).                          *)
(*                                                                         *)
(* Two subscriptions write it.  That of the thread reads its tables one    *)
(* query after the other, sends them as a snapshot, and then the events of *)
(* the thread, which the client folds into its store without looking at    *)
(* their sequence.  That of the shell sends the latest turn and the        *)
(* session as the tables have them when it gets to an event.  Nothing      *)
(* orders the two.                                                         *)
(***************************************************************************)
EXTENDS Orchestration, ClientStore

CONSTANTS
  Open,       \* the thread that the client shows
  MaxLag,     \* bound: events that wait in each place
  MaxBreaks   \* bound: connections that break

VARIABLES
  unpublished,  \* events committed and not yet published
  stage,        \* of the subscription: "none", "reading", "sent", "live"
  parts,        \* what getThreadDetailById has read so far
  detailFeed,   \* events on their way to the client
  shellFeed,    \* the number of events whose shell item is on its way
  view,         \* the client's thread; None before the first snapshot
  gap,          \* (history) an event fell between reading and subscribing
  breaks

sync == << unpublished, stage, parts, detailFeed, shellFeed, view, gap, breaks >>

ThreadSyncInit ==
  /\ Init
  /\ unpublished = << >>
  /\ stage = "none"
  /\ parts = << >>
  /\ detailFeed = << >>
  /\ shellFeed = 0
  /\ view = None
  /\ gap = FALSE
  /\ breaks = 0

\* The queries of getThreadDetailById, which no transaction encloses; the thread
\* row comes first and tells whether the thread exists.
Queries == << "messages", "proposedPlans", "activities", "checkpoints", "latestTurn", "session" >>

OfOpenThread(events) ==
  SelectSeq(events, LAMBDA e : "threadId" \in DOMAIN e /\ e.threadId = Open)

\* The engine commits a command.
Commit(cmd) ==
  LET events == OfOpenThread(DecidedEvents(readModel, cmd))
  IN  /\ Accept(cmd)
      /\ Len(unpublished) + Len(events) <= MaxLag
      /\ unpublished' = unpublished \o events
      /\ gap' = (gap \/ (stage \in {"reading", "sent"} /\ events # << >>))
      /\ UNCHANGED << stage, parts, detailFeed, shellFeed, view, breaks >>

\* PubSub.publish: only live subscriptions get it.
Publish ==
  /\ unpublished # << >>
  /\ Len(detailFeed) < MaxLag
  /\ shellFeed < MaxLag
  /\ unpublished' = Tail(unpublished)
  /\ LET e == Head(unpublished)
     IN  detailFeed' = IF stage = "live" /\ e.type \in DetailTypes
                       THEN Append(detailFeed, e) ELSE detailFeed
  /\ shellFeed' = IF view # None THEN shellFeed + 1 ELSE shellFeed
  /\ UNCHANGED << vars, stage, parts, view, gap, breaks >>

\* subscribeThread; it fails while the thread does not exist.
Subscribe ==
  /\ stage = "none"
  /\ Open \in DOMAIN tables.threads
  /\ ~tables.threads[Open].deleted
  /\ stage' = "reading"
  /\ parts' = << >>
  /\ gap' = (unpublished # << >>)
  /\ UNCHANGED << vars, unpublished, detailFeed, shellFeed, view, breaks >>

ReadNext ==
  /\ stage = "reading"
  /\ Len(parts) < Len(Queries)
  /\ parts' = Append(parts, SnapshotThread(tables, Open)[Queries[Len(parts) + 1]])
  /\ stage' = IF Len(parts') = Len(Queries) THEN "sent" ELSE stage
  /\ UNCHANGED << vars, unpublished, detailFeed, shellFeed, view, gap, breaks >>

\* The thread's own subscription writes all of it.
writeThreadState(thread) == view' = thread

\* The shell subscription writes the session and the latest turn.
writeThreadShellState(thread) ==
  view' = [view EXCEPT !.session = thread.session, !.latestTurn = thread.latestTurn]

\* syncServerThreadDetail; the live stream is pulled when the snapshot is taken.
TakeSnapshot ==
  /\ stage = "sent"
  /\ stage' = "live"
  /\ writeThreadState(ClientThread([f \in ToSet(Queries) |->
                                      parts[CHOOSE i \in DOMAIN Queries : Queries[i] = f]]))
  /\ parts' = << >>
  /\ UNCHANGED << vars, unpublished, detailFeed, shellFeed, gap, breaks >>

\* applyEnvironmentThreadDetailEvent
TakeEvent ==
  /\ detailFeed # << >>
  /\ writeThreadState(applyEnvironmentOrchestrationEvent(view, Head(detailFeed)))
  /\ detailFeed' = Tail(detailFeed)
  /\ UNCHANGED << vars, unpublished, stage, parts, shellFeed, gap, breaks >>

\* thread-upserted: the row as it is now, over what the thread's own subscription
\* derived.
TakeShellItem ==
  /\ shellFeed > 0
  /\ shellFeed' = shellFeed - 1
  /\ writeThreadShellState(SnapshotThread(tables, Open))
  /\ UNCHANGED << vars, unpublished, stage, parts, detailFeed, gap, breaks >>

\* The connection breaks; the client keeps its store and subscribes again.
Break ==
  /\ stage # "none"
  /\ breaks < MaxBreaks
  /\ breaks' = breaks + 1
  /\ stage' = "none"
  /\ parts' = << >>
  /\ detailFeed' = << >>
  /\ shellFeed' = 0
  /\ UNCHANGED << vars, unpublished, view, gap >>

ThreadSyncNext ==
  \/ \E cmd \in Commands : Commit(cmd)
  \/ Publish \/ Subscribe \/ ReadNext \/ TakeSnapshot \/ TakeEvent \/ TakeShellItem \/ Break

-----------------------------------------------------------------------------
\* Nothing of the open thread is under way.
Quiet ==
  /\ stage = "live"
  /\ unpublished = << >>
  /\ detailFeed = << >>
  /\ shellFeed = 0

\* Types of the state.
SyncTypeOK ==
  /\ stage \in {"none", "reading", "sent", "live"}
  /\ Len(unpublished) \in 0..MaxLag
  /\ Len(detailFeed) \in 0..MaxLag
  /\ shellFeed \in 0..MaxLag
  /\ \A i \in DOMAIN detailFeed : detailFeed[i].type \in DetailTypes /\ detailFeed[i].threadId = Open
  /\ stage = "live" => view # None
  /\ detailFeed # << >> => stage = "live"

\* When all is quiet, and no event fell between the reads of a snapshot and the
\* subscription, the client shows the messages, plans, activities and
\* checkpoints that a reload of the page would show: the client's reducer, the
\* read model's and the projectors' agree, over reverts and broken connections.
ContentAgrees ==
  Quiet /\ ~gap =>
    LET thread == SnapshotThread(tables, Open)
    IN  /\ view.messages = thread.messages
        /\ view.proposedPlans = thread.proposedPlans
        /\ view.activities = thread.activities
        /\ view.turnDiffSummaries = thread.checkpoints

\* The session is that of the tables, whichever subscription wrote it last.
SessionAgrees == Quiet /\ ~gap => view.session = SnapshotThread(tables, Open).session

\* When all is quiet, the open thread is the one of the tables.
ThreadAgrees == SyncTypeOK /\ ContentAgrees /\ SessionAgrees
=============================================================================
