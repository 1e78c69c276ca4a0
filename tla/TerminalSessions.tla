---------------------------- MODULE TerminalSessions ----------------------------
(***************************************************************************)
(* The sessions of the terminals of several threads                        *)
(* (apps/server/src/terminal/Layers/Manager.ts): which of them the manager *)
(* lists, which processes run, and where the transcripts are.              *)
(*                                                                         *)
(* The operations of a thread hold its lock; between two of the points at  *)
(* which one waits (for a file, the process, the worker of transcripts)    *)
(* it runs alone.  The sessions that are not running and are beyond a      *)
(* limit are taken from the list, the oldest first, whatever an operation  *)
(* does with them.  A session is an object that an operation or a process  *)
(* may still have when it is not in the list any more.  The queue of a     *)
(* terminal's output is TerminalOutput; the worker, KeyedCoalescingWorker. *)
(***************************************************************************)
EXTENDS Naturals, Sequences, SequencesExt, FiniteSets

CONSTANTS
  Threads, Terminals,
  None,
  MaxInactive,  \* maxRetainedInactiveSessions
  Alone,        \* whether operations and exits wait for one another
  MaxOps, MaxChunks, MaxFaults

TerminalKey == Threads \X Terminals

VARIABLES
  session,   \* the objects: sequence of [key, status, process, history]
  recent,    \* their numbers, in the order of updatedAt
  listed,    \* sessions: key -> number, or 0
  process,   \* the processes: sequence of "live", "dying" (to be killed), "dead"
  file,      \* the transcripts on disk: key -> text, or None
  pending,   \* the transcripts that are queued: key -> text, or None
  op,        \* thread -> the operation that has its lock
  evictions, \* fibers of exits that have yet to look at the limit
  ops, chunks, faults

vars == <<session, recent, listed, process, file, pending, op, evictions, ops, chunks, faults>>

NoOp == [at |-> "none", key |-> None, rest |-> {}, remove |-> {}]

Init ==
  /\ session = <<>> /\ recent = <<>> /\ listed = [k \in TerminalKey |-> 0]
  /\ process = <<>>
  /\ file = [k \in TerminalKey |-> None] /\ pending = [k \in TerminalKey |-> None]
  /\ op = [t \in Threads |-> NoOp]
  /\ evictions = 0 /\ ops = 0 /\ chunks = 0 /\ faults = 0

-----------------------------------------------------------------------------
(* Sessions and the list *)

(* For a mutation: running sessions count as well. *)
EveryListed(sessions, list) == {s \in DOMAIN sessions : \E k \in TerminalKey : list[k] = s}

(* The listed sessions that are not running: exited, failed or starting.   *)
Inactive(sessions, list) ==
  {s \in DOMAIN sessions : (\E k \in TerminalKey : list[k] = s) /\ sessions[s].status # "running"}

(* evictInactiveSessionsIfNeeded *)
Evict(list, sessions, order) ==
  LET candidates == SelectSeq(order, LAMBDA s : s \in Inactive(sessions, list))
      gone == {candidates[i] : i \in 1..(Len(candidates) - MaxInactive)}
  IN  [k \in TerminalKey |-> IF list[k] \in gone THEN 0 ELSE list[k]]

Updated(s) == Append(SelectSeq(recent, LAMBDA x : x # s), s)

(* A session with a status and a text that takes the place in the list.    *)
Insert(k, history) ==
  LET s == Len(session) + 1
  IN  /\ session' = Append(session, [key |-> k, status |-> "starting", process |-> 0,
                                     history |-> history])
      /\ recent' = Append(recent, s)
      /\ listed' = Evict([listed EXCEPT ![k] = s], session', recent')
      /\ UNCHANGED process

(* stopProcess, after which the session has the given text: the process is *)
(* not the session's any more and will be killed.                          *)
Stop(s, history) ==
  IF session[s].process = 0
  THEN session' = [session EXCEPT ![s].history = history] /\ UNCHANGED <<recent, listed, process>>
  ELSE /\ session' = [session EXCEPT ![s] = [key |-> @.key, status |-> "exited", process |-> 0,
                                             history |-> history]]
       /\ recent' = Updated(s)
       /\ listed' = Evict(listed, session', recent')
       /\ process' = [process EXCEPT ![session[s].process] = IF @ = "live" THEN "dying" ELSE @]

-----------------------------------------------------------------------------
(* The operations *)

Undrained(s) == session[s].process # 0 /\ process[session[s].process] = "dead"

Rest ==
  /\ \A t \in Threads : op[t] = NoOp
  /\ evictions = 0
  /\ \A s \in DOMAIN session : ~Undrained(s)

Begin(t, record) ==
  /\ op[t] = NoOp /\ ops < MaxOps /\ (Alone => Rest)
  /\ ops' = ops + 1
  /\ op' = [op EXCEPT ![t] = record]

At(t, place) == op[t].at = place

Goes(t, place) == op' = [op EXCEPT ![t].at = place]

Ends(t) == op' = [op EXCEPT ![t] = NoOp]

(* open of a terminal that is not listed, which waits for its transcript.  *)
Open(k) ==
  /\ listed[k] = 0
  /\ Begin(k[1], [NoOp EXCEPT !.at = "flush", !.key = k])
  /\ UNCHANGED <<session, recent, listed, process, file, pending, evictions, chunks, faults>>

(* The transcript is read, and the session is there. *)
Flushed(t) ==
  LET k == op[t].key IN
  /\ At(t, "flush") /\ pending[k] = None
  /\ Insert(k, IF file[k] = None THEN <<>> ELSE file[k])
  /\ op' = [op EXCEPT ![t].at = "spawn", ![t].rest = {Len(session')}]
  /\ UNCHANGED <<file, pending, evictions, ops, chunks, faults>>

(* restart, and open of a listed terminal that is not running or is to run *)
(* elsewhere: the empty transcript is written first.                       *)
Restart(k) ==
  LET s == IF listed[k] = 0 THEN Len(session) + 1 ELSE listed[k] IN
  /\ Begin(k[1], [NoOp EXCEPT !.at = "persist", !.key = k, !.rest = {s}])
  /\ IF listed[k] = 0 THEN Insert(k, <<>>) ELSE Stop(s, <<>>)
  /\ pending' = [pending EXCEPT ![k] = <<>>]
  /\ UNCHANGED <<file, evictions, chunks, faults>>

(* startSession, up to the process. *)
Start(t) ==
  /\ At(t, "persist") /\ pending[op[t].key] = None
  /\ \E s \in op[t].rest :
       session' = [session EXCEPT ![s].status = "starting"] /\ recent' = Updated(s)
  /\ Goes(t, "spawn")
  /\ UNCHANGED <<listed, process, file, pending, evictions, ops, chunks, faults>>

Spawned(t) ==
  /\ At(t, "spawn")
  /\ process' = Append(process, "live")
  /\ \E s \in op[t].rest :
       /\ session' = [session EXCEPT ![s].status = "running", ![s].process = Len(process')]
       /\ recent' = Updated(s)
  /\ Ends(t)
  /\ UNCHANGED <<listed, file, pending, evictions, ops, chunks, faults>>

(* No shell could be started. *)
SpawnFails(t) ==
  /\ At(t, "spawn") /\ faults < MaxFaults
  /\ faults' = faults + 1
  /\ \E s \in op[t].rest :
       session' = [session EXCEPT ![s].status = "error"] /\ recent' = Updated(s)
  /\ listed' = Evict(listed, session', recent')
  /\ Ends(t)
  /\ UNCHANGED <<process, file, pending, evictions, ops, chunks>>

(* clear *)
Clear(k) ==
  /\ listed[k] # 0
  /\ Begin(k[1], [NoOp EXCEPT !.at = "clear", !.key = k])
  /\ session' = [session EXCEPT ![listed[k]].history = <<>>]
  /\ recent' = Updated(listed[k])
  /\ pending' = [pending EXCEPT ![k] = <<>>]
  /\ UNCHANGED <<listed, process, file, evictions, chunks, faults>>

Cleared(t) ==
  /\ At(t, "clear") /\ pending[op[t].key] = None
  /\ Ends(t)
  /\ UNCHANGED <<session, recent, listed, process, file, pending, evictions, ops, chunks, faults>>

(* close, of one terminal or of all that are listed of the thread, with or *)
(* without their transcripts.                                              *)
Close(t) ==
  /\ \E keys \in {{k} : k \in {t} \X Terminals}, removes \in BOOLEAN :
       Begin(t, [NoOp EXCEPT !.at = "close", !.rest = keys,
                             !.remove = IF removes THEN keys ELSE {}])
  /\ UNCHANGED <<session, recent, listed, process, file, pending, evictions, chunks, faults>>

CloseAll(t) ==
  LET all == {t} \X Terminals IN
  /\ \E removes \in BOOLEAN :
       Begin(t, [NoOp EXCEPT !.at = "close", !.rest = {k \in all : listed[k] # 0},
                             !.remove = IF removes THEN all ELSE {}])
  /\ UNCHANGED <<session, recent, listed, process, file, pending, evictions, chunks, faults>>

(* closeSession: the process is stopped and the transcript written. *)
CloseNext(t) ==
  /\ At(t, "close")
  /\ \E k \in op[t].rest :
       /\ op' = [op EXCEPT ![t].at = "closing", ![t].key = k]
       /\ IF listed[k] = 0 THEN UNCHANGED <<session, recent, listed, process, pending>>
          ELSE Stop(listed[k], session[listed[k]].history)
               /\ pending' = [pending EXCEPT ![k] = session[listed[k]].history]
  /\ UNCHANGED <<file, evictions, ops, chunks, faults>>

Closed(t) ==
  LET k == op[t].key IN
  /\ At(t, "closing") /\ pending[k] = None
  /\ listed' = [listed EXCEPT ![k] = 0]
  /\ op' = [op EXCEPT ![t].at = "close", ![t].rest = @ \ {k}]
  /\ UNCHANGED <<session, recent, process, file, pending, evictions, ops, chunks, faults>>

(* deleteHistory, deleteAllHistoryForThread *)
CloseEnds(t) ==
  /\ At(t, "close") /\ op[t].rest = {}
  /\ file' = [k \in TerminalKey |-> IF k \in op[t].remove THEN None ELSE file[k]]
  /\ Ends(t)
  /\ UNCHANGED <<session, recent, listed, process, pending, evictions, ops, chunks, faults>>

-----------------------------------------------------------------------------
(* The processes and the worker *)

(* Output goes into the transcript of the session that has the process.    *)
Output(s) ==
  /\ session[s].status = "running" /\ process[session[s].process] = "live" /\ chunks < MaxChunks
  /\ chunks' = chunks + 1
  /\ session' = [session EXCEPT ![s].history = Append(@, chunks')]
  /\ recent' = Updated(s)
  /\ pending' = [pending EXCEPT ![session[s].key] = session'[s].history]
  /\ UNCHANGED <<listed, process, file, op, evictions, ops, faults>>

(* A process ends, by itself or killed. *)
Die(p) ==
  /\ process[p] # "dead" /\ (process[p] = "live" /\ Alone => Rest)
  /\ process' = [process EXCEPT ![p] = "dead"]
  /\ UNCHANGED <<session, recent, listed, file, pending, op, evictions, ops, chunks, faults>>

(* drainProcessEvents: the exit of the session's process. *)
Exited(s) ==
  /\ Undrained(s)
  /\ session' = [session EXCEPT ![s].status = "exited", ![s].process = 0]
  /\ recent' = Updated(s)
  /\ evictions' = evictions + 1
  /\ UNCHANGED <<listed, process, file, pending, op, ops, chunks, faults>>

(* ... and, when the subscribers have been told, the limit. *)
EvictAfterExit ==
  /\ evictions > 0
  /\ evictions' = evictions - 1
  /\ listed' = Evict(listed, session, recent)
  /\ UNCHANGED <<session, recent, process, file, pending, op, ops, chunks, faults>>

(* persistWorker *)
Persist(k) ==
  /\ pending[k] # None
  /\ file' = [file EXCEPT ![k] = pending[k]]
  /\ pending' = [pending EXCEPT ![k] = None]
  /\ UNCHANGED <<session, recent, listed, process, op, evictions, ops, chunks, faults>>

Next ==
  \/ \E k \in TerminalKey : Open(k) \/ Restart(k) \/ Clear(k) \/ Persist(k)
  \/ \E t \in Threads :
       \/ Flushed(t) \/ Start(t) \/ Spawned(t) \/ SpawnFails(t) \/ Cleared(t)
       \/ Close(t) \/ CloseAll(t) \/ CloseNext(t) \/ Closed(t) \/ CloseEnds(t)
  \/ \E s \in DOMAIN session : Output(s) \/ Exited(s)
  \/ \E p \in DOMAIN process : Die(p)
  \/ EvictAfterExit

Spec == Init /\ [][Next]_vars

-----------------------------------------------------------------------------
(* Properties *)

Texts == Seq(1..MaxChunks)

TypeOK ==
  /\ \A s \in DOMAIN session :
       /\ session[s].key \in TerminalKey /\ session[s].history \in Texts
       /\ session[s].status \in {"starting", "running", "exited", "error"}
       /\ session[s].status = "running" <=> session[s].process # 0
       /\ session[s].process \in 0..Len(process)
  /\ \A k \in TerminalKey : listed[k] # 0 => session[listed[k]].key = k
  /\ \A k \in TerminalKey : {file[k], pending[k]} \subseteq Texts \cup {None}
  /\ recent \in Seq(DOMAIN session) /\ IsInjective(recent) /\ Len(recent) = Len(session)
  /\ \A p \in DOMAIN process : process[p] \in {"live", "dying", "dead"}

(* A process that is not to be killed is that of a listed session, where   *)
(* close, a restart and the end of the server find it.                     *)
LiveIsListed ==
  \A p \in DOMAIN process : process[p] = "live" =>
    \E k \in TerminalKey : listed[k] # 0 /\ session[listed[k]].process = p

(* When nothing is under way, the sessions that do not run are within the  *)
(* limit, whatever overlapped (evictInactiveSessionsIfNeeded).             *)
RetainedIsBounded == Rest => Cardinality(Inactive(session, listed)) <= MaxInactive

Stored(k) == IF pending[k] # None THEN pending[k] ELSE file[k]

Newest(k) == LET of == {s \in DOMAIN session : session[s].key = k}
           IN  IF of = {} THEN 0 ELSE CHOOSE s \in of : \A x \in of : x <= s

(* The transcript on disk, or on its way there, is that of the terminal's  *)
(* last session, so that a session that was taken from the list is opened  *)
(* with what it had (open, evictInactiveSessionsIfNeeded).                 *)
TranscriptIsStored ==
  \A k \in TerminalKey : op[k[1]] = NoOp /\ Newest(k) # 0 =>
    \/ Stored(k) = session[Newest(k)].history
    \/ Stored(k) = None /\ (listed[k] = 0 \/ session[Newest(k)].history = <<>>)

(* When a close that removes transcripts is done, none of them is left or  *)
(* on its way, and no process is left that could print another (close).    *)
RemovesAll ==
  \A t \in Threads : op[t].remove # {} /\ op'[t] = NoOp =>
    /\ \A k \in op[t].remove : file'[k] = None /\ pending'[k] = None
    /\ \A s \in DOMAIN session' : session'[s].key \in op[t].remove => session'[s].status # "running"
=============================================================================
