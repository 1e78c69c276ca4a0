----------------------------- MODULE TerminalOutput -----------------------------
(***************************************************************************)
(* The output of one terminal (apps/server/src/terminal/Layers/Manager.ts):*)
(* callbacks of the process queue its output and its exit in the session,  *)
(* a fiber drains them into the transcript and to the subscribers, and     *)
(* clients clear and restart the terminal meanwhile.                       *)
(*                                                                         *)
(* A fiber may wait while it publishes an event, and an operation while it *)
(* writes the transcript; between those points each runs alone.  Chunks of *)
(* output are numbered in the order in which they are printed.  There is   *)
(* one subscriber, whose view ThreadTerminalDrawer.tsx makes of the events.*)
(***************************************************************************)
EXTENDS Naturals, Sequences, FiniteSets

CONSTANTS
  Fibers,    \* fibers of drainProcessEvents
  MaxChunks, \* bound: chunks of output
  MaxOps     \* bound: clears and restarts

VARIABLES
  sequential, \* whether operations and output wait for one another
  pid,       \* the process of the session, one for each start
  alive,     \* whether it lives
  status,    \* "running", "exited"
  history,   \* the transcript: chunks
  pending,   \* pendingProcessEvents: chunks, 0 for the exit
  draining,  \* processEventDrainRunning
  fiber,     \* fiber -> [pid, at, event]
  op,        \* what holds the lock: "none", "clearing", "restarting"
  view,      \* what the subscriber shows: chunks
  told,      \* whether the subscriber was told of the exit
  chunks, ops,
  dropped    \* for a property: whether the exit of this process was dropped
             \* from the queue

vars == <<sequential, pid, alive, status, history, pending, draining, fiber, op, view, told,
          chunks, ops, dropped>>

Idle == [pid |-> 0, at |-> "idle", event |-> 0]
Exit == 0

TypeOK ==
  /\ pid \in 1..(MaxOps + 1) /\ alive \in BOOLEAN
  /\ status \in {"running", "exited"}
  /\ history \in Seq(1..MaxChunks) /\ view \in Seq(1..MaxChunks)
  /\ pending \in Seq(0..MaxChunks)
  /\ draining \in BOOLEAN /\ told \in BOOLEAN
  /\ fiber \in [Fibers -> [pid : 0..(MaxOps + 1), at : {"idle", "loop", "publish"},
                           event : 0..MaxChunks]]
  /\ op \in {"none", "clearing", "restarting"}
  /\ chunks \in 0..MaxChunks /\ ops \in 0..MaxOps
  /\ sequential \in BOOLEAN /\ dropped \in BOOLEAN

Init ==
  /\ sequential \in BOOLEAN
  /\ pid = 1 /\ alive = TRUE /\ status = "running"
  /\ history = <<>> /\ pending = <<>> /\ draining = FALSE
  /\ fiber = [f \in Fibers |-> Idle]
  /\ op = "none" /\ view = <<>> /\ told = FALSE
  /\ chunks = 0 /\ ops = 0 /\ dropped = FALSE

-----------------------------------------------------------------------------
(* The process                                                             *)

(* For a mutation: an event that comes while a fiber drains is dropped. *)
EnqueueUnlessDraining(event) ==
  IF status # "running" \/ draining THEN UNCHANGED <<pending, draining, fiber>>
  ELSE /\ pending' = Append(pending, event)
       /\ draining' = TRUE
       /\ \E f \in Fibers :
            /\ fiber[f] = Idle
            /\ fiber' = [fiber EXCEPT ![f] = [pid |-> pid, at |-> "loop", event |-> 0]]

(* enqueueProcessEvent, and the fiber that drains if none does.            *)
Enqueue(event) ==
  IF status # "running" THEN UNCHANGED <<pending, draining, fiber>>
  ELSE /\ pending' = Append(pending, event)
       /\ draining' = TRUE
       /\ IF draining THEN UNCHANGED fiber
          ELSE \E f \in Fibers :
                 /\ fiber[f] = Idle
                 /\ fiber' = [fiber EXCEPT ![f] = [pid |-> pid, at |-> "loop", event |-> 0]]

(* onData                                                                  *)
Output ==
  /\ alive /\ chunks < MaxChunks
  /\ sequential => op = "none"
  /\ chunks' = chunks + 1
  /\ Enqueue(chunks')
  /\ UNCHANGED <<sequential, pid, alive, status, history, op, view, told, ops, dropped>>

(* onExit                                                                  *)
Die ==
  /\ alive
  /\ sequential => op = "none"
  /\ alive' = FALSE
  /\ Enqueue(Exit)
  /\ UNCHANGED <<sequential, pid, status, history, op, view, told, chunks, ops, dropped>>

-----------------------------------------------------------------------------
Drops == dropped' = (dropped \/ \E i \in DOMAIN pending : pending[i] = Exit)

(* drainProcessEvents                                                      *)

(* The next event goes into the session: output into the transcript.       *)
Drain(f) ==
  /\ fiber[f].at = "loop" /\ fiber[f].pid = pid /\ status = "running" /\ pending # <<>>
  /\ LET event == Head(pending)
     IN  /\ fiber' = [fiber EXCEPT ![f].at = "publish", ![f].event = event]
         /\ IF event = Exit
            THEN status' = "exited" /\ pending' = <<>> /\ draining' = FALSE /\ UNCHANGED history
            ELSE history' = Append(history, event) /\ pending' = Tail(pending)
                 /\ UNCHANGED <<status, draining>>
  /\ UNCHANGED <<sequential, pid, alive, op, view, told, chunks, ops, dropped>>

(* No event, or the process is not the session's any more: the fiber ends, *)
(* and leaves the session without events and without a drain.              *)
DrainEnds(f) ==
  /\ fiber[f].at = "loop"
  /\ fiber[f].pid # pid \/ status # "running" \/ pending = <<>>
  /\ pending' = <<>> /\ draining' = FALSE
  /\ fiber' = [fiber EXCEPT ![f] = Idle]
  /\ Drops
  /\ UNCHANGED <<sequential, pid, alive, status, history, op, view, told, chunks, ops>>

(* The event reaches the subscriber; after an exit the fiber ends.         *)
Publish(f) ==
  /\ fiber[f].at = "publish"
  /\ IF fiber[f].event = Exit
     THEN fiber' = [fiber EXCEPT ![f] = Idle] /\ told' = TRUE /\ UNCHANGED view
     ELSE /\ fiber' = [fiber EXCEPT ![f].at = "loop"]
          /\ view' = Append(view, fiber[f].event) /\ UNCHANGED told
  /\ UNCHANGED <<sequential, pid, alive, status, history, pending, draining, op, chunks, ops, dropped>>

-----------------------------------------------------------------------------
(* The operations of clients                                               *)

Resting == op = "none" /\ \A f \in Fibers : fiber[f] = Idle

Begins == op = "none" /\ ops < MaxOps /\ ops' = ops + 1 /\ (sequential => Resting)

(* clear, up to the writing of the empty transcript.                       *)
Clear ==
  /\ Begins
  /\ history' = <<>> /\ pending' = <<>> /\ draining' = FALSE
  /\ op' = "clearing"
  /\ Drops
  /\ UNCHANGED <<sequential, pid, alive, status, fiber, view, told, chunks>>

(* The subscriber is told.                                                 *)
Cleared ==
  /\ op = "clearing"
  /\ view' = <<>>
  /\ op' = "none"
  /\ UNCHANGED <<sequential, pid, alive, status, history, pending, draining, fiber, told, chunks, ops,
                 dropped>>

(* restart, and open after an exit: stopProcess unsubscribes the callbacks *)
(* and kills the process.                                                  *)
Restart ==
  /\ Begins
  /\ status' = "exited" /\ alive' = FALSE
  /\ history' = <<>> /\ pending' = <<>> /\ draining' = FALSE
  /\ op' = "restarting"
  /\ UNCHANGED <<sequential, pid, fiber, view, told, chunks, dropped>>

(* startSession: the new process is there, and the subscriber gets the     *)
(* transcript as it is.                                                    *)
Spawned ==
  /\ op = "restarting"
  /\ op' = "none"
  /\ pid' = pid + 1 /\ alive' = TRUE /\ status' = "running"
  /\ pending' = <<>> /\ draining' = FALSE
  /\ view' = history /\ told' = FALSE /\ dropped' = FALSE
  /\ UNCHANGED <<sequential, history, fiber, chunks, ops>>

-----------------------------------------------------------------------------
Next ==
  \/ Output \/ Die \/ Clear \/ Cleared \/ Restart \/ Spawned
  \/ \E f \in Fibers : Drain(f) \/ DrainEnds(f) \/ Publish(f)

Spec == Init /\ [][Next]_vars

-----------------------------------------------------------------------------
(* Properties *)

(* What is queued has a fiber of this process that will look at it:        *)
(* nothing is stranded, although an operation takes the flag from the      *)
(* fiber that drains (clear), and a fiber of the process before takes it   *)
(* from that of this one (drainProcessEvents).                             *)
Drains(f) ==
  /\ fiber[f].pid = pid
  /\ fiber[f].at = "loop" \/ (fiber[f].at = "publish" /\ fiber[f].event # Exit)
QueueIsDrained ==
  /\ pending # <<>> => draining
  /\ draining => \E f \in Fibers : Drains(f)

(* The exit of an earlier process is never taken for that of the one which *)
(* runs: its session is running.                                           *)
LiveIsRunning == alive => status = "running"

(* When nothing is under way, the session of a process that has ended is   *)
(* not running, unless its exit was dropped from the queue by a clear or   *)
(* by a fiber of the process before (onExit, drainProcessEvents).          *)
ExitIsNoticed == Resting /\ status = "running" /\ ~dropped => alive

(* ... and the subscriber was told so.                                     *)
ExitIsTold == Resting /\ status = "exited" => told

(* The transcript has the output in the order in which it was printed; and *)
(* neither it nor what the subscriber shows has anything twice.            *)
InOrder(s) == \A i, j \in DOMAIN s : i < j => s[i] < s[j]
NothingTwice == \A i, j \in DOMAIN view : view[i] = view[j] => i = j

(* When nothing is under way, what the subscriber shows is the transcript  *)
(* that the next client will get.                                          *)
ViewIsHistory == Resting => view = history

(* What is claimed of a terminal; and what more of one whose operations    *)
(* and output wait for one another.                                        *)
TerminalAgrees ==
  /\ TypeOK
  /\ QueueIsDrained /\ LiveIsRunning /\ ExitIsNoticed /\ ExitIsTold
  /\ InOrder(history) /\ NothingTwice
  /\ sequential => ~dropped /\ InOrder(view) /\ ViewIsHistory
=============================================================================
