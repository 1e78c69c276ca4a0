------------------------------ MODULE CommandGate ------------------------------
(***************************************************************************)
(* The gate before the orchestration engine while the server starts        *)
(* (apps/server/src/serverRuntimeStartup.ts, makeCommandGate and the fiber *)
(* that ends the startup).                                                 *)
(*                                                                         *)
(* A command that comes early is put in a queue; a worker takes the        *)
(* commands of the queue one by one and holds the first until the gate     *)
(* opens.  A command that comes later runs at once, in its own fiber.  The *)
(* gate is two cells, set one after the other: the state that callers look *)
(* at, and the deferred on which the worker waits.                         *)
(***************************************************************************)
EXTENDS Naturals, Sequences, SequencesExt

CONSTANTS Command, NoCommand

ASSUME GateAssumption == NoCommand \notin Command

VARIABLES
  readiness,     \* commandReadinessState: "pending", "ready", "failed"
  commandReady,  \* the deferred: "pending", "succeeded", "failed"
  queue,         \* commandQueue
  held,          \* the command that the worker has taken, or NoCommand
  stage,         \* command -> how far it is
  waiting,       \* commands whose caller is still there
  offered        \* (history) the commands that were queued, in order

gate == << readiness, commandReady >>
vars == << gate, queue, held, stage, waiting, offered >>

Init ==
  /\ readiness = "pending"
  /\ commandReady = "pending"
  /\ queue = << >>
  /\ held = NoCommand
  /\ stage = [c \in Command |-> "none"]
  /\ waiting = {}
  /\ offered = << >>

-----------------------------------------------------------------------------
(* The end of the startup.                                                 *)

\* signalCommandReady, failCommandReady: the state, then the deferred.
SetReadiness(outcome) ==
  /\ readiness = "pending"
  /\ readiness' = outcome
  /\ UNCHANGED << commandReady, queue, held, stage, waiting, offered >>

SettleCommandReady ==
  /\ readiness # "pending"
  /\ commandReady = "pending"
  /\ commandReady' = IF readiness = "ready" THEN "succeeded" ELSE "failed"
  /\ UNCHANGED << readiness, queue, held, stage, waiting, offered >>

-----------------------------------------------------------------------------
(* enqueueCommand.                                                         *)

\* The caller looks at the state, and acts on what it saw.
enqueueCommand(c) ==
  /\ stage[c] = "none"
  /\ stage' = [stage EXCEPT ![c] = CASE readiness = "ready"   -> "running"
                                     [] readiness = "failed"  -> "refused"
                                     [] readiness = "pending" -> "early"]
  /\ waiting' = waiting \cup {c}
  /\ UNCHANGED << gate, queue, held, offered >>

Offer(c) ==
  /\ stage[c] = "early"
  /\ stage' = [stage EXCEPT ![c] = "queued"]
  /\ queue' = Append(queue, c)
  /\ offered' = Append(offered, c)
  /\ UNCHANGED << gate, held, waiting >>

\* The effect of a command ends, with a value or an error.
EndDirect(c) ==
  /\ stage[c] = "running"
  /\ held # c
  /\ stage' = [stage EXCEPT ![c] = "done"]
  /\ UNCHANGED << gate, queue, held, waiting, offered >>

\* For a mutation: an entry goes with its caller.
LeaveWithEntry(c) ==
  /\ c \in waiting
  /\ waiting' = waiting \ {c}
  /\ queue' = SelectSeq(queue, LAMBDA x : x # c)
  /\ stage' = [stage EXCEPT ![c] =
                 IF @ = "early" \/ held # c THEN "interrupted" ELSE @]
  /\ UNCHANGED << gate, held, offered >>
\* The caller is interrupted: with the effect it runs, but not with the entry
\* it has queued.
Leave(c) ==
  /\ c \in waiting
  /\ waiting' = waiting \ {c}
  /\ stage' = [stage EXCEPT ![c] =
                 IF @ = "early" \/ (@ = "running" /\ held # c) THEN "interrupted" ELSE @]
  /\ UNCHANGED << gate, queue, held, offered >>

-----------------------------------------------------------------------------
(* commandWorker.                                                          *)

Take ==
  /\ held = NoCommand
  /\ queue # << >>
  /\ held' = Head(queue)
  /\ queue' = Tail(queue)
  /\ UNCHANGED << gate, stage, waiting, offered >>

\* For a mutation: the worker does not wait.
RunAtOnce ==
  /\ held # NoCommand
  /\ stage[held] = "queued"
  /\ stage' = [stage EXCEPT ![held] = "running"]
  /\ UNCHANGED << gate, queue, held, waiting, offered >>
\* Deferred.await(commandReady), and the effect begins.
RunHeld ==
  /\ held # NoCommand
  /\ stage[held] = "queued"
  /\ commandReady = "succeeded"
  /\ stage' = [stage EXCEPT ![held] = "running"]
  /\ UNCHANGED << gate, queue, held, waiting, offered >>

\* settleQueuedCommand: with the exit of the effect, or with the error of the
\* startup.
SettleHeld ==
  /\ held # NoCommand
  /\ \/ stage[held] = "running" /\ stage' = [stage EXCEPT ![held] = "done"]
     \/ /\ stage[held] = "queued" /\ commandReady = "failed"
        /\ stage' = [stage EXCEPT ![held] = "refused"]
  /\ held' = NoCommand
  /\ UNCHANGED << gate, queue, waiting, offered >>

Next ==
  \/ \E outcome \in {"ready", "failed"} : SetReadiness(outcome)
  \/ SettleCommandReady
  \/ \E c \in Command : enqueueCommand(c) \/ Offer(c) \/ EndDirect(c) \/ Leave(c)
  \/ Take \/ RunHeld \/ SettleHeld

Spec == Init /\ [][Next]_vars

\* The startup ends, effects end, fibers run.
Fairness ==
  /\ WF_vars(\E outcome \in {"ready", "failed"} : SetReadiness(outcome))
  /\ WF_vars(SettleCommandReady)
  /\ \A c \in Command : WF_vars(Offer(c)) /\ WF_vars(EndDirect(c))
  /\ WF_vars(Take)
  /\ WF_vars(RunHeld)
  /\ WF_vars(SettleHeld)

-----------------------------------------------------------------------------
Stages == {"none", "early", "queued", "running", "done", "refused", "interrupted"}

\* Types of the state.
TypeOK ==
  /\ readiness \in {"pending", "ready", "failed"}
  /\ commandReady \in {"pending", "succeeded", "failed"}
  /\ queue \in Seq(Command)
  /\ held \in Command \cup {NoCommand}
  /\ stage \in [Command -> Stages]
  /\ waiting \subseteq Command
  /\ offered \in Seq(Command)

\* No command runs before the startup has succeeded, and none after it failed,
\* whichever way it came through the gate.
RunsOnlyWhenReady ==
  \A c \in Command : stage[c] \in {"running", "done"} => readiness = "ready"

\* The commands that came early keep their order and run one at a time: when
\* one has begun, those queued before it have ended.
QueuedInOrder ==
  \A i, j \in 1..Len(offered) :
    i < j /\ stage[offered[j]] \in {"running", "done"} =>
      stage[offered[i]] \in {"done", "refused"}

\* No command overtakes the startup, nor one that was queued before it.
GateKeepsOrder == TypeOK /\ RunsOnlyWhenReady /\ QueuedInOrder

\* A caller that stays gets its answer, whatever the startup ends with.
EveryCallerIsAnswered ==
  \A c \in Command :
    c \in waiting ~> c \notin waiting \/ stage[c] \in {"done", "refused"}

\* A command that was queued runs although its caller has gone.
QueuedRunsWithoutCaller ==
  \A c \in Command : stage[c] = "queued" ~> stage[c] \in {"done", "refused"}

\* Everyone who waits is served, whatever the startup ends with.
EveryoneIsServed == EveryCallerIsAnswered /\ QueuedRunsWithoutCaller
=============================================================================
