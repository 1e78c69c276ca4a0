----------------------------- MODULE DrainableWorker -----------------------------
(***************************************************************************)
(* The worker behind the reactors and the ingestion of the server          *)
(* (packages/shared/src/DrainableWorker.ts): a queue, a fiber that handles *)
(* one item after the other, and drain, which waits until a counter of     *)
(* what is outstanding comes to zero.  The reactors' processInputSafely    *)
(* catches what an item fails with except an interruption, which ends the  *)
(* fiber.                                                                  *)
(***************************************************************************)
EXTENDS Integers, Sequences

CONSTANTS
  Items,    \* what may be enqueued, each once
  Drains,   \* calls of drain
  MayEnd,   \* whether an item may end the fiber
  MayClose, \* whether the scope may be closed
  None

ASSUME WorkerAssumption ==
  MayEnd \in BOOLEAN /\ MayClose \in BOOLEAN /\ None \notin Items

VARIABLES
  queue,        \* the queue
  outstanding,  \* the counter
  item,         \* the item that is being handled, or None
  alive,        \* whether the fiber runs
  open,         \* whether the queue takes items: the scope is not closed
  stage,        \* (history) item -> "new", "queued", "handled", "dropped"
  drain,        \* call of drain -> "new", "waiting", "returned"
  before        \* (history) call of drain -> the items enqueued before it

vars == <<queue, outstanding, item, alive, open, stage, drain, before>>

TypeOK ==
  /\ queue \in Seq(Items)
  /\ outstanding \in Nat
  /\ item \in Items \cup {None}
  /\ alive \in BOOLEAN /\ open \in BOOLEAN
  /\ stage \in [Items -> {"new", "queued", "handled", "dropped"}]
  /\ drain \in [Drains -> {"new", "waiting", "returned"}]
  /\ before \in [Drains -> SUBSET Items]

Init ==
  /\ queue = <<>> /\ outstanding = 0 /\ item = None
  /\ alive = TRUE /\ open = TRUE
  /\ stage = [x \in Items |-> "new"]
  /\ drain = [d \in Drains |-> "new"]
  /\ before = [d \in Drains |-> {}]

(* enqueue, one transaction: the offer and the count, the latter also when *)
(* the queue has been shut down and refuses the item.                      *)
Enqueue(x) ==
  /\ stage[x] = "new"
  /\ IF open THEN queue' = Append(queue, x) ELSE queue' = queue
  /\ stage' = [stage EXCEPT ![x] = IF open THEN "queued" ELSE "dropped"]
  /\ outstanding' = outstanding + 1
  /\ UNCHANGED <<item, alive, open, drain, before>>

(* For a mutation: the item is counted off when it is taken. *)
TakeAndCountOff ==
  /\ alive /\ item = None /\ queue # <<>>
  /\ item' = Head(queue) /\ queue' = Tail(queue)
  /\ outstanding' = outstanding - 1
  /\ UNCHANGED <<alive, open, stage, drain, before>>

Take ==
  /\ alive /\ item = None /\ queue # <<>>
  /\ item' = Head(queue) /\ queue' = Tail(queue)
  /\ UNCHANGED <<outstanding, alive, open, stage, drain, before>>

(* For a mutation: without ensuring, an item that fails is not counted     *)
(* off.                                                                    *)
EndItemUnensured(ends) ==
  /\ item # None
  /\ ends => MayEnd
  /\ stage' = [stage EXCEPT ![item] = "handled"]
  /\ item' = None
  /\ outstanding' \in {outstanding - 1, outstanding}
  /\ alive' = (alive /\ ~ends)
  /\ UNCHANGED <<queue, open, drain, before>>

(* process ends, and ensuring counts the item off; an interruption goes on *)
(* to the loop.                                                            *)
EndItem(ends) ==
  /\ item # None
  /\ ends => MayEnd
  /\ stage' = [stage EXCEPT ![item] = "handled"]
  /\ item' = None
  /\ outstanding' = outstanding - 1
  /\ alive' = (alive /\ ~ends)
  /\ UNCHANGED <<queue, open, drain, before>>

(* The scope is closed: first the fiber, which ends its item, and then the *)
(* queue, with what is in it.                                              *)
Interrupt ==
  /\ MayClose /\ alive
  /\ alive' = FALSE
  /\ IF item = None THEN UNCHANGED <<item, outstanding, stage>>
     ELSE /\ item' = None /\ outstanding' = outstanding - 1
          /\ stage' = [stage EXCEPT ![item] = "handled"]
  /\ UNCHANGED <<queue, open, drain, before>>

ShutDown ==
  /\ MayClose /\ ~alive /\ open
  /\ open' = FALSE /\ queue' = <<>>
  /\ stage' = [x \in Items |-> IF \E i \in 1..Len(queue) : queue[i] = x THEN "dropped" ELSE stage[x]]
  /\ UNCHANGED <<outstanding, item, alive, drain, before>>

Drain(d) ==
  /\ drain[d] = "new"
  /\ drain' = [drain EXCEPT ![d] = "waiting"]
  /\ before' = [before EXCEPT ![d] = {x \in Items : stage[x] # "new"}]
  /\ UNCHANGED <<queue, outstanding, item, alive, open, stage>>

(* The transaction of drain is tried again until this.                     *)
Return(d) ==
  /\ drain[d] = "waiting" /\ outstanding <= 0
  /\ drain' = [drain EXCEPT ![d] = "returned"]
  /\ UNCHANGED <<queue, outstanding, item, alive, open, stage, before>>

Next ==
  \/ \E x \in Items : Enqueue(x)
  \/ Take
  \/ \E ends \in BOOLEAN : EndItem(ends)
  \/ Interrupt \/ ShutDown
  \/ \E d \in Drains : Drain(d) \/ Return(d)

Spec == Init /\ [][Next]_vars

(* The fiber goes on, an item ends, and a retried transaction is tried     *)
(* when the counter has changed.                                           *)
Fairness ==
  /\ WF_vars(Take) /\ WF_vars(\E ends \in BOOLEAN : EndItem(ends))
  /\ \A d \in Drains : WF_vars(Return(d))

-----------------------------------------------------------------------------
(* Properties *)

(* When drain returns, everything that had been enqueued before it was     *)
(* called has been handled (drain: the queue is empty and the item that    *)
(* was being handled has ended).                                           *)
DrainCoversEarlier ==
  \A d \in Drains : drain[d] = "returned" => \A x \in before[d] : stage[x] = "handled"

(* When the counter is at zero there is nothing in the queue and nothing   *)
(* being handled, so that a drain returns at rest only (makeDrainableWorker). *)
ZeroIsIdle == outstanding = 0 => queue = <<>> /\ item = None

(* What a drain that returned tells, and what the counter tells, is true.  *)
DrainIsSafe == TypeOK /\ DrainCoversEarlier /\ ZeroIsIdle

(* Everything that is enqueued is handled, and every drain returns, as     *)
(* long as no item ends the fiber and the scope is open.                   *)
AllHandled ==
  <>[]((\A x \in Items : stage[x] # "queued") /\ \A d \in Drains : drain[d] # "waiting")
=============================================================================
