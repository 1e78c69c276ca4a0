--------------------------- MODULE Checkpoints_proofs ---------------------------
(***************************************************************************)
(* Proofs about the reactors' worker and about the checkpoints that one of *)
(* them keeps, for any items, calls of drain, turns, edits, reverts and    *)
(* failures.                                                               *)
(*                                                                         *)
(* The worker: the counter is at least what is in the queue and in the     *)
(* fiber (Counted), and what is dropped leaves it above zero for ever      *)
(* (Dropped).  So zero means that everything is handled; that it stays so  *)
(* needs that no item is in two places (Places).                           *)
(***************************************************************************)
EXTENDS MCCheckpoints, SequenceTheorems, FiniteSetTheorems, WellFoundedInduction, TLAPS

InQueue(x) == \E i \in 1..Len(queue) : queue[i] = x

Counted == outstanding >= Len(queue) + (IF item = None THEN 0 ELSE 1)

Stopped ==
  /\ ~alive => item = None
  /\ ~open => ~alive /\ queue = <<>>

Dropped == (\E x \in Items : stage[x] = "dropped") => ~open /\ outstanding >= 1

Places ==
  /\ \A x \in Items : stage[x] = "queued" => x = item \/ InQueue(x)
  /\ \A i \in 1..Len(queue) : stage[queue[i]] = "queued" /\ queue[i] # item
  /\ item # None => stage[item] = "queued"
  /\ \A i, j \in 1..Len(queue) : queue[i] = queue[j] => i = j

Earlier == \A d \in Drains : \A x \in before[d] : stage[x] # "new"

IInv == TypeOK /\ Counted /\ Stopped /\ Dropped /\ Places /\ Earlier /\ DrainCoversEarlier

(* At zero, no item is in the queue or in the fiber, or was dropped. *)
LEMMA ZeroHandles ==
  ASSUME IInv, outstanding <= 0
  PROVE  /\ queue = <<>> /\ item = None
         /\ \A x \in Items : stage[x] \in {"new", "handled"}
<1>1. Len(queue) \in Nat /\ outstanding \in Nat
  BY DEF IInv, TypeOK
<1>2. item = None /\ Len(queue) = 0
  BY <1>1 DEF IInv, Counted
<1>3. queue = <<>>
  BY <1>2 DEF IInv, TypeOK
<1>4. ASSUME NEW x \in Items, stage[x] = "dropped" PROVE FALSE
  <2>1. Dropped
    BY DEF IInv
  <2>2. outstanding >= 1
    BY <1>4, <2>1 DEF Dropped
  <2> QED BY <1>1, <2>2
<1>5. ASSUME NEW x \in Items, stage[x] = "queued" PROVE FALSE
  <2>1. x # item /\ ~InQueue(x)
    BY <1>2, WorkerAssumption DEF InQueue
  <2> QED BY <1>5, <2>1 DEF IInv, Places
<1> QED BY <1>2, <1>3, <1>4, <1>5 DEF IInv, TypeOK

(* Nothing is there at the start. *)
LEMMA InitInv == Init => IInv
BY WorkerAssumption DEF Init, IInv, TypeOK, Counted, Stopped, Dropped, Places, InQueue, Earlier,
   DrainCoversEarlier

(* A new item goes to the end of the queue, or is dropped and counted. *)
LEMMA EnqueueInv == ASSUME IInv, NEW x \in Items, Enqueue(x) PROVE IInv'
<1> USE DEF IInv, TypeOK
<1>1. CASE open
  <2>1. /\ queue' = Append(queue, x) /\ stage' = [stage EXCEPT ![x] = "queued"]
        /\ outstanding' = outstanding + 1
        /\ UNCHANGED <<item, alive, open, drain, before>> /\ stage[x] = "new"
    BY <1>1 DEF Enqueue
  <2>2. /\ Len(queue') = Len(queue) + 1 /\ Len(queue) \in Nat
        /\ queue'[Len(queue) + 1] = x
        /\ \A i \in 1..Len(queue) : queue'[i] = queue[i]
    BY <2>1
  <2>3. TypeOK'
    BY <2>1
  <2>4. Counted' /\ Stopped' /\ Dropped'
    BY <1>1, <2>1, <2>2 DEF Counted, Stopped, Dropped
  <2>5. x # item /\ \A i \in 1..Len(queue) : queue[i] # x
    BY <2>1, WorkerAssumption DEF Places
  <2>6. Places'
    <3>1. \A y \in Items : stage'[y] = "queued" => y = item' \/ InQueue(y)'
      <4> SUFFICES ASSUME NEW y \in Items, stage'[y] = "queued", y # item'
                   PROVE \E i \in 1..Len(queue') : queue'[i] = y
        BY DEF InQueue
      <4>1. CASE y = x
        BY <4>1, <2>2
      <4>2. CASE y # x
        <5>1. PICK i \in 1..Len(queue) : queue[i] = y
          BY <4>2, <2>1 DEF Places, InQueue
        <5> QED BY <5>1, <2>2
      <4> QED BY <4>1, <4>2
    <3>2. \A i \in 1..Len(queue') : i \in 1..Len(queue) \/ (i = Len(queue) + 1 /\ queue'[i] = x)
      BY <2>2
    <3>3. \A i \in 1..Len(queue') : stage'[queue'[i]] = "queued" /\ queue'[i] # item'
      BY <3>2, <2>1, <2>2, <2>5 DEF Places
    <3>4. item' # None => stage'[item'] = "queued"
      BY <2>1, <2>5 DEF Places
    <3>5. \A i, j \in 1..Len(queue') : queue'[i] = queue'[j] => i = j
      <4>1. \A i, j \in 1..Len(queue) : queue[i] = queue[j] => i = j
        BY DEF Places
      <4>2. \A i \in 1..Len(queue') :
              \/ i \in 1..Len(queue) /\ queue'[i] = queue[i] /\ queue[i] # x
              \/ i = Len(queue) + 1 /\ queue'[i] = x
        <5>1. \A i \in 1..Len(queue) : queue'[i] = queue[i] /\ queue[i] # x
          BY <2>2, <2>5
        <5> QED BY <3>2, <5>1
      <4> QED BY <4>1, <4>2
    <3> QED BY <3>1, <3>3, <3>4, <3>5 DEF Places
  <2>7. Earlier' /\ DrainCoversEarlier'
    BY <2>1 DEF Earlier, DrainCoversEarlier
  <2> QED BY <2>3, <2>4, <2>6, <2>7
<1>2. CASE ~open
  <2>1. /\ queue' = queue /\ stage' = [stage EXCEPT ![x] = "dropped"]
        /\ outstanding' = outstanding + 1
        /\ UNCHANGED <<item, alive, open, drain, before>> /\ stage[x] = "new"
    BY <1>2 DEF Enqueue
  <2>2. TypeOK'
    BY <2>1
  <2>3. Counted' /\ Stopped' /\ Dropped'
    BY <1>2, <2>1 DEF Counted, Stopped, Dropped
  <2>4. Places'
    BY <1>2, <2>1 DEF Places, InQueue, Stopped
  <2>5. Earlier' /\ DrainCoversEarlier'
    BY <2>1 DEF Earlier, DrainCoversEarlier
  <2> QED BY <2>2, <2>3, <2>4, <2>5
<1> QED BY <1>1, <1>2

(* The head of the queue goes to the fiber. *)
LEMMA TakeInv == ASSUME IInv, Take PROVE IInv'
<1> USE DEF IInv, TypeOK
<1>1. /\ item = None /\ queue # <<>> /\ item' = Head(queue) /\ queue' = Tail(queue)
      /\ UNCHANGED <<outstanding, alive, open, stage, drain, before>> /\ alive
  BY DEF Take
<1>2. /\ Len(queue) \in Nat /\ Len(queue) >= 1 /\ Len(queue') = Len(queue) - 1
      /\ item' = queue[1] /\ item' \in Items
      /\ \A i \in 1..Len(queue') : i + 1 \in 1..Len(queue) /\ queue'[i] = queue[i + 1]
  BY <1>1
<1>3. TypeOK'
  BY <1>1, <1>2
<1>4. Counted' /\ Stopped' /\ Dropped'
  BY <1>1, <1>2 DEF Counted, Stopped, Dropped
<1>5. Places'
  <2>1. \A y \in Items : stage'[y] = "queued" => y = item' \/ InQueue(y)'
    <3> SUFFICES ASSUME NEW y \in Items, stage'[y] = "queued", y # item'
                 PROVE \E i \in 1..Len(queue') : queue'[i] = y
      BY DEF InQueue
    <3>1. PICK i \in 1..Len(queue) : queue[i] = y
      BY <1>1, WorkerAssumption DEF Places, InQueue
    <3>2. i - 1 \in 1..Len(queue') /\ (i - 1) + 1 = i
      BY <3>1, <1>2
    <3>3. queue'[i - 1] = queue[(i - 1) + 1]
      BY <3>2, <1>2
    <3> QED BY <3>1, <3>2, <3>3
  <2>2. \A i \in 1..Len(queue') : stage'[queue'[i]] = "queued" /\ queue'[i] # item'
    BY <1>1, <1>2 DEF Places
  <2>3. stage'[item'] = "queued"
    BY <1>1, <1>2 DEF Places
  <2>4. \A i, j \in 1..Len(queue') : queue'[i] = queue'[j] => i = j
    <3> SUFFICES ASSUME NEW i \in 1..Len(queue'), NEW j \in 1..Len(queue'), queue'[i] = queue'[j]
                 PROVE  i = j
      OBVIOUS
    <3>1. i + 1 = j + 1
      BY <1>2 DEF Places
    <3> QED BY <3>1
  <2> QED BY <2>1, <2>2, <2>3, <2>4 DEF Places
<1>6. Earlier' /\ DrainCoversEarlier'
  BY <1>1 DEF Earlier, DrainCoversEarlier
<1> QED BY <1>3, <1>4, <1>5, <1>6

(* The item of the fiber is handled and counted off, by its end or by an   *)
(* interruption.                                                           *)
LEMMA HandledInv ==
  ASSUME IInv, item # None, stage' = [stage EXCEPT ![item] = "handled"], item' = None,
         outstanding' = outstanding - 1, alive' \in BOOLEAN, open,
         UNCHANGED <<queue, open, drain, before>>
  PROVE  IInv'
<1> USE DEF IInv, TypeOK
<1>1. item \in Items /\ Len(queue) \in Nat /\ outstanding >= Len(queue) + 1
  BY DEF Counted
<1>2. TypeOK' /\ Counted'
  BY <1>1 DEF Counted
<1>3. Stopped' /\ Dropped'
  BY <1>1 DEF Stopped, Dropped
<1>4. Places'
  <2>1. \A y \in Items : stage'[y] = "queued" => InQueue(y)'
    BY <1>1 DEF Places, InQueue
  <2>2. \A i \in 1..Len(queue') : stage'[queue'[i]] = "queued" /\ queue'[i] # item'
    BY <1>1, WorkerAssumption DEF Places
  <2>3. \A i, j \in 1..Len(queue') : queue'[i] = queue'[j] => i = j
    BY DEF Places
  <2> QED BY <2>1, <2>2, <2>3 DEF Places
<1>5. Earlier' /\ DrainCoversEarlier'
  BY <1>1 DEF Earlier, DrainCoversEarlier
<1> QED BY <1>2, <1>3, <1>4, <1>5

(* What is left in the queue is dropped, and stays counted. *)
LEMMA ShutDownInv == ASSUME IInv, ShutDown PROVE IInv'
<1> USE DEF IInv, TypeOK
<1>1. /\ ~alive /\ open' = FALSE /\ queue' = <<>>
      /\ stage' = [x \in Items |-> IF InQueue(x) THEN "dropped" ELSE stage[x]]
      /\ UNCHANGED <<outstanding, item, alive, drain, before>>
  BY DEF ShutDown, InQueue
<1>2. item = None /\ Len(queue) \in Nat
  BY <1>1 DEF Stopped
<1>3. TypeOK' /\ Counted' /\ Stopped'
  <2>1. stage' \in [Items -> {"new", "queued", "handled", "dropped"}]
    BY <1>1
  <2>2. queue' \in Seq(Items) /\ Len(queue') = 0
    BY <1>1
  <2>3. TypeOK'
    BY <1>1, <2>1, <2>2
  <2>4. Counted'
    BY <1>1, <1>2, <2>2 DEF Counted
  <2>5. Stopped'
    BY <1>1, <1>2 DEF Stopped
  <2> QED BY <2>3, <2>4, <2>5
<1>4. ASSUME NEW x \in Items, stage'[x] = "dropped" PROVE outstanding' >= 1
  <2>1. CASE InQueue(x)
    BY <2>1, <1>1, <1>2 DEF InQueue, Counted
  <2>2. CASE ~InQueue(x)
    BY <2>2, <1>1, <1>4 DEF Dropped
  <2> QED BY <2>1, <2>2
<1>5. Dropped'
  BY <1>1, <1>4 DEF Dropped
<1>6. Places'
  BY <1>1, <1>2, WorkerAssumption DEF Places, InQueue
<1>7. \A x \in Items : stage[x] = "handled" => stage'[x] = "handled"
  BY <1>1 DEF Places, InQueue
<1>8. Earlier' /\ DrainCoversEarlier'
  BY <1>1, <1>7 DEF Earlier, DrainCoversEarlier
<1> QED BY <1>3, <1>5, <1>6, <1>8

(* A call of drain notes what is there; it returns when all that is        *)
(* handled.                                                                *)
LEMMA DrainInv == ASSUME IInv, NEW d \in Drains, Drain(d) \/ Return(d) PROVE IInv'
<1> USE DEF IInv, TypeOK
<1>1. CASE Drain(d)
  BY <1>1 DEF Drain, Counted, Stopped, Dropped, Places, InQueue, Earlier, DrainCoversEarlier
<1>2. CASE Return(d)
  <2>1. \A x \in Items : stage[x] \in {"new", "handled"}
    BY <1>2, ZeroHandles DEF Return
  <2>2. DrainCoversEarlier'
    BY <1>2, <2>1 DEF Return, Earlier, DrainCoversEarlier
  <2> QED BY <1>2, <2>2 DEF Return, Counted, Stopped, Dropped, Places, InQueue, Earlier
<1> QED BY <1>1, <1>2

(* Every step keeps the invariant. *)
LEMMA StepInv == IInv /\ [Next]_vars => IInv'
<1> SUFFICES ASSUME IInv, [Next]_vars PROVE IInv'
  OBVIOUS
<1>1. ASSUME NEW x \in Items, Enqueue(x) PROVE IInv'
  BY <1>1, EnqueueInv
<1>2. CASE Take
  BY <1>2, TakeInv
<1>3. ASSUME NEW done \in BOOLEAN, EndItem(done) PROVE IInv'
  <2>1. open /\ alive' \in BOOLEAN
    BY <1>3 DEF EndItem, IInv, Stopped, TypeOK
  <2> QED BY <1>3, <2>1, HandledInv DEF EndItem
<1>4. CASE Interrupt
  <2>1. CASE item = None
    <3>1. alive' = FALSE /\ UNCHANGED <<queue, outstanding, item, open, stage, drain, before>> /\ alive
      BY <1>4, <2>1 DEF Interrupt
    <3>2. TypeOK' /\ Counted' /\ Stopped' /\ Dropped'
      BY <2>1, <3>1 DEF IInv, TypeOK, Counted, Stopped, Dropped
    <3>3. Places' /\ Earlier' /\ DrainCoversEarlier'
      BY <3>1 DEF IInv, Places, InQueue, Earlier, DrainCoversEarlier
    <3> QED BY <3>2, <3>3 DEF IInv
  <2>2. CASE item # None
    <3>1. open
      BY <1>4 DEF Interrupt, IInv, Stopped
    <3> QED BY <1>4, <2>2, <3>1, HandledInv DEF Interrupt
  <2> QED BY <2>1, <2>2
<1>5. CASE ShutDown
  BY <1>5, ShutDownInv
<1>6. ASSUME NEW d \in Drains, Drain(d) \/ Return(d) PROVE IInv'
  BY <1>6, DrainInv
<1>7. CASE UNCHANGED vars
  BY <1>7 DEF vars, IInv, TypeOK, Counted, Stopped, Dropped, Places, InQueue, Earlier, DrainCoversEarlier
<1> QED BY <1>1, <1>2, <1>3, <1>4, <1>5, <1>6, <1>7 DEF Next

LEMMA Invariance == Spec => []IInv
BY InitInv, StepInv, PTL DEF Spec

(* Every variable of the worker keeps its type: the counter never falls    *)
(* below zero.                                                             *)
THEOREM TypeCorrect == Spec => []TypeOK
<1>1. IInv => TypeOK
  BY DEF IInv
<1> QED BY <1>1, Invariance, PTL

(* A drain that has returned covers all that was enqueued before it was    *)
(* called, whatever is closed or ends.                                     *)
THEOREM DrainCovers == Spec => []DrainCoversEarlier
<1>1. IInv => DrainCoversEarlier
  BY DEF IInv
<1> QED BY <1>1, Invariance, PTL

(* At zero the worker is at rest. *)
THEOREM ZeroMeansIdle == Spec => []ZeroIsIdle
<1>1. IInv => ZeroIsIdle
  BY ZeroHandles DEF ZeroIsIdle
<1> QED BY <1>1, Invariance, PTL

(* What a drain that returned tells, and what the counter tells, is true,  *)
(* for any items and callers.                                              *)
THEOREM DrainsAreSafe == Spec => []DrainIsSafe
BY TypeCorrect, DrainCovers, ZeroMeansIdle, PTL DEF DrainIsSafe

-----------------------------------------------------------------------------
(***************************************************************************)
(* The checkpoints.  AnyInv holds whatever users and failures do: turns    *)
(* end in order, a turn has one checkpoint, and as long as nothing has     *)
(* failed, the ref of a captured one is there.  With a user who waits      *)
(* (PatientInv), all that is under way is about the latest turn, and the   *)
(* checkpoints are those of the conversation and of that turn (TurnState); *)
(* or a revert is under way alone, and says how far it has come            *)
(* (RevertState).  Without diffs, refs hold what turns left, and so do the *)
(* files between a restore and the end of its revert (RefsAreEnds).        *)
(***************************************************************************)

(* The bounds are natural numbers, and None is none of the values.         *)
CheckBounds ==
  /\ MaxTurns \in Nat /\ MaxEdits \in Nat /\ MaxReverts \in Nat /\ MaxFaults \in Nat
  /\ None \notin Nat /\ None \notin [turn : Nat, count : Nat]

(* The types of the variables, by name.                                    *)
CheckEvent == [type : {"started", "diff", "completed"}, turn : Checks!Turn]
PlaceholderRecord == [turn : Checks!Turn, count : Nat]
RevertStage == [1..MaxReverts -> {"none", "requested", "reverted", "failed"}]

CheckTyped ==
  /\ diffs \in BOOLEAN /\ patient \in BOOLEAN
  /\ files \in Checks!Content /\ edits \in Checks!Content
  /\ DOMAIN refs \subseteq Nat /\ refs \in [DOMAIN refs -> Checks!Content]
  /\ checkpoints \subseteq Checks!Checkpoint
  /\ session \in Checks!Turn \cup {None}
  /\ shown \subseteq Checks!Turn
  /\ turns \in 0..MaxTurns
  /\ running \in Checks!Turn \cup {None}
  /\ conversation \in Seq(Checks!Turn)
  /\ events \in Seq(CheckEvent)
  /\ placeholder \in PlaceholderRecord \cup {None}
  /\ inputs \in Seq(Checks!Input)
  /\ reactor \in Checks!Work
  /\ reverts \in RevertStage
  /\ faults \in 0..MaxFaults
  /\ ends \in [Checks!Turn -> Checks!Content \cup {None}]

RevertSteps == {"restore", "rollback", "delete", "complete"}
Remembered == Len(conversation)

(* Turns end one after the other, in the order in which the provider       *)
(* remembers them.                                                         *)
TurnsInOrder ==
  /\ \A t \in Checks!Turn : (t < turns => ends[t] # None) /\ (t > turns => ends[t] = None)
  /\ running # None => running = turns /\ ends[turns] = None
  /\ \A i \in 1..Remembered : conversation[i] <= turns /\ ends[conversation[i]] # None
  /\ \A i, j \in 1..Remembered : i < j => conversation[i] < conversation[j]

(* A turn has one checkpoint, which names its ref when it is captured, and *)
(* their counts have a bound.                                              *)
WellFormed ==
  /\ \A c, d \in checkpoints : c.turn = d.turn => c = d
  /\ \A c \in checkpoints : c.captured => c.git
Bounded == \E b \in Nat : \A c \in checkpoints : c.count <= b

(* What the reactor does fits the checkpoints and refs that it has seen.   *)
ReactorFits ==
  /\ reactor.pc = "baseline" => ~Checks!HasRef(reactor.count)
  /\ reactor.pc \in {"capture", "dispatch"} => ~Checks!Captured(reactor.turn)
  /\ reactor.pc \in RevertSteps =>
       /\ reactor.count <= reactor.current
       /\ \A n \in reactor.stale : n > reactor.count

(* Without diffs no checkpoint is shown before it has a ref.               *)
NoPlaceholders ==
  /\ placeholder = None
  /\ \A i \in 1..Len(events) : events[i].type # "diff"
  /\ \A c \in checkpoints : c.git

(* A checkpoint that names a git ref has it until a revert deletes it.     *)
Deleted(c) == reactor.pc = "complete" /\ c.count \in reactor.stale
RefsAreThere ==
  /\ \A c \in checkpoints : c.git => Checks!HasRef(c.count) \/ Deleted(c)
  /\ reactor.pc = "dispatch" => Checks!HasRef(reactor.count)

AnyInv ==
  /\ CheckTyped /\ TurnsInOrder /\ WellFormed /\ Bounded /\ ReactorFits
  /\ ~diffs => NoPlaceholders
  /\ faults = 0 => RefsAreThere

-----------------------------------------------------------------------------
(* Where the user waits and nothing fails: the turn that was asked for     *)
(* last has begun and is not cut; base turns were completed before it.     *)
Last == Remembered > 0 /\ conversation[Remembered] = turns
Begun == running # None \/ Last
Base == IF Last THEN Remembered - 1 ELSE Remembered

CheckpointOf(i) == [turn |-> conversation[i], count |-> i, captured |-> TRUE, git |-> TRUE]
ShowsTo(n) == \A i \in 1..n : CheckpointOf(i) \in checkpoints
IsPast(c, n) == c.count \in 1..n /\ c = CheckpointOf(c.count)
IsLatest(c) == Begun /\ c.turn = turns /\ c.count = Base + 1

ShownIsRemembered ==
  shown = {conversation[i] : i \in 1..Remembered} \cup ({running} \ {None})

Reverting == reactor.pc \in RevertSteps \/ \E i \in 1..Len(inputs) : inputs[i].type = "revert"

(* All that is under way is about the latest turn.                         *)
OfLatest ==
  /\ session \in {None, turns}
  /\ \A i \in 1..Len(events) : Begun /\ events[i].turn = turns
  /\ placeholder # None => Begun /\ placeholder.turn = turns /\ placeholder.count = Base + 1
  /\ \A i \in 1..Len(inputs) :
       /\ inputs[i].type # "start" => Begun /\ inputs[i].turn = turns
       /\ inputs[i].type = "placeholder" => inputs[i].count = Base + 1
  /\ reactor.pc \in {"capture", "dispatch"} =>
       Begun /\ reactor.turn = turns /\ reactor.count = Base + 1

CaptureWaits == \E i \in 1..Len(inputs) : inputs[i].type \in {"completed", "placeholder"}

WillBeCaptured ==
  Last => \/ Checks!Captured(turns) \/ CaptureWaits
          \/ reactor.pc \in {"capture", "dispatch"}

TurnState ==
  /\ \A c \in checkpoints : IsPast(c, Base) \/ IsLatest(c)
  /\ ShowsTo(Base)
  /\ ShownIsRemembered /\ OfLatest /\ WillBeCaptured

(* During a revert nothing else is under way, and the checkpoints are      *)
(* those of the conversation, or after it was rolled back, the first ones  *)
(* are.                                                                    *)
AllShown ==
  /\ \A c \in checkpoints : IsPast(c, Remembered)
  /\ ShowsTo(Remembered)
  /\ ShownIsRemembered

RevertState ==
  /\ running = None /\ session = None /\ events = <<>> /\ placeholder = None
  /\ turns > 0 => ends[turns] # None
  /\ \/ /\ reactor = Checks!Idle /\ Len(inputs) = 1 /\ inputs[1].type = "revert"
        /\ inputs[1].count < Remembered
        /\ AllShown
     \/ /\ inputs = <<>> /\ reactor.pc \in {"restore", "rollback"}
        /\ reactor.count < Remembered /\ reactor.current = Remembered
        /\ reactor.target = reactor.count
        /\ AllShown
     \/ /\ inputs = <<>> /\ reactor.pc \in {"delete", "complete"}
        /\ reactor.count = Remembered /\ ~Last
        /\ \A c \in checkpoints : c.count >= 1 /\ (c.count <= Remembered => IsPast(c, Remembered))
        /\ ShowsTo(Remembered)

PatientInv ==
  /\ Checks!CountsAreUnique
  /\ ~Reverting => TurnState
  /\ Reverting => RevertState

(* Without diffs, refs hold what turns left.                               *)
RefsAreEnds ==
  /\ \A c \in checkpoints : ~Deleted(c) => refs[c.count] = ends[c.turn]
  /\ running # None => \A c \in checkpoints : c.turn # turns
  /\ CaptureWaits \/ reactor.pc = "capture" => running = None /\ files = ends[turns]
  /\ reactor.pc = "dispatch" =>
       running = None /\ files = ends[turns] /\ refs[reactor.count] = ends[turns]
  /\ reactor.pc \in {"rollback", "delete", "complete"} =>
       \A c \in checkpoints : c.count = reactor.count => files = ends[c.turn]

Calm == patient /\ faults = 0

CheckInv == AnyInv /\ (Calm => PatientInv) /\ (Calm /\ ~diffs => RefsAreEnds)

-----------------------------------------------------------------------------
(* What the records are made of.                                           *)
LEMMA CheckTypedIs == CheckTyped <=> Checks!TypeOK
BY DEF CheckTyped, Checks!TypeOK, Checks!Content, CheckEvent, Checks!Count, Checks!Checkpoint,
       PlaceholderRecord, RevertStage

LEMMA TurnIs ==
  ASSUME CheckBounds
  PROVE  Checks!Turn \subseteq Nat /\ None \notin Checks!Turn /\ None \notin Checks!Content
         /\ \A t : t \in Checks!Turn <=> t \in Nat /\ 1 <= t /\ t <= MaxTurns
BY DEF CheckBounds, Checks!Turn, Checks!Content

LEMMA CheckpointIs ==
  ASSUME NEW c \in Checks!Checkpoint
  PROVE  c.turn \in Checks!Turn /\ c.count \in Nat /\ c.captured \in BOOLEAN
         /\ c.git \in BOOLEAN
BY DEF Checks!Checkpoint, Checks!Count

LEMMA CheckpointMade ==
  ASSUME NEW t \in Checks!Turn, NEW n \in Nat, NEW b \in BOOLEAN, NEW g \in BOOLEAN
  PROVE  LET c == [turn |-> t, count |-> n, captured |-> b, git |-> g]
         IN  /\ c \in Checks!Checkpoint /\ c.turn = t /\ c.count = n
             /\ c.captured = b /\ c.git = g
BY DEF Checks!Checkpoint, Checks!Count

LEMMA CheckpointEqual ==
  ASSUME NEW c \in Checks!Checkpoint, NEW d \in Checks!Checkpoint,
         c.turn = d.turn, c.count = d.count, c.captured = d.captured, c.git = d.git
  PROVE  c = d
BY DEF Checks!Checkpoint

LEMMA CheckEventIs ==
  ASSUME NEW e \in CheckEvent
  PROVE  e.type \in {"started", "diff", "completed"} /\ e.turn \in Checks!Turn
BY DEF CheckEvent

LEMMA CheckEventMade ==
  ASSUME NEW t \in Checks!Turn, NEW y \in {"started", "diff", "completed"}
  PROVE  LET e == [type |-> y, turn |-> t] IN e \in CheckEvent /\ e.type = y /\ e.turn = t
BY DEF CheckEvent

LEMMA InputIs ==
  ASSUME NEW x \in Checks!Input
  PROVE  /\ x.type \in {"start", "completed", "placeholder", "revert"}
         /\ x.type = "completed" => x.turn \in Checks!Turn /\ x.cut \in BOOLEAN
         /\ x.type = "placeholder" => x.turn \in Checks!Turn /\ x.count \in Nat
         /\ x.type = "revert" => x.count \in Nat /\ x.id \in 1..MaxReverts
BY DEF Checks!Input, Checks!Count

LEMMA InputMade ==
  /\ LET x == [type |-> "start"] IN x \in Checks!Input /\ x.type = "start"
  /\ \A t \in Checks!Turn, b \in BOOLEAN :
       LET x == [type |-> "completed", turn |-> t, cut |-> b]
       IN  x \in Checks!Input /\ x.type = "completed" /\ x.turn = t
  /\ \A t \in Checks!Turn, n \in Nat :
       LET x == [type |-> "placeholder", turn |-> t, count |-> n]
       IN  x \in Checks!Input /\ x.type = "placeholder" /\ x.turn = t /\ x.count = n
  /\ \A n \in Nat, r \in 1..MaxReverts :
       LET x == [type |-> "revert", count |-> n, id |-> r]
       IN  x \in Checks!Input /\ x.type = "revert" /\ x.count = n /\ x.id = r
BY DEF Checks!Input, Checks!Count

LEMMA WorkIs ==
  ASSUME NEW w \in Checks!Work
  PROVE  /\ w.pc \in {"idle", "baseline", "capture", "dispatch"} \cup RevertSteps
         /\ w.pc = "idle" => w = Checks!Idle
         /\ w.pc = "baseline" => w.count \in Nat
         /\ w.pc \in {"capture", "dispatch"} =>
              w.turn \in Checks!Turn /\ w.count \in Nat /\ w.cut \in BOOLEAN
         /\ w.pc \in RevertSteps =>
              /\ w.id \in 1..MaxReverts /\ w.count \in Nat /\ w.current \in Nat
              /\ w.target \in Nat \cup {None} /\ w.stale \in SUBSET Nat
BY DEF Checks!Work, Checks!Count, Checks!Idle, RevertSteps

LEMMA WorkMade ==
  /\ Checks!Idle \in Checks!Work /\ Checks!Idle.pc = "idle"
  /\ \A n \in Nat :
       LET w == [pc |-> "baseline", count |-> n]
       IN  w \in Checks!Work /\ w.pc = "baseline" /\ w.count = n
  /\ \A t \in Checks!Turn, n \in Nat, b \in BOOLEAN :
       LET w == [pc |-> "capture", turn |-> t, count |-> n, cut |-> b]
       IN  w \in Checks!Work /\ w.pc = "capture" /\ w.turn = t /\ w.count = n
BY DEF Checks!Work, Checks!Count, Checks!Idle

LEMMA RevertMade ==
  ASSUME NEW r \in 1..MaxReverts, NEW n \in Nat, NEW m \in Nat, NEW g \in Nat \cup {None},
         NEW s \in SUBSET Nat
  PROVE  LET w == [pc |-> "restore", id |-> r, count |-> n, current |-> m, target |-> g, stale |-> s]
         IN  /\ w \in Checks!Work /\ w.pc = "restore" /\ w.id = r /\ w.count = n
             /\ w.current = m /\ w.target = g /\ w.stale = s
BY DEF Checks!Work, Checks!Count

\* The next step of a capture, and of a revert.
LEMMA WorkMoves ==
  ASSUME NEW w \in Checks!Work
  PROVE  /\ w.pc = "capture" =>
              LET v == [w EXCEPT !.pc = "dispatch"]
              IN  v \in Checks!Work /\ v.pc = "dispatch" /\ v.turn = w.turn /\ v.count = w.count
         /\ w.pc \in RevertSteps => \A p \in RevertSteps :
              LET v == [w EXCEPT !.pc = p]
              IN  /\ v \in Checks!Work /\ v.pc = p /\ v.id = w.id /\ v.count = w.count
                  /\ v.current = w.current /\ v.target = w.target /\ v.stale = w.stale
<1>1. ASSUME w.pc = "capture"
      PROVE  LET v == [w EXCEPT !.pc = "dispatch"]
             IN  v \in Checks!Work /\ v.pc = "dispatch" /\ v.turn = w.turn /\ v.count = w.count
  BY <1>1 DEF Checks!Work, Checks!Count, Checks!Idle
<1>2. ASSUME w.pc \in RevertSteps, NEW p \in RevertSteps
      PROVE  LET v == [w EXCEPT !.pc = p]
             IN  /\ v \in Checks!Work /\ v.pc = p /\ v.id = w.id /\ v.count = w.count
                 /\ v.current = w.current /\ v.target = w.target /\ v.stale = w.stale
  BY <1>2 DEF Checks!Work, Checks!Count, Checks!Idle, RevertSteps
<1> QED BY <1>1, <1>2

-----------------------------------------------------------------------------
(* The largest of a bounded set of numbers, and the count of the last      *)
(* checkpoint.                                                             *)
LEMMA LeastOf == ASSUME NEW T \in SUBSET Nat, T # {} PROVE \E m \in T : \A n \in T : m <= n
<1> DEFINE R == {ss \in Nat \X Nat : ss[1] < ss[2]}
<1>1. IsWellFoundedOn(R, Nat)
  BY NatLessThanWellFounded DEF OpToRel
<1>2. PICK m \in T : \A n \in T : ~(<<n, m>> \in R)
  BY <1>1, WFMin
<1>3. \A n \in T : ~(n < m)
  BY <1>2
<1> QED BY <1>3

LEMMA MaxIs ==
  ASSUME NEW S \in SUBSET Nat, S # {}, NEW b \in Nat, \A x \in S : x <= b
  PROVE  Checks!Max(S) \in S /\ \A x \in S : x <= Checks!Max(S)
<1> DEFINE T == {d \in Nat : \E x \in S : x + d = b}
<1>1. T \in SUBSET Nat /\ T # {}
  <2>1. PICK x \in S : TRUE  OBVIOUS
  <2>2. b - x \in T  BY <2>1
  <2> QED BY <2>2
<1>2. PICK d \in T : \A e \in T : d <= e
  BY <1>1, LeastOf
<1>3. PICK m \in S : m + d = b
  BY <1>2
<1>4. \A x \in S : m >= x
  <2> SUFFICES ASSUME NEW x \in S PROVE m >= x  OBVIOUS
  <2>1. b - x \in T  OBVIOUS
  <2>2. d <= b - x  BY <1>2, <2>1
  <2> HIDE DEF T
  <2>3. d \in Nat  BY <1>1, <1>2
  <2> QED BY <1>3, <2>2, <2>3
<1>5. \E y \in S : \A x \in S : y >= x
  BY <1>4
<1>6. Checks!Max(S) \in S /\ \A x \in S : Checks!Max(S) >= x
  BY <1>5 DEF Checks!Max
<1> QED BY <1>6

LEMMA CurrentIs ==
  ASSUME CheckTyped, Bounded
  PROVE  LET n == Checks!CurrentTurnCount
         IN  /\ n \in Nat /\ \A c \in checkpoints : c.count <= n
             /\ n = 0 \/ \E c \in checkpoints : c.count = n
<1> DEFINE S == {0} \cup {c.count : c \in checkpoints}
<1>1. PICK b \in Nat : \A c \in checkpoints : c.count <= b
  BY DEF Bounded
<1>2. \A c \in checkpoints : c.count \in Nat
  BY CheckpointIs DEF CheckTyped
<1>3. S \in SUBSET Nat /\ S # {} /\ \A x \in S : x <= b
  BY <1>1, <1>2
<1>4. Checks!Max(S) \in S /\ \A x \in S : x <= Checks!Max(S)
  BY <1>1, <1>3, MaxIs
<1>5. Checks!CurrentTurnCount = Checks!Max(S)
  BY DEF Checks!CurrentTurnCount
<1> QED BY <1>3, <1>4, <1>5

LEMMA MaxOfTwo ==
  ASSUME NEW n \in Int
  PROVE  /\ Checks!Max({0, n}) \in Nat
         /\ n >= 0 => Checks!Max({0, n}) = n
         /\ n < 0 => Checks!Max({0, n}) = 0
<1>1. \E y \in {0, n} : \A x \in {0, n} : y >= x
  BY DEF Checks!Max
<1>2. Checks!Max({0, n}) \in {0, n} /\ \A x \in {0, n} : Checks!Max({0, n}) >= x
  BY <1>1 DEF Checks!Max
<1> QED BY <1>2

-----------------------------------------------------------------------------
(* What the operators of the reactor and of the queues do.                 *)
LEMMA CheckAppend ==
  ASSUME NEW S, NEW q \in Seq(S), NEW x \in S
  PROVE  /\ Append(q, x) \in Seq(S) /\ Len(q) \in Nat /\ Len(Append(q, x)) = Len(q) + 1
         /\ Append(q, x)[Len(q) + 1] = x
         /\ \A i \in 1..Len(q) : Append(q, x)[i] = q[i]
BY AppendProperties, LenProperties

LEMMA CheckTail ==
  ASSUME NEW S, NEW q \in Seq(S), q # <<>>
  PROVE  /\ Tail(q) \in Seq(S) /\ Head(q) \in S /\ Head(q) = q[1]
         /\ Len(q) \in Nat /\ Len(q) >= 1 /\ Len(Tail(q)) = Len(q) - 1
         /\ \A i \in 1..Len(Tail(q)) : Tail(q)[i] = q[i + 1] /\ i + 1 \in 1..Len(q)
BY HeadTailProperties, LenProperties, EmptySeq

LEMMA CheckElement ==
  ASSUME NEW S, NEW q \in Seq(S), NEW i \in 1..Len(q)
  PROVE  q[i] \in S
BY ElementOfSeq

LEMMA RefsWith ==
  ASSUME CheckBounds, CheckTyped, NEW n \in Nat
  PROVE  LET r == Checks!WithRef(n)
         IN  /\ DOMAIN r = DOMAIN refs \cup {n} /\ r \in [DOMAIN r -> Checks!Content]
             /\ r[n] = files /\ \A m \in DOMAIN refs : m # n => r[m] = refs[m]
BY DEF Checks!WithRef, CheckTyped

LEMMA RefsWithout ==
  ASSUME CheckTyped, NEW s
  PROVE  LET r == Checks!WithoutRefs(s)
         IN  /\ DOMAIN r = DOMAIN refs \ s /\ r \in [DOMAIN r -> Checks!Content]
             /\ \A m \in DOMAIN r : r[m] = refs[m]
BY DEF Checks!WithoutRefs, CheckTyped

LEMMA CheckpointsWith ==
  ASSUME CheckTyped, WellFormed, Bounded, NEW k \in Checks!Checkpoint
  PROVE  LET s == Checks!WithCheckpoint(k)
         IN  /\ s \subseteq Checks!Checkpoint
             /\ \A c, d \in s : c.turn = d.turn => c = d
             /\ \E b \in Nat : \A c \in s : c.count <= b
             /\ \A c \in s : c = k \/ c \in checkpoints
             /\ \A c \in checkpoints : c.turn # k.turn => c \in s
             /\ k.captured => k \in s /\ \A c \in s : c.turn = k.turn => c = k
             /\ \A c \in checkpoints : c.captured /\ ~k.captured => c \in s
             /\ ~k.captured => \A c \in s : c.captured => c \in checkpoints
<1> DEFINE s == Checks!WithCheckpoint(k)
<1> DEFINE with == {c \in checkpoints : c.turn # k.turn} \cup {k}
<1>1. s = checkpoints \/ s = with
  BY DEF Checks!WithCheckpoint
<1>2. k.captured => s = with
  BY DEF Checks!WithCheckpoint
<1>3. ~k.captured => s = checkpoints \/ (s = with /\ ~Checks!Captured(k.turn))
  <2>1. CASE Checks!Captured(k.turn)
    BY <2>1 DEF Checks!WithCheckpoint, Checks!Captured
  <2>2. CASE ~Checks!Captured(k.turn)
    BY <1>1, <2>2
  <2> QED BY <2>1, <2>2
<1>4. s \subseteq Checks!Checkpoint
  BY <1>1 DEF CheckTyped
<1>5. \A c, d \in s : c.turn = d.turn => c = d
  BY <1>1 DEF WellFormed
<1>6. \E b \in Nat : \A c \in s : c.count <= b
  <2>1. PICK b \in Nat : \A c \in checkpoints : c.count <= b
    BY DEF Bounded
  <2>2. k.count \in Nat /\ \A c \in checkpoints : c.count \in Nat
    BY CheckpointIs DEF CheckTyped
  <2>3. \A c \in s : c.count <= b + k.count
    BY <1>1, <2>1, <2>2
  <2> QED BY <2>2, <2>3
<1>7. \A c \in checkpoints : c.captured /\ ~k.captured => c \in s
  BY <1>3 DEF Checks!Captured
<1>8. k.captured \in BOOLEAN
  BY CheckpointIs
<1>9. ~k.captured => \A c \in s : c.captured => c \in checkpoints
  BY <1>3
<1> HIDE DEF s
<1> QED BY <1>1, <1>2, <1>4, <1>5, <1>6, <1>7, <1>9 DEF s

\* All turns that were asked for have ended.
LEMMA AllEnded ==
  ASSUME CheckBounds, CheckTyped, TurnsInOrder,
         turns = Checks!Cardinality({t \in Checks!Turn : ends[t] # None})
  PROVE  (turns > 0 => ends[turns] # None) /\ running = None
<1> DEFINE S == {t \in Checks!Turn : ends[t] # None}
<1>1. turns \in Nat /\ turns <= MaxTurns /\ MaxTurns \in Nat
  BY DEF CheckTyped, CheckBounds
<1>2. ASSUME turns > 0, ends[turns] = None  PROVE FALSE
  <2>1. ASSUME NEW t \in S  PROVE t \in 1..(turns - 1)
    <3>1. t \in Checks!Turn /\ ends[t] # None
      OBVIOUS
    <3>2. t \in Nat /\ t >= 1 /\ t # turns /\ ~(t > turns)
      BY <1>2, <3>1, TurnIs DEF TurnsInOrder
    <3> QED BY <1>1, <3>2
  <2>a. ASSUME NEW t \in 1..(turns - 1)  PROVE t \in S
    <3>1. t \in Checks!Turn /\ t < turns
      BY <1>1, TurnIs
    <3> QED BY <3>1 DEF TurnsInOrder
  <2>2. S = 1..(turns - 1)
    BY <2>1, <2>a
  <2>3. Cardinality(1..(turns - 1)) = turns - 1
    BY <1>1, <1>2, FS_Interval
  <2>4. Checks!Cardinality(S) = Cardinality(S)
    BY DEF Checks!Cardinality, Cardinality
  <2>5. turns = Checks!Cardinality(S)
    OBVIOUS
  <2> HIDE DEF S
  <2>6. turns = Cardinality(S)
    BY <2>4, <2>5
  <2>7. turns = Cardinality(1..(turns - 1))
    BY <2>2, <2>6
  <2> QED BY <1>1, <2>3, <2>7
<1>3. running # None => running = turns /\ turns > 0 /\ ends[turns] = None
  BY TurnIs DEF TurnsInOrder, CheckTyped
<1> QED BY <1>2, <1>3

-----------------------------------------------------------------------------
(* AnyInv is kept.  Most steps leave the checkpoints, or all that the      *)
(* reactor does, alone.                                                    *)
LEMMA SameCheckpoints ==
  ASSUME AnyInv, UNCHANGED checkpoints
  PROVE  WellFormed' /\ Bounded'
BY DEF AnyInv, WellFormed, Bounded

LEMMA SameReactor ==
  ASSUME AnyInv, UNCHANGED <<checkpoints, refs, reactor>>, faults' = 0 => faults = 0
  PROVE  WellFormed' /\ Bounded' /\ ReactorFits' /\ (faults' = 0 => RefsAreThere')
<1>1. WellFormed' /\ Bounded'
  BY SameCheckpoints
<1>2. ReactorFits'
  BY DEF AnyInv, ReactorFits, Checks!HasRef, Checks!Captured
<1>3. RefsAreThere => RefsAreThere'
  BY DEF RefsAreThere, Checks!HasRef, Deleted
<1> QED BY <1>1, <1>2, <1>3 DEF AnyInv

LEMMA SameTurns ==
  ASSUME AnyInv, UNCHANGED <<turns, running, conversation, ends>>
  PROVE  TurnsInOrder'
BY DEF AnyInv, TurnsInOrder, Remembered

LEMMA AskTurnAny ==
  ASSUME CheckBounds, AnyInv, UNCHANGED Checks!assumed, Checks!AskTurn
  PROVE  AnyInv'
<1>1. CheckTyped
  BY DEF AnyInv
<1>2. /\ turns < MaxTurns /\ turns' = turns + 1
      /\ inputs' = Append(inputs, [type |-> "start"])
      /\ turns = Checks!Cardinality({t \in Checks!Turn : ends[t] # None})
      /\ UNCHANGED <<diffs, patient, files, edits, refs, checkpoints, session, shown, running,
                     conversation, ends, events, placeholder, reactor, reverts, faults>>
  BY DEF Checks!AskTurn, Checks!Settled, Checks!assumed, Checks!readModel, Checks!ingestion
<1>3. turns \in Nat /\ turns' \in 0..MaxTurns
  BY <1>1, <1>2 DEF CheckTyped, CheckBounds
<1>4. inputs' \in Seq(Checks!Input) /\ inputs'[Len(inputs')].type = "start"
      /\ Len(inputs') = Len(inputs) + 1 /\ Len(inputs) \in Nat
      /\ \A i \in 1..Len(inputs) : inputs'[i] = inputs[i]
  BY <1>1, <1>2, CheckAppend, InputMade DEF CheckTyped
<1>5. CheckTyped'
  BY <1>1, <1>2, <1>3, <1>4 DEF CheckTyped
<1>6. TurnsInOrder'
  <2>1. running = None /\ (turns > 0 => ends[turns] # None)
    BY <1>1, <1>2, AllEnded DEF AnyInv
  <2>2. \A t \in Checks!Turn : t \in Nat /\ t >= 1
    BY TurnIs
  <2>3. \A i \in 1..Remembered : conversation[i] \in Checks!Turn
    BY <1>1, CheckElement DEF CheckTyped, Remembered
  <2>4. turns \in Nat /\ TurnsInOrder
    BY <1>3 DEF AnyInv
  <2>5. ASSUME NEW t \in Checks!Turn
        PROVE  (t < turns' => ends'[t] # None) /\ (t > turns' => ends'[t] = None)
    <3>1. t < turns' => t < turns \/ (t = turns /\ turns > 0)
      BY <1>2, <2>2, <2>4
    <3>2. t > turns' => t > turns
      BY <1>2, <2>2, <2>4
    <3> QED BY <1>2, <2>1, <2>4, <3>1, <3>2 DEF TurnsInOrder
  <2>6. running' = None
    BY <1>2, <2>1
  <2>7. \A i \in 1..Remembered : conversation[i] <= turns'
    <3>1. \A i \in 1..Remembered : conversation[i] <= turns
      BY <2>4 DEF TurnsInOrder
    <3> QED BY <1>2, <2>2, <2>3, <2>4, <3>1
  <2> QED BY <1>2, <2>4, <2>5, <2>6, <2>7 DEF TurnsInOrder, Remembered
<1>7. NoPlaceholders => NoPlaceholders'
  <2>1. \A i \in 1..Len(inputs') : i \in 1..Len(inputs) \/ i = Len(inputs')
    BY <1>4
  <2> QED BY <1>2, <1>4, <2>1 DEF NoPlaceholders
<1> QED BY <1>2, <1>5, <1>6, <1>7, SameReactor DEF AnyInv

LEMMA EditByHandAny ==
  ASSUME CheckBounds, AnyInv, UNCHANGED Checks!assumed, Checks!EditByHand
  PROVE  AnyInv'
<1>1. CheckTyped
  BY DEF AnyInv
<1>2. /\ edits < MaxEdits /\ edits' = edits + 1 /\ files' = edits'
      /\ UNCHANGED <<diffs, patient, refs, checkpoints, session, shown, turns, running,
                     conversation, ends, events, placeholder, inputs, reactor, reverts, faults>>
  BY DEF Checks!EditByHand, Checks!assumed, Checks!readModel, Checks!ingestion, Checks!provider
<1>3. edits' \in Checks!Content
  BY <1>1, <1>2 DEF CheckTyped, Checks!Content, CheckBounds
<1>4. CheckTyped'
  BY <1>1, <1>2, <1>3 DEF CheckTyped
<1>5. NoPlaceholders => NoPlaceholders'
  BY <1>2 DEF NoPlaceholders
<1> QED BY <1>2, <1>4, <1>5, SameTurns, SameReactor DEF AnyInv

LEMMA AskRevertAny ==
  ASSUME CheckBounds, AnyInv, UNCHANGED Checks!assumed,
         NEW id \in 1..MaxReverts, Checks!AskRevert(id)
  PROVE  AnyInv'
<1>1. CheckTyped
  BY DEF AnyInv
<1>2. PICK c \in checkpoints :
        /\ inputs' = Append(inputs, [type |-> "revert", count |-> Checks!Max({0, c.count - 1}),
                                     id |-> id])
        /\ reverts' = [reverts EXCEPT ![id] = "requested"]
        /\ UNCHANGED <<diffs, patient, files, edits, refs, checkpoints, session, shown, turns,
                       running, conversation, ends, events, placeholder, reactor, faults>>
  BY DEF Checks!AskRevert, Checks!assumed, Checks!readModel, Checks!ingestion, Checks!provider
<1>3. Checks!Max({0, c.count - 1}) \in Nat
  <2>1. c.count - 1 \in Int
    BY <1>1, CheckpointIs DEF CheckTyped
  <2> QED BY <2>1, MaxOfTwo
<1>4. inputs' \in Seq(Checks!Input) /\ inputs'[Len(inputs')].type = "revert"
      /\ Len(inputs') = Len(inputs) + 1 /\ Len(inputs) \in Nat
      /\ \A i \in 1..Len(inputs) : inputs'[i] = inputs[i]
  BY <1>1, <1>2, <1>3, CheckAppend, InputMade DEF CheckTyped
<1>5. reverts' \in RevertStage
  BY <1>1, <1>2 DEF CheckTyped, RevertStage
<1>6. CheckTyped'
  BY <1>1, <1>2, <1>4, <1>5 DEF CheckTyped
<1>7. NoPlaceholders => NoPlaceholders'
  <2>1. \A i \in 1..Len(inputs') : i \in 1..Len(inputs) \/ i = Len(inputs')
    BY <1>4
  <2> QED BY <1>2, <1>4, <2>1 DEF NoPlaceholders
<1> QED BY <1>2, <1>6, <1>7, SameTurns, SameReactor DEF AnyInv

-----------------------------------------------------------------------------
(* The queues, with one item more or less, and what ends a revert.         *)
LEMMA InputAdded ==
  ASSUME CheckTyped, NEW x \in Checks!Input, inputs' = Append(inputs, x)
  PROVE  /\ inputs' \in Seq(Checks!Input) /\ Len(inputs) \in Nat /\ Len(inputs') = Len(inputs) + 1
         /\ \A i \in 1..Len(inputs) : i \in 1..Len(inputs') /\ inputs'[i] = inputs[i]
         /\ \A i \in 1..Len(inputs') : (i \in 1..Len(inputs) /\ inputs'[i] = inputs[i]) \/ inputs'[i] = x
         /\ inputs'[Len(inputs')] = x
<1>1. /\ inputs' \in Seq(Checks!Input) /\ Len(inputs) \in Nat /\ Len(inputs') = Len(inputs) + 1
      /\ inputs'[Len(inputs) + 1] = x
      /\ \A i \in 1..Len(inputs) : inputs'[i] = inputs[i]
  BY CheckAppend DEF CheckTyped
<1>2. \A i \in 1..Len(inputs') : i \in 1..Len(inputs) \/ i = Len(inputs) + 1
  BY <1>1
<1> QED BY <1>1, <1>2

LEMMA EventAdded ==
  ASSUME CheckTyped, NEW x \in CheckEvent, events' = Append(events, x)
  PROVE  /\ events' \in Seq(CheckEvent) /\ Len(events) \in Nat /\ Len(events') = Len(events) + 1
         /\ \A i \in 1..Len(events') : (i \in 1..Len(events) /\ events'[i] = events[i]) \/ events'[i] = x
<1>1. /\ events' \in Seq(CheckEvent) /\ Len(events) \in Nat /\ Len(events') = Len(events) + 1
      /\ events'[Len(events) + 1] = x
      /\ \A i \in 1..Len(events) : events'[i] = events[i]
  BY CheckAppend DEF CheckTyped
<1>2. \A i \in 1..Len(events') : i \in 1..Len(events) \/ i = Len(events) + 1
  BY <1>1
<1> QED BY <1>1, <1>2

LEMMA InputTaken ==
  ASSUME CheckTyped, inputs # <<>>, inputs' = Tail(inputs)
  PROVE  /\ inputs' \in Seq(Checks!Input) /\ Head(inputs) \in Checks!Input
         /\ Head(inputs) = inputs[1] /\ 1 \in 1..Len(inputs)
         /\ Len(inputs) \in Nat /\ Len(inputs') = Len(inputs) - 1
         /\ \A i \in 1..Len(inputs') : i + 1 \in 1..Len(inputs) /\ inputs'[i] = inputs[i + 1]
BY CheckTail DEF CheckTyped

LEMMA EventTaken ==
  ASSUME CheckTyped, events # <<>>, events' = Tail(events)
  PROVE  /\ events' \in Seq(CheckEvent) /\ Head(events) \in CheckEvent
         /\ Head(events) = events[1] /\ 1 \in 1..Len(events)
         /\ Len(events) \in Nat /\ Len(events') = Len(events) - 1
         /\ \A i \in 1..Len(events') : i + 1 \in 1..Len(events) /\ events'[i] = events[i + 1]
BY CheckTail DEF CheckTyped

LEMMA FaultIs ==
  ASSUME CheckBounds, CheckTyped, Checks!Fault
  PROVE  faults' \in 0..MaxFaults /\ faults' # 0
BY DEF CheckBounds, CheckTyped, Checks!Fault

LEMMA AnswerIs ==
  ASSUME CheckTyped, NEW id, NEW outcome \in {"reverted", "failed"}, Checks!Answer(id, outcome)
  PROVE  reverts' \in RevertStage
BY DEF CheckTyped, Checks!Answer, RevertStage

LEMMA GiveUpIs ==
  ASSUME CheckTyped, Checks!GiveUp
  PROVE  reactor' = Checks!Idle /\ reactor' \in Checks!Work /\ reactor'.pc = "idle"
         /\ reverts' \in RevertStage
BY AnswerIs, WorkMade DEF Checks!GiveUp

\* An idle reactor fits any checkpoints.
LEMMA IdleFits == ASSUME reactor' = Checks!Idle PROVE ReactorFits'
BY WorkMade DEF ReactorFits, RevertSteps

\* The reactor goes on without a change of the checkpoints and refs.
LEMMA ReactorGoesOn ==
  ASSUME AnyInv, UNCHANGED <<checkpoints, refs>>, faults' = 0 => faults = 0,
         reactor.pc # "complete", reactor'.pc # "dispatch"
  PROVE  WellFormed' /\ Bounded' /\ (faults' = 0 => RefsAreThere')
<1>1. WellFormed' /\ Bounded'
  BY SameCheckpoints
<1>2. RefsAreThere => RefsAreThere'
  BY DEF RefsAreThere, Checks!HasRef, Deleted
<1> QED BY <1>1, <1>2 DEF AnyInv

LEMMA TurnStartsAny ==
  ASSUME CheckBounds, AnyInv, UNCHANGED Checks!assumed, Checks!TurnStarts
  PROVE  AnyInv'
<1>1. CheckTyped
  BY DEF AnyInv
<1>2. /\ running = None /\ turns > 0 /\ ends[turns] = None /\ running' = turns
      /\ events' = Append(events, [type |-> "started", turn |-> turns])
      /\ inputs' = Append(inputs, [type |-> "start"])
      /\ shown' = shown \cup {turns}
      /\ UNCHANGED <<diffs, patient, files, edits, refs, checkpoints, session, turns, conversation,
                     ends, placeholder, reactor, reverts, faults>>
  BY DEF Checks!TurnStarts, Checks!assumed
<1>3. turns \in Checks!Turn
  BY <1>1, <1>2, TurnIs DEF CheckTyped
<1>4a. PICK x \in Checks!Input : x = [type |-> "start"]
  BY InputMade
<1>4. x.type = "start"
  BY <1>4a
<1>5a. PICK e \in CheckEvent : e = [type |-> "started", turn |-> turns]
  BY <1>3, CheckEventMade
<1>5. e.type = "started"
  BY <1>5a
<1>6. inputs' = Append(inputs, x) /\ events' = Append(events, e)
  BY <1>2, <1>4a, <1>5a
<1>7. CheckTyped'
  BY <1>1, <1>2, <1>3, <1>4, <1>5, <1>6, InputAdded, EventAdded DEF CheckTyped
<1>8. TurnsInOrder'
  BY <1>2 DEF AnyInv, TurnsInOrder, Remembered
<1>9. NoPlaceholders => NoPlaceholders'
  <2>1. /\ \A i \in 1..Len(inputs') : (i \in 1..Len(inputs) /\ inputs'[i] = inputs[i]) \/ inputs'[i] = x
        /\ \A i \in 1..Len(events') : (i \in 1..Len(events) /\ events'[i] = events[i]) \/ events'[i] = e
    BY <1>1, <1>4, <1>5, <1>6, InputAdded, EventAdded
  <2> QED BY <1>2, <1>4, <1>5, <2>1 DEF NoPlaceholders
<1> QED BY <1>2, <1>7, <1>8, <1>9, SameReactor DEF AnyInv

LEMMA TurnEditsAny ==
  ASSUME CheckBounds, AnyInv, UNCHANGED Checks!assumed, Checks!TurnEdits
  PROVE  AnyInv'
<1>1. CheckTyped
  BY DEF AnyInv
<1>2. /\ running # None /\ edits < MaxEdits /\ edits' = edits + 1 /\ files' = edits'
      /\ events' = IF diffs THEN Append(events, [type |-> "diff", turn |-> running]) ELSE events
      /\ UNCHANGED <<diffs, patient, refs, checkpoints, session, shown, turns, running, conversation,
                     ends, placeholder, inputs, reactor, reverts, faults>>
  BY DEF Checks!TurnEdits, Checks!assumed, Checks!readModel, Checks!provider
<1>3. edits' \in Checks!Content
  <2>1. edits \in Checks!Content
    BY <1>1 DEF CheckTyped
  <2> QED BY <1>2, <2>1 DEF Checks!Content, CheckBounds
<1>4. PICK e : e = [type |-> "diff", turn |-> running] /\ e \in CheckEvent
  BY <1>1, <1>2, CheckEventMade DEF CheckTyped
<1>5. events' \in Seq(CheckEvent)
  BY <1>1, <1>2, <1>4, EventAdded DEF CheckTyped
<1>6. CheckTyped'
  BY <1>1, <1>2, <1>3, <1>5 DEF CheckTyped
<1>7. ~diffs /\ NoPlaceholders => NoPlaceholders'
  BY <1>2 DEF NoPlaceholders
<1> QED BY <1>2, <1>6, <1>7, SameTurns, SameReactor DEF AnyInv

LEMMA TurnCompletesAny ==
  ASSUME CheckBounds, AnyInv, UNCHANGED Checks!assumed, Checks!TurnCompletes
  PROVE  AnyInv'
<1>1. CheckTyped
  BY DEF AnyInv
<1>a. PICK cut \in BOOLEAN :
        inputs' = Append(inputs, [type |-> "completed", turn |-> running, cut |-> cut])
  BY DEF Checks!TurnCompletes
<1>2. /\ running # None /\ running' = None /\ conversation' = Append(conversation, running)
      /\ ends' = [ends EXCEPT ![running] = files]
      /\ events' = Append(events, [type |-> "completed", turn |-> running])
      /\ UNCHANGED <<diffs, patient, files, edits, refs, checkpoints, session, shown, turns,
                     placeholder, reactor, reverts, faults>>
  BY DEF Checks!TurnCompletes, Checks!assumed, Checks!readModel
<1>3. running \in Checks!Turn /\ running = turns /\ ends[turns] = None
  BY <1>1, <1>2 DEF CheckTyped, AnyInv, TurnsInOrder
<1>4a. PICK x \in Checks!Input : x = [type |-> "completed", turn |-> running, cut |-> cut]
  BY <1>3, InputMade
<1>4. x.type = "completed"
  BY <1>4a
<1>5a. PICK e \in CheckEvent : e = [type |-> "completed", turn |-> running]
  BY <1>3, CheckEventMade
<1>5. e.type = "completed"
  BY <1>5a
<1>6. inputs' = Append(inputs, x) /\ events' = Append(events, e)
  BY <1>a, <1>2, <1>4a, <1>5a
<1>7. ends' \in [Checks!Turn -> Checks!Content \cup {None}] /\ ends'[turns] # None
      /\ \A t \in Checks!Turn : t # turns => ends'[t] = ends[t]
  BY <1>1, <1>2, <1>3, TurnIs DEF CheckTyped
<1>8. /\ conversation' \in Seq(Checks!Turn) /\ Len(conversation) \in Nat
      /\ Len(conversation') = Len(conversation) + 1
      /\ conversation'[Len(conversation) + 1] = turns
      /\ \A i \in 1..Len(conversation) : conversation'[i] = conversation[i]
  BY <1>1, <1>2, <1>3, CheckAppend DEF CheckTyped
<1>9. CheckTyped'
  BY <1>1, <1>2, <1>4, <1>5, <1>6, <1>7, <1>8, InputAdded, EventAdded DEF CheckTyped
<1>10. TurnsInOrder'
  <2>1. TurnsInOrder /\ turns \in Nat
    BY <1>3, TurnIs DEF AnyInv
  <2>2. \A t \in Checks!Turn : t \in Nat
    BY TurnIs
  <2>3. \A i \in 1..Len(conversation) : /\ conversation[i] \in Checks!Turn /\ conversation[i] \in Nat
                                        /\ conversation[i] <= turns /\ conversation[i] # turns
                                        /\ ends[conversation[i]] # None
    BY <1>1, <1>3, <2>1, <2>2, CheckElement DEF CheckTyped, TurnsInOrder, Remembered
  <2>4. \A t \in Checks!Turn : (t < turns => ends'[t] # None) /\ (t > turns => ends'[t] = None)
    BY <1>7, <2>1, <2>2 DEF TurnsInOrder
  <2>5. \A i \in 1..Len(conversation') :
          \/ i \in 1..Len(conversation) /\ conversation'[i] = conversation[i]
          \/ i = Len(conversation) + 1 /\ conversation'[i] = turns
    BY <1>8
  <2>6. \A i \in 1..Len(conversation') : conversation'[i] <= turns /\ ends'[conversation'[i]] # None
    BY <1>7, <2>1, <2>3, <2>5
  <2>7. \A i, j \in 1..Len(conversation') : i < j => conversation'[i] < conversation'[j]
    <3> SUFFICES ASSUME NEW i \in 1..Len(conversation'), NEW j \in 1..Len(conversation'), i < j
                 PROVE  conversation'[i] < conversation'[j]
      OBVIOUS
    <3>1. i \in 1..Len(conversation)
      BY <1>8
    <3>2. CASE j \in 1..Len(conversation)
      BY <1>8, <2>1, <3>1, <3>2 DEF TurnsInOrder, Remembered
    <3>3. CASE j = Len(conversation) + 1
      BY <1>8, <2>1, <2>3, <3>1, <3>3
    <3> QED BY <2>5, <3>2, <3>3
  <2> QED BY <1>2, <2>4, <2>6, <2>7 DEF TurnsInOrder, Remembered
<1>11. NoPlaceholders => NoPlaceholders'
  <2>1. /\ \A i \in 1..Len(inputs') : (i \in 1..Len(inputs) /\ inputs'[i] = inputs[i]) \/ inputs'[i] = x
        /\ \A i \in 1..Len(events') : (i \in 1..Len(events) /\ events'[i] = events[i]) \/ events'[i] = e
    BY <1>1, <1>4, <1>5, <1>6, InputAdded, EventAdded
  <2> QED BY <1>2, <1>4, <1>5, <2>1 DEF NoPlaceholders
<1> QED BY <1>2, <1>9, <1>10, <1>11, SameReactor DEF AnyInv

LEMMA IngestAny ==
  ASSUME CheckBounds, AnyInv, UNCHANGED Checks!assumed, Checks!Ingest
  PROVE  AnyInv'
<1>1. CheckTyped
  BY DEF AnyInv
<1>2. /\ events # <<>> /\ placeholder = None /\ events' = Tail(events)
      /\ UNCHANGED <<diffs, patient, files, edits, refs, checkpoints, shown, turns, running,
                     conversation, ends, inputs, reactor, reverts, faults>>
  BY DEF Checks!Ingest, Checks!assumed, Checks!provider
<1>3. PICK e \in CheckEvent : e = Head(events) /\ e = events[1] /\ 1 \in 1..Len(events)
  BY <1>1, <1>2, EventTaken
<1>4. Checks!CurrentTurnCount + 1 \in Nat
  BY <1>1, CurrentIs DEF AnyInv
<1>5. /\ session' \in Checks!Turn \cup {None}
      /\ placeholder' \in PlaceholderRecord \cup {None}
      /\ e.type # "diff" => placeholder' = None
  <2>1. CASE e.type = "started" /\ session' = e.turn /\ UNCHANGED placeholder
    BY <1>2, <2>1, CheckEventIs
  <2>2. CASE e.type = "completed" /\ session' \in {None, session} /\ UNCHANGED placeholder
    BY <1>1, <1>2, <2>2 DEF CheckTyped
  <2>3. CASE /\ e.type = "diff" /\ UNCHANGED session
             /\ placeholder' = None \/ placeholder' = [turn |-> e.turn, count |-> Checks!CurrentTurnCount + 1]
    <3>1. e.turn \in Checks!Turn
      BY CheckEventIs
    <3>2. [turn |-> e.turn, count |-> Checks!CurrentTurnCount + 1] \in PlaceholderRecord
      BY <1>4, <3>1 DEF PlaceholderRecord
    <3> QED BY <1>1, <2>3, <3>2 DEF CheckTyped
  <2> QED BY <1>3, <2>1, <2>2, <2>3 DEF Checks!Ingest
<1>6. CheckTyped'
  BY <1>1, <1>2, <1>5, EventTaken DEF CheckTyped
<1>7. NoPlaceholders => NoPlaceholders'
  <2>1. \A i \in 1..Len(events') : i + 1 \in 1..Len(events) /\ events'[i] = events[i + 1]
    BY <1>1, <1>2, EventTaken
  <2> QED BY <1>2, <1>3, <1>5, <2>1 DEF NoPlaceholders
<1> QED BY <1>2, <1>6, <1>7, SameTurns, SameReactor DEF AnyInv

LEMMA DispatchPlaceholderAny ==
  ASSUME CheckBounds, AnyInv, UNCHANGED Checks!assumed, Checks!DispatchPlaceholder
  PROVE  AnyInv'
<1>1. CheckTyped /\ WellFormed /\ Bounded
  BY DEF AnyInv
<1>2. /\ placeholder # None /\ placeholder' = None
      /\ checkpoints' = Checks!WithCheckpoint([turn |-> placeholder.turn, count |-> placeholder.count,
                                               captured |-> FALSE, git |-> FALSE])
      /\ shown' = shown \cup {placeholder.turn}
      /\ inputs' = Append(inputs, [type |-> "placeholder", turn |-> placeholder.turn,
                                   count |-> placeholder.count])
      /\ UNCHANGED <<diffs, patient, files, edits, refs, session, turns, running, conversation, ends,
                     events, reactor, reverts, faults>>
  BY DEF Checks!DispatchPlaceholder, Checks!assumed, Checks!provider
<1>3. placeholder.turn \in Checks!Turn /\ placeholder.count \in Nat
  BY <1>1, <1>2 DEF CheckTyped, PlaceholderRecord
<1>4a. PICK k \in Checks!Checkpoint :
        k = [turn |-> placeholder.turn, count |-> placeholder.count, captured |-> FALSE, git |-> FALSE]
  BY <1>3, CheckpointMade
<1>4. k.captured = FALSE /\ k.git = FALSE
  BY <1>4a
<1>5. /\ checkpoints' \subseteq Checks!Checkpoint
      /\ \A c, d \in checkpoints' : c.turn = d.turn => c = d
      /\ \E b \in Nat : \A c \in checkpoints' : c.count <= b
      /\ \A c \in checkpoints' : c.captured \/ c.git => c \in checkpoints
  BY <1>1, <1>2, <1>4a, <1>4, CheckpointsWith
<1>6. PICK x \in Checks!Input : x = [type |-> "placeholder", turn |-> placeholder.turn,
                                     count |-> placeholder.count]
  BY <1>3, InputMade
<1>7. CheckTyped'
  BY <1>1, <1>2, <1>3, <1>5, <1>6, InputAdded DEF CheckTyped
<1>8. WellFormed' /\ Bounded'
  BY <1>5 DEF AnyInv, WellFormed, Bounded
<1>9. ReactorFits'
  BY <1>2, <1>5 DEF AnyInv, ReactorFits, Checks!HasRef, Checks!Captured
<1>10. RefsAreThere => RefsAreThere'
  BY <1>2, <1>5 DEF RefsAreThere, Checks!HasRef, Deleted
<1>11. diffs
  BY <1>2 DEF AnyInv, NoPlaceholders
<1> QED BY <1>2, <1>7, <1>8, <1>9, <1>10, <1>11, SameTurns DEF AnyInv
LEMMA NextTurnCountIs ==
  ASSUME CheckTyped, Bounded, NEW t
  PROVE  /\ Checks!NextTurnCount(t) \in Nat
         /\ \/ \E c \in checkpoints : c.turn = t /\ Checks!NextTurnCount(t) = c.count
            \/ /\ ~\E c \in checkpoints : c.turn = t
               /\ Checks!NextTurnCount(t) = Checks!CurrentTurnCount + 1
<1>1. CASE \E c \in checkpoints : c.turn = t
  <2>1. PICK c \in checkpoints : c.turn = t /\ Checks!NextTurnCount(t) = c.count
    BY <1>1 DEF Checks!NextTurnCount
  <2>2. c.count \in Nat
    BY CheckpointIs DEF CheckTyped
  <2> QED BY <2>1, <2>2
<1>2. CASE ~\E c \in checkpoints : c.turn = t
  BY <1>2, CurrentIs DEF Checks!NextTurnCount
<1> QED BY <1>1, <1>2

LEMMA TakeStartAny ==
  ASSUME CheckBounds, AnyInv, NEW x \in Checks!Input, Checks!TakeStart(x), UNCHANGED <<checkpoints, refs>>
  PROVE  reactor' \in Checks!Work /\ reverts' \in RevertStage /\ faults' = faults
         /\ reactor'.pc \in {"idle", "baseline"} /\ ReactorFits'
<1>1. CheckTyped /\ Bounded
  BY DEF AnyInv
<1>2. PICK n : n = Checks!CurrentTurnCount
  OBVIOUS
<1>3. n \in Nat
  BY <1>1, <1>2, CurrentIs
<1>4. UNCHANGED <<reverts, faults>> /\ reverts \in RevertStage
  BY <1>1 DEF Checks!TakeStart, CheckTyped
<1>5. CASE reactor' = Checks!Idle
  BY <1>4, <1>5, WorkMade, IdleFits
<1>6. CASE ~Checks!HasRef(n) /\ reactor' = [pc |-> "baseline", count |-> n]
  <2>1. reactor' \in Checks!Work /\ reactor'.pc = "baseline" /\ reactor'.count = n
    BY <1>3, <1>6, WorkMade
  <2>2. ~Checks!HasRef(n)'
    BY <1>6 DEF Checks!HasRef
  <2>3. ReactorFits'
    BY <1>6, <2>1 DEF ReactorFits, RevertSteps, Checks!HasRef
  <2> QED BY <1>4, <2>1, <2>3
<1> QED BY <1>2, <1>5, <1>6 DEF Checks!TakeStart

\* A capture of a turn begins.
LEMMA CaptureFits ==
  ASSUME NEW t \in Checks!Turn, NEW n \in Nat, NEW b \in BOOLEAN, ~Checks!Captured(t),
         UNCHANGED checkpoints,
         reactor' = [pc |-> "capture", turn |-> t, count |-> n, cut |-> b]
  PROVE  reactor' \in Checks!Work /\ reactor'.pc = "capture" /\ reactor'.turn = t /\ reactor'.count = n
         /\ ReactorFits'
<1>1. reactor' \in Checks!Work /\ reactor'.pc = "capture" /\ reactor'.turn = t /\ reactor'.count = n
  BY WorkMade
<1>2. ReactorFits'
  BY <1>1 DEF ReactorFits, RevertSteps, Checks!Captured
<1> QED BY <1>1, <1>2

LEMMA TakeCompletedAny ==
  ASSUME CheckBounds, AnyInv, NEW x \in Checks!Input, Checks!TakeCompleted(x), UNCHANGED <<checkpoints, refs>>
  PROVE  reactor' \in Checks!Work /\ reverts' \in RevertStage /\ faults' = faults
         /\ reactor'.pc \in {"idle", "capture"} /\ ReactorFits'
<1>1. CheckTyped /\ Bounded
  BY DEF AnyInv
<1>2. x.turn \in Checks!Turn /\ Checks!NextTurnCount(x.turn) \in Nat /\ x.cut \in BOOLEAN
  BY <1>1, InputIs, NextTurnCountIs DEF Checks!TakeCompleted
<1>3. UNCHANGED <<reverts, faults>> /\ reverts \in RevertStage
  BY <1>1 DEF Checks!TakeCompleted, CheckTyped
<1>4. \/ reactor' = Checks!Idle
      \/ /\ ~Checks!Captured(x.turn)
         /\ reactor' = [pc |-> "capture", turn |-> x.turn,
                        count |-> Checks!NextTurnCount(x.turn), cut |-> x.cut]
  BY DEF Checks!TakeCompleted
<1> QED BY <1>2, <1>3, <1>4, WorkMade, IdleFits, CaptureFits

LEMMA TakePlaceholderAny ==
  ASSUME CheckBounds, AnyInv, NEW x \in Checks!Input, Checks!TakePlaceholder(x),
         UNCHANGED <<checkpoints, refs>>
  PROVE  reactor' \in Checks!Work /\ reverts' \in RevertStage /\ faults' = faults
         /\ reactor'.pc \in {"idle", "capture"} /\ ReactorFits'
<1>1. CheckTyped
  BY DEF AnyInv
<1>2. x.turn \in Checks!Turn /\ x.count \in Nat
  BY InputIs DEF Checks!TakePlaceholder
<1>3. UNCHANGED <<reverts, faults>> /\ reverts \in RevertStage
  BY <1>1 DEF Checks!TakePlaceholder, CheckTyped
<1>4. \/ reactor' = Checks!Idle
      \/ /\ ~Checks!Captured(x.turn)
         /\ reactor' = [pc |-> "capture", turn |-> x.turn, count |-> x.count, cut |-> FALSE]
  BY DEF Checks!TakePlaceholder
<1>5. ASSUME ~Checks!Captured(x.turn),
             reactor' = [pc |-> "capture", turn |-> x.turn, count |-> x.count, cut |-> FALSE]
      PROVE  reactor' \in Checks!Work /\ reactor'.pc = "capture" /\ ReactorFits'
  <2>1. FALSE \in BOOLEAN
    OBVIOUS
  <2> QED BY <1>2, <1>5, <2>1, CaptureFits
<1> QED BY <1>3, <1>4, <1>5, WorkMade, IdleFits

\* What a revert begins with.
LEMMA RestoreBegins ==
  ASSUME CheckTyped, Bounded, NEW x \in Checks!Input, Checks!TakeRevert(x), UNCHANGED checkpoints,
         reactor' # Checks!Idle
  PROVE  /\ reactor' \in Checks!Work /\ reactor'.pc = "restore" /\ reactor'.count = x.count
         /\ reactor'.current = Checks!CurrentTurnCount /\ reactor'.id = x.id
         /\ x.count = 0 \/ \E c \in checkpoints : c.count = x.count
         /\ (x.count = 0 \/ \E c \in checkpoints : c.count = x.count /\ c.git)
              => reactor'.target = x.count
         /\ reactor'.stale = {c.count : c \in {d \in checkpoints : d.count > x.count /\ d.git}}
         /\ UNCHANGED <<reverts, faults>>
<1>1. PICK m, g, s :
        /\ m = Checks!CurrentTurnCount
        /\ g = IF x.count = 0 \/ \E c \in checkpoints : c.count = x.count /\ c.git
               THEN x.count ELSE None
        /\ s = {c.count : c \in {d \in checkpoints : d.count > x.count /\ d.git}}
  OBVIOUS
<1>2. /\ x.type = "revert"
      /\ x.count = 0 \/ \E c \in checkpoints : c.count = x.count
      /\ reactor' = [pc |-> "restore", id |-> x.id, count |-> x.count, current |-> m,
                     target |-> g, stale |-> s]
      /\ UNCHANGED <<reverts, faults>>
  BY <1>1 DEF Checks!TakeRevert
<1>3. x.id \in 1..MaxReverts /\ x.count \in Nat /\ m \in Nat /\ g \in Nat \cup {None}
  BY <1>1, <1>2, InputIs, CurrentIs
<1>4. s \in SUBSET Nat
  BY <1>1, CheckpointIs DEF CheckTyped
<1>5. /\ reactor' \in Checks!Work /\ reactor'.pc = "restore" /\ reactor'.id = x.id
      /\ reactor'.count = x.count /\ reactor'.current = m /\ reactor'.target = g
      /\ reactor'.stale = s
  BY <1>2, <1>3, <1>4, RevertMade
<1> QED BY <1>1, <1>2, <1>5

LEMMA TakeRevertAny ==
  ASSUME CheckBounds, AnyInv, NEW x \in Checks!Input, Checks!TakeRevert(x), UNCHANGED <<checkpoints, refs>>
  PROVE  reactor' \in Checks!Work /\ reverts' \in RevertStage
         /\ (faults' = faults \/ (faults' # 0 /\ faults' \in 0..MaxFaults))
         /\ reactor'.pc \in {"idle", "restore"} /\ ReactorFits'
<1>1. CheckTyped /\ Bounded
  BY DEF AnyInv
<1>2. CASE reactor' = Checks!Idle
  <2>1. reverts' \in RevertStage
    BY <1>1, AnswerIs DEF Checks!TakeRevert, CheckTyped
  <2>2. faults' = faults \/ (faults' # 0 /\ faults' \in 0..MaxFaults)
    BY <1>1, FaultIs DEF Checks!TakeRevert
  <2> QED BY <1>2, <2>1, <2>2, WorkMade, IdleFits
<1>3. CASE reactor' # Checks!Idle
  <2>1. /\ reactor' \in Checks!Work /\ reactor'.pc = "restore" /\ reactor'.count = x.count
        /\ reactor'.current = Checks!CurrentTurnCount
        /\ x.count = 0 \/ \E c \in checkpoints : c.count = x.count
        /\ reactor'.stale = {c.count : c \in {d \in checkpoints : d.count > x.count /\ d.git}}
        /\ UNCHANGED <<reverts, faults>>
    BY <1>1, <1>3, RestoreBegins
  <2>2. Checks!CurrentTurnCount \in Nat /\ \A c \in checkpoints : c.count <= Checks!CurrentTurnCount
    BY <1>1, CurrentIs
  <2>3. reactor'.count <= reactor'.current
    BY <2>1, <2>2
  <2>4. \A n \in reactor'.stale : n > reactor'.count
    BY <2>1
  <2>5. ReactorFits'
    BY <2>1, <2>3, <2>4 DEF ReactorFits, RevertSteps
  <2> QED BY <1>1, <2>1, <2>5 DEF CheckTyped
<1> QED BY <1>2, <1>3

LEMMA TakeInputAny ==
  ASSUME CheckBounds, AnyInv, UNCHANGED Checks!assumed, Checks!TakeInput
  PROVE  AnyInv'
<1>1. CheckTyped
  BY DEF AnyInv
<1>2. /\ reactor = Checks!Idle /\ inputs # <<>> /\ inputs' = Tail(inputs)
      /\ UNCHANGED <<diffs, patient, files, edits, refs, checkpoints, session, shown, turns, running,
                     conversation, ends, events, placeholder>>
  BY DEF Checks!TakeInput, Checks!assumed, Checks!provider, Checks!ingestion, Checks!readModel
<1>3. PICK x \in Checks!Input : x = Head(inputs)
  BY <1>1, <1>2, InputTaken
<1>4. Checks!TakeStart(x) \/ Checks!TakeCompleted(x) \/ Checks!TakePlaceholder(x) \/ Checks!TakeRevert(x)
  BY <1>3 DEF Checks!TakeInput
<1>5. /\ reactor' \in Checks!Work /\ reverts' \in RevertStage
      /\ faults' = faults \/ (faults' # 0 /\ faults' \in 0..MaxFaults)
      /\ reactor'.pc # "dispatch" /\ ReactorFits'
  BY <1>2, <1>4, TakeStartAny, TakeCompletedAny, TakePlaceholderAny, TakeRevertAny
<1>6. CheckTyped'
  BY <1>1, <1>2, <1>5, InputTaken DEF CheckTyped
<1>7. NoPlaceholders => NoPlaceholders'
  <2>1. \A i \in 1..Len(inputs') : i + 1 \in 1..Len(inputs) /\ inputs'[i] = inputs[i + 1]
    BY <1>1, <1>2, InputTaken
  <2> QED BY <1>2, <2>1 DEF NoPlaceholders
<1>8. WellFormed' /\ Bounded' /\ (faults' = 0 => RefsAreThere')
  BY <1>2, <1>5, ReactorGoesOn, WorkMade
<1> QED BY <1>2, <1>5, <1>6, <1>7, <1>8, SameTurns DEF AnyInv

LEMMA CaptureBaselineAny ==
  ASSUME CheckBounds, AnyInv, UNCHANGED Checks!assumed, Checks!CaptureBaseline
  PROVE  AnyInv'
<1>1. CheckTyped
  BY DEF AnyInv
<1>2. /\ reactor.pc = "baseline" /\ reactor' = Checks!Idle
      /\ (refs' = Checks!WithRef(reactor.count) /\ UNCHANGED faults) \/ (UNCHANGED refs /\ Checks!Fault)
      /\ UNCHANGED <<diffs, patient, files, edits, checkpoints, session, shown, turns, running,
                     conversation, ends, events, placeholder, inputs, reverts>>
  BY DEF Checks!CaptureBaseline, Checks!assumed, Checks!provider, Checks!ingestion, Checks!readModel
<1>3. reactor.count \in Nat
  BY <1>1, <1>2, WorkIs DEF CheckTyped
<1>4. /\ DOMAIN refs' \subseteq Nat /\ refs' \in [DOMAIN refs' -> Checks!Content]
      /\ DOMAIN refs \subseteq DOMAIN refs'
      /\ faults' = faults \/ (faults' # 0 /\ faults' \in 0..MaxFaults)
  <2>1. CASE refs' = Checks!WithRef(reactor.count) /\ UNCHANGED faults
    <3>1. DOMAIN refs \subseteq Nat
      BY <1>1 DEF CheckTyped
    <3>2. /\ DOMAIN refs' = DOMAIN refs \cup {reactor.count}
          /\ refs' \in [DOMAIN refs' -> Checks!Content]
      BY <1>1, <1>3, <2>1, RefsWith
    <3> QED BY <1>3, <2>1, <3>1, <3>2
  <2>2. CASE UNCHANGED refs /\ Checks!Fault
    BY <1>1, <2>2, FaultIs DEF CheckTyped
  <2> QED BY <1>2, <2>1, <2>2
<1>5. CheckTyped'
  BY <1>1, <1>2, <1>4, WorkMade DEF CheckTyped
<1>6. RefsAreThere => RefsAreThere'
  BY <1>2, <1>4, WorkMade DEF RefsAreThere, Deleted, Checks!HasRef
<1>7. NoPlaceholders => NoPlaceholders'
  BY <1>2 DEF NoPlaceholders
<1> QED BY <1>2, <1>4, <1>5, <1>6, <1>7, IdleFits, SameCheckpoints, SameTurns DEF AnyInv

LEMMA CaptureAny ==
  ASSUME CheckBounds, AnyInv, UNCHANGED Checks!assumed, Checks!Capture
  PROVE  AnyInv'
<1>1. CheckTyped
  BY DEF AnyInv
<1>2. /\ reactor.pc = "capture"
      /\ \/ /\ refs' = Checks!WithRef(reactor.count)
            /\ reactor' = [reactor EXCEPT !.pc = "dispatch"] /\ UNCHANGED faults
         \/ UNCHANGED refs /\ Checks!Fault /\ reactor' = Checks!Idle
      /\ UNCHANGED <<diffs, patient, files, edits, checkpoints, session, shown, turns, running,
                     conversation, ends, events, placeholder, inputs, reverts>>
  BY DEF Checks!Capture, Checks!assumed, Checks!provider, Checks!ingestion, Checks!readModel
<1>3. reactor.count \in Nat /\ reactor.turn \in Checks!Turn
  BY <1>1, <1>2, WorkIs DEF CheckTyped
<1>4. /\ DOMAIN refs' \subseteq Nat /\ refs' \in [DOMAIN refs' -> Checks!Content]
      /\ DOMAIN refs \subseteq DOMAIN refs'
      /\ faults' = faults \/ (faults' # 0 /\ faults' \in 0..MaxFaults)
  <2>1. CASE refs' = Checks!WithRef(reactor.count) /\ UNCHANGED faults
    <3>1. DOMAIN refs \subseteq Nat
      BY <1>1 DEF CheckTyped
    <3>2. /\ DOMAIN refs' = DOMAIN refs \cup {reactor.count}
          /\ refs' \in [DOMAIN refs' -> Checks!Content]
      BY <1>1, <1>3, <2>1, RefsWith
    <3> QED BY <1>3, <2>1, <3>1, <3>2
  <2>2. CASE UNCHANGED refs /\ Checks!Fault
    BY <1>1, <2>2, FaultIs DEF CheckTyped
  <2> QED BY <1>2, <2>1, <2>2
<1>5. /\ reactor' \in Checks!Work
      /\ \/ reactor' = Checks!Idle
         \/ /\ reactor'.pc = "dispatch" /\ reactor'.turn = reactor.turn
            /\ reactor'.count = reactor.count /\ reactor.count \in DOMAIN refs'
  <2>1. CASE refs' = Checks!WithRef(reactor.count) /\ reactor' = [reactor EXCEPT !.pc = "dispatch"]
    <3>1. reactor' \in Checks!Work /\ reactor'.pc = "dispatch" /\ reactor'.turn = reactor.turn
          /\ reactor'.count = reactor.count
      BY <1>1, <1>2, <2>1, WorkMoves DEF CheckTyped
    <3>2. DOMAIN refs' = DOMAIN refs \cup {reactor.count}
      BY <1>1, <1>3, <2>1, RefsWith
    <3> QED BY <3>1, <3>2
  <2>2. CASE reactor' = Checks!Idle
    BY <2>2, WorkMade
  <2> QED BY <1>2, <2>1, <2>2
<1>6. CheckTyped'
  BY <1>1, <1>2, <1>4, <1>5 DEF CheckTyped
<1>7. ReactorFits'
  <2>1. CASE reactor'.pc = "dispatch" /\ reactor'.turn = reactor.turn
    BY <1>2, <2>1 DEF AnyInv, ReactorFits, RevertSteps, Checks!Captured
  <2> QED BY <1>5, <2>1, IdleFits
<1>8. RefsAreThere => RefsAreThere'
  BY <1>2, <1>4, <1>5, WorkMade DEF RefsAreThere, Deleted, Checks!HasRef
<1>9. NoPlaceholders => NoPlaceholders'
  BY <1>2 DEF NoPlaceholders
<1> QED BY <1>2, <1>4, <1>6, <1>7, <1>8, <1>9, SameCheckpoints, SameTurns DEF AnyInv

\* A checkpoint that the reactor dispatches is shown.
CaptureOf(w) == [turn |-> w.turn, count |-> w.count, captured |-> ~w.cut, git |-> TRUE]
LEMMA ShownCaptured ==
  ASSUME CheckBounds, AnyInv, reactor.pc = "dispatch",
         checkpoints' = Checks!WithCheckpoint(CaptureOf(reactor))
  PROVE  \E k \in Checks!Checkpoint :
           /\ k = CaptureOf(reactor)
           /\ k.turn = reactor.turn /\ k.count = reactor.count /\ k.captured = ~reactor.cut
           /\ k.git = TRUE /\ k \in checkpoints'
           /\ checkpoints' \subseteq Checks!Checkpoint
           /\ \A c, d \in checkpoints' : c.turn = d.turn => c = d
           /\ \E b \in Nat : \A c \in checkpoints' : c.count <= b
           /\ \A c \in checkpoints' : c = k \/ (c \in checkpoints /\ c.turn # k.turn)
           /\ \A c \in checkpoints : c.turn # k.turn => c \in checkpoints'
<1>1. CheckTyped /\ WellFormed /\ Bounded /\ ~Checks!Captured(reactor.turn)
  BY DEF AnyInv, ReactorFits
<1>2. reactor.turn \in Checks!Turn /\ reactor.count \in Nat /\ reactor.cut \in BOOLEAN
  BY <1>1, WorkIs DEF CheckTyped
<1>3. PICK captured \in BOOLEAN : captured = ~reactor.cut
  OBVIOUS
<1>4. PICK k \in Checks!Checkpoint :
        /\ k = [turn |-> reactor.turn, count |-> reactor.count, captured |-> captured, git |-> TRUE]
        /\ k.turn = reactor.turn /\ k.count = reactor.count /\ k.captured = captured /\ k.git = TRUE
  BY <1>2, CheckpointMade
<1>5. k = CaptureOf(reactor)
  BY <1>3, <1>4 DEF CaptureOf
<1>6. checkpoints' = {c \in checkpoints : c.turn # k.turn} \cup {k}
  BY <1>1, <1>4, <1>5 DEF Checks!WithCheckpoint, Checks!Captured
<1>7. /\ checkpoints' \subseteq Checks!Checkpoint
      /\ \A c, d \in checkpoints' : c.turn = d.turn => c = d
      /\ \E b \in Nat : \A c \in checkpoints' : c.count <= b
  BY <1>1, <1>5, CheckpointsWith
<1>8. k.captured = ~reactor.cut
  BY <1>3, <1>4
<1> QED BY <1>4, <1>5, <1>6, <1>7, <1>8

\* The checkpoint of a turn that was cut comes back as a placeholder.
LEMMA InputsOfCapture ==
  ASSUME CheckTyped, reactor.pc = "dispatch",
         inputs' = IF reactor.cut
                   THEN Append(inputs, [type |-> "placeholder", turn |-> reactor.turn,
                                        count |-> reactor.count])
                   ELSE inputs
  PROVE  /\ inputs' \in Seq(Checks!Input)
         /\ \A i \in 1..Len(inputs) : i \in 1..Len(inputs') /\ inputs'[i] = inputs[i]
         /\ \A i \in 1..Len(inputs') :
              \/ i \in 1..Len(inputs) /\ inputs'[i] = inputs[i]
              \/ /\ inputs'[i].type = "placeholder" /\ inputs'[i].turn = reactor.turn
                 /\ inputs'[i].count = reactor.count
         /\ reactor.cut => \E i \in 1..Len(inputs') : inputs'[i].type = "placeholder"
<1>1. reactor.turn \in Checks!Turn /\ reactor.count \in Nat
  BY WorkIs DEF CheckTyped
<1>2. CASE ~reactor.cut
  BY <1>2 DEF CheckTyped
<1>3. CASE reactor.cut
  <2>1. PICK x \in Checks!Input :
          /\ x = [type |-> "placeholder", turn |-> reactor.turn, count |-> reactor.count]
          /\ x.type = "placeholder" /\ x.turn = reactor.turn /\ x.count = reactor.count
    BY <1>1, InputMade
  <2>2. inputs' = Append(inputs, x) /\ inputs \in Seq(Checks!Input)
    BY <1>3, <2>1 DEF CheckTyped
  <2>3. /\ inputs' \in Seq(Checks!Input) /\ Len(inputs) \in Nat
        /\ Len(inputs') = Len(inputs) + 1 /\ inputs'[Len(inputs) + 1] = x
        /\ \A i \in 1..Len(inputs) : inputs'[i] = inputs[i]
    BY <2>2, CheckAppend
  <2>4. \A i \in 1..Len(inputs) : i \in 1..Len(inputs')
    BY <2>3
  <2>5. \A i \in 1..Len(inputs') : i \in 1..Len(inputs) \/ inputs'[i] = x
    BY <2>3
  <2>6. Len(inputs) + 1 \in 1..Len(inputs')
    BY <2>3
  <2> QED BY <2>1, <2>3, <2>4, <2>5, <2>6
<1> QED BY <1>2, <1>3

LEMMA DispatchCaptureAny ==
  ASSUME CheckBounds, AnyInv, UNCHANGED Checks!assumed, Checks!DispatchCapture
  PROVE  AnyInv'
<1>1. CheckTyped /\ WellFormed /\ Bounded
  BY DEF AnyInv
<1>2. /\ reactor.pc = "dispatch" /\ reactor' = Checks!Idle
      /\ \/ /\ checkpoints' = Checks!WithCheckpoint(CaptureOf(reactor))
            /\ shown' = shown \cup {reactor.turn} /\ UNCHANGED faults
            /\ inputs' = IF reactor.cut
                         THEN Append(inputs, [type |-> "placeholder", turn |-> reactor.turn,
                                              count |-> reactor.count])
                         ELSE inputs
         \/ UNCHANGED <<checkpoints, shown, inputs>> /\ Checks!Fault
      /\ UNCHANGED <<diffs, patient, files, edits, refs, session, turns, running,
                     conversation, ends, events, placeholder, reverts>>
  BY DEF Checks!DispatchCapture, Checks!assumed, Checks!provider, Checks!ingestion, CaptureOf
<1>3. CASE UNCHANGED <<checkpoints, shown, inputs>> /\ Checks!Fault
  <2>1. CheckTyped'
    BY <1>1, <1>2, <1>3, FaultIs, WorkMade DEF CheckTyped
  <2>2. NoPlaceholders => NoPlaceholders'
    BY <1>2, <1>3 DEF NoPlaceholders
  <2> QED BY <1>1, <1>2, <1>3, <2>1, <2>2, FaultIs, IdleFits, SameCheckpoints, SameTurns DEF AnyInv
<1>4. CASE ~(UNCHANGED <<checkpoints, shown, inputs>> /\ Checks!Fault)
  <2>1. PICK k \in Checks!Checkpoint :
           /\ k.turn = reactor.turn /\ k.count = reactor.count /\ k.git = TRUE
           /\ checkpoints' \subseteq Checks!Checkpoint
           /\ \A c, d \in checkpoints' : c.turn = d.turn => c = d
           /\ \E b \in Nat : \A c \in checkpoints' : c.count <= b
           /\ \A c \in checkpoints' : c = k \/ (c \in checkpoints /\ c.turn # k.turn)
    BY <1>2, <1>4, ShownCaptured
  <2>2. reactor.turn \in Checks!Turn
    BY <1>1, <1>2, WorkIs DEF CheckTyped
  <2>3. CheckTyped'
    <3>1. shown' \subseteq Checks!Turn
      BY <1>1, <1>2, <1>4, <2>2 DEF CheckTyped
    <3>2. inputs' \in Seq(Checks!Input)
      BY <1>1, <1>2, <1>4, InputsOfCapture
    <3> QED BY <1>1, <1>2, <1>4, <2>1, <3>1, <3>2, WorkMade DEF CheckTyped
  <2>4. WellFormed' /\ Bounded'
    BY <1>1, <2>1 DEF WellFormed, Bounded
  <2>5. RefsAreThere => RefsAreThere'
    BY <1>2, <2>1, WorkMade DEF RefsAreThere, Deleted, Checks!HasRef
  <2>6. NoPlaceholders => NoPlaceholders'
    BY <1>2, <2>1 DEF NoPlaceholders
  <2> QED BY <1>2, <1>4, <2>3, <2>4, <2>5, <2>6, IdleFits, SameTurns DEF AnyInv
<1> QED BY <1>3, <1>4

LEMMA RestoreAny ==
  ASSUME CheckBounds, AnyInv, UNCHANGED Checks!assumed, Checks!Restore
  PROVE  AnyInv'
<1>1. CheckTyped
  BY DEF AnyInv
<1>2. /\ reactor.pc = "restore"
      /\ UNCHANGED <<diffs, patient, edits, refs, checkpoints, session, shown, turns, running,
                     conversation, ends, events, placeholder, inputs>>
  BY DEF Checks!Restore, Checks!assumed, Checks!provider, Checks!ingestion, Checks!readModel
<1>3. PICK commit :
        /\ commit = IF reactor.target # None /\ Checks!HasRef(reactor.target)
                    THEN refs[reactor.target]
                    ELSE IF reactor.count = 0 THEN 0 ELSE None
        /\ \/ /\ commit = None /\ Checks!GiveUp /\ UNCHANGED <<files, faults>>
           \/ /\ commit # None /\ files' = commit
              /\ reactor' = [reactor EXCEPT !.pc =
                               IF reactor.current > reactor.count THEN "rollback" ELSE "delete"]
              /\ UNCHANGED <<reverts, faults>>
           \/ /\ commit # None /\ Checks!Fault /\ files' \in {files, commit} /\ Checks!GiveUp
  BY DEF Checks!Restore
<1>4. commit \in Checks!Content \cup {None}
  <2>1. 0 \in Checks!Content
    BY DEF Checks!Content, CheckBounds
  <2>2. Checks!HasRef(reactor.target) => refs[reactor.target] \in Checks!Content
    BY <1>1 DEF CheckTyped, Checks!HasRef
  <2> QED BY <1>3, <2>1, <2>2
<1>5. /\ files' \in Checks!Content /\ reverts' \in RevertStage
      /\ faults' = faults \/ (faults' # 0 /\ faults' \in 0..MaxFaults)
      /\ reactor' \in Checks!Work
      /\ \/ reactor' = Checks!Idle
         \/ /\ reactor'.pc \in {"rollback", "delete"} /\ reactor'.count = reactor.count
            /\ reactor'.current = reactor.current /\ reactor'.stale = reactor.stale
  <2>1. CASE /\ Checks!GiveUp
             /\ \/ UNCHANGED <<files, faults>>
                \/ Checks!Fault /\ files' \in {files, commit} /\ commit # None
    <3>1. files' \in Checks!Content
      BY <1>1, <1>4, <2>1 DEF CheckTyped
    <3>2. faults' = faults \/ (faults' # 0 /\ faults' \in 0..MaxFaults)
      BY <1>1, <2>1, FaultIs
    <3> QED BY <1>1, <2>1, <3>1, <3>2, GiveUpIs
  <2>2. CASE /\ commit # None /\ files' = commit
             /\ reactor' = [reactor EXCEPT !.pc =
                              IF reactor.current > reactor.count THEN "rollback" ELSE "delete"]
             /\ UNCHANGED <<reverts, faults>>
    <3>1. PICK p \in {"rollback", "delete"} : reactor' = [reactor EXCEPT !.pc = p]
      BY <2>2
    <3>2. /\ reactor' \in Checks!Work /\ reactor'.pc = p /\ reactor'.count = reactor.count
          /\ reactor'.current = reactor.current /\ reactor'.stale = reactor.stale
      <4>1. reactor \in Checks!Work /\ reactor.pc \in RevertSteps /\ p \in RevertSteps
        BY <1>1, <1>2 DEF CheckTyped, RevertSteps
      <4> QED BY <3>1, <4>1, WorkMoves
    <3>3. files' \in Checks!Content
      BY <1>4, <2>2
    <3> QED BY <1>1, <2>2, <3>2, <3>3 DEF CheckTyped
  <2> QED BY <1>3, <2>1, <2>2
<1>6. CheckTyped'
  BY <1>1, <1>2, <1>5 DEF CheckTyped
<1>7. ReactorFits'
  <2>1. CASE /\ reactor'.pc \in {"rollback", "delete"} /\ reactor'.count = reactor.count
             /\ reactor'.current = reactor.current /\ reactor'.stale = reactor.stale
    BY <1>2, <2>1 DEF AnyInv, ReactorFits, RevertSteps
  <2> QED BY <1>5, <2>1, IdleFits
<1>8. WellFormed' /\ Bounded' /\ (faults' = 0 => RefsAreThere')
  BY <1>2, <1>5, ReactorGoesOn, WorkMade
<1>9. NoPlaceholders => NoPlaceholders'
  BY <1>2 DEF NoPlaceholders
<1> QED BY <1>2, <1>6, <1>7, <1>8, <1>9, SameTurns DEF AnyInv

\* The provider keeps the first turns of its conversation.
LEMMA RolledBack ==
  ASSUME CheckBounds, AnyInv, Checks!Rollback, reactor'.pc = "delete"
  PROVE  \E n \in 0..Len(conversation) :
           /\ n = Checks!Max({0, Len(conversation) - (reactor.current - reactor.count)})
           /\ conversation' \in Seq(Checks!Turn) /\ Len(conversation') = n
           /\ Len(conversation) \in Nat
           /\ \A i \in 1..n : i \in 1..Len(conversation) /\ conversation'[i] = conversation[i]
           /\ UNCHANGED <<reverts, faults>> /\ (running = None \/ ~diffs)
           /\ reactor' = [reactor EXCEPT !.pc = "delete"]
<1>1. CheckTyped
  BY DEF AnyInv
<1>2. ~Checks!GiveUp
  BY <1>1, GiveUpIs
<1>3. PICK n : n = Checks!Max({0, Len(conversation) - (reactor.current - reactor.count)})
  OBVIOUS
<1>4. /\ conversation' = SubSeq(conversation, 1, n) /\ UNCHANGED <<reverts, faults>>
      /\ running = None \/ ~diffs
      /\ reactor' = [reactor EXCEPT !.pc = "delete"] /\ reactor.pc = "rollback"
  BY <1>2, <1>3 DEF Checks!Rollback
<1>5. conversation \in Seq(Checks!Turn) /\ Len(conversation) \in Nat
  BY <1>1, LenProperties DEF CheckTyped
<1>6. reactor.current \in Nat /\ reactor.count \in Nat /\ reactor.count <= reactor.current
  BY <1>1, <1>4, WorkIs DEF CheckTyped, AnyInv, ReactorFits, RevertSteps
<1>7. n \in 0..Len(conversation)
  <2>1. PICK m \in Int : m = Len(conversation) - (reactor.current - reactor.count)
    BY <1>5, <1>6
  <2>2. m <= Len(conversation)
    BY <1>5, <1>6, <2>1
  <2>3. n \in Nat /\ (m >= 0 => n = m) /\ (m < 0 => n = 0)
    BY <1>3, <2>1, MaxOfTwo
  <2> QED BY <1>5, <2>2, <2>3
<1>8. /\ conversation' \in Seq(Checks!Turn) /\ Len(conversation') = n
      /\ \A i \in 1..n : conversation'[i] = conversation[i]
  <2>1. \A i \in 1..n : conversation[i] \in Checks!Turn
    BY <1>5, <1>7, CheckElement
  <2>2. 1 \in Nat /\ n \in Nat /\ \A i \in 1..n : i \in 1..Len(conversation)
    BY <1>5, <1>7
  <2> QED BY <1>4, <1>5, <1>7, <2>1, <2>2
<1>9. \A i \in 1..n : i \in 1..Len(conversation)
  BY <1>5, <1>7
<1> QED BY <1>3, <1>4, <1>5, <1>7, <1>8, <1>9

LEMMA RollbackAny ==
  ASSUME CheckBounds, AnyInv, UNCHANGED Checks!assumed, Checks!Rollback
  PROVE  AnyInv'
<1>1. CheckTyped
  BY DEF AnyInv
<1>2. /\ reactor.pc = "rollback"
      /\ UNCHANGED <<diffs, patient, files, edits, refs, checkpoints, session, shown, turns, running,
                     ends, events, placeholder, inputs>>
  BY DEF Checks!Rollback, Checks!assumed, Checks!ingestion, Checks!readModel
<1>3. NoPlaceholders => NoPlaceholders'
  BY <1>2 DEF NoPlaceholders
<1>4. CASE Checks!GiveUp /\ UNCHANGED conversation /\ (UNCHANGED faults \/ Checks!Fault)
  <2>1. faults' = faults \/ (faults' # 0 /\ faults' \in 0..MaxFaults)
    BY <1>1, <1>4, FaultIs
  <2>2. CheckTyped'
    BY <1>1, <1>2, <1>4, <2>1, GiveUpIs DEF CheckTyped
  <2>3. WellFormed' /\ Bounded' /\ (faults' = 0 => RefsAreThere')
    BY <1>1, <1>2, <1>4, <2>1, GiveUpIs, ReactorGoesOn
  <2>4. ReactorFits'
    BY <1>1, <1>4, GiveUpIs, IdleFits
  <2> QED BY <1>2, <1>3, <1>4, <2>2, <2>3, <2>4, SameTurns DEF AnyInv
<1>5. CASE reactor' = [reactor EXCEPT !.pc = "delete"]
  <2>1. /\ reactor' \in Checks!Work /\ reactor'.pc = "delete" /\ reactor'.count = reactor.count
        /\ reactor'.current = reactor.current /\ reactor'.stale = reactor.stale
    BY <1>1, <1>2, <1>5, WorkMoves DEF CheckTyped, RevertSteps
  <2>2. PICK n \in 0..Len(conversation) :
           /\ conversation' \in Seq(Checks!Turn) /\ Len(conversation') = n
           /\ Len(conversation) \in Nat
           /\ \A i \in 1..n : i \in 1..Len(conversation) /\ conversation'[i] = conversation[i]
           /\ UNCHANGED <<reverts, faults>>
    BY <2>1, RolledBack
  <2>3. CheckTyped'
    BY <1>1, <1>2, <2>1, <2>2 DEF CheckTyped
  <2>4. TurnsInOrder'
    BY <1>2, <2>2 DEF AnyInv, TurnsInOrder, Remembered
  <2>5. ReactorFits'
    BY <1>2, <2>1 DEF AnyInv, ReactorFits, RevertSteps
  <2>6. WellFormed' /\ Bounded' /\ (faults' = 0 => RefsAreThere')
    BY <1>2, <2>1, <2>2, ReactorGoesOn
  <2> QED BY <1>2, <1>3, <2>3, <2>4, <2>5, <2>6 DEF AnyInv
<1> QED BY <1>4, <1>5 DEF Checks!Rollback

LEMMA DeleteRefsAny ==
  ASSUME CheckBounds, AnyInv, UNCHANGED Checks!assumed, Checks!DeleteRefs
  PROVE  AnyInv'
<1>1. CheckTyped
  BY DEF AnyInv
<1>2. /\ reactor.pc = "delete"
      /\ UNCHANGED <<diffs, patient, files, edits, checkpoints, session, shown, turns, running,
                     conversation, ends, events, placeholder, inputs>>
  BY DEF Checks!DeleteRefs, Checks!assumed, Checks!ingestion, Checks!readModel, Checks!provider
<1>3. NoPlaceholders => NoPlaceholders'
  BY <1>2 DEF NoPlaceholders
<1>4. \E gone : refs' = Checks!WithoutRefs(gone)
  BY DEF Checks!DeleteRefs
<1>5. DOMAIN refs' \subseteq Nat /\ refs' \in [DOMAIN refs' -> Checks!Content]
  <2>1. DOMAIN refs \subseteq Nat
    BY <1>1 DEF CheckTyped
  <2>2. PICK gone : refs' = Checks!WithoutRefs(gone)
    BY <1>4
  <2>3. DOMAIN refs' = DOMAIN refs \ gone /\ refs' \in [DOMAIN refs' -> Checks!Content]
    BY <1>1, <2>2, RefsWithout
  <2> QED BY <2>1, <2>3
<1>6. CASE Checks!GiveUp /\ Checks!Fault
  <2>1. CheckTyped'
    BY <1>1, <1>2, <1>5, <1>6, FaultIs, GiveUpIs DEF CheckTyped
  <2>2. ReactorFits' /\ faults' # 0
    BY <1>1, <1>6, FaultIs, GiveUpIs, IdleFits
  <2> QED BY <1>2, <1>3, <2>1, <2>2, SameCheckpoints, SameTurns DEF AnyInv
<1>7. CASE /\ refs' = Checks!WithoutRefs(reactor.stale)
           /\ reactor' = [reactor EXCEPT !.pc = "complete"] /\ UNCHANGED <<reverts, faults>>
  <2>1. /\ reactor' \in Checks!Work /\ reactor'.pc = "complete" /\ reactor'.count = reactor.count
        /\ reactor'.current = reactor.current /\ reactor'.stale = reactor.stale
    BY <1>1, <1>2, <1>7, WorkMoves DEF CheckTyped, RevertSteps
  <2>2. CheckTyped'
    BY <1>1, <1>2, <1>5, <1>7, <2>1 DEF CheckTyped
  <2>3. ReactorFits'
    BY <1>2, <2>1 DEF AnyInv, ReactorFits, RevertSteps
  <2>4. DOMAIN refs' = DOMAIN refs \ reactor.stale
    BY <1>1, <1>7, RefsWithout
  <2>5. RefsAreThere => RefsAreThere'
    BY <1>2, <2>1, <2>4 DEF RefsAreThere, Deleted, Checks!HasRef
  <2> QED BY <1>2, <1>3, <1>7, <2>2, <2>3, <2>5, SameCheckpoints, SameTurns DEF AnyInv
<1> QED BY <1>6, <1>7 DEF Checks!DeleteRefs

LEMMA CompleteRevertAny ==
  ASSUME CheckBounds, AnyInv, UNCHANGED Checks!assumed, Checks!CompleteRevert
  PROVE  AnyInv'
<1>1. CheckTyped
  BY DEF AnyInv
<1>2. /\ reactor.pc = "complete"
      /\ UNCHANGED <<diffs, patient, files, edits, refs, session, turns, running,
                     conversation, ends, events, placeholder, inputs>>
  BY DEF Checks!CompleteRevert, Checks!assumed, Checks!ingestion, Checks!provider
<1>3. CASE Checks!GiveUp /\ Checks!Fault /\ UNCHANGED <<checkpoints, shown>>
  <2>1. CheckTyped'
    BY <1>1, <1>2, <1>3, FaultIs, GiveUpIs DEF CheckTyped
  <2>2. ReactorFits' /\ faults' # 0
    BY <1>1, <1>3, FaultIs, GiveUpIs, IdleFits
  <2>3. NoPlaceholders => NoPlaceholders'
    BY <1>2, <1>3 DEF NoPlaceholders
  <2> QED BY <1>2, <1>3, <2>1, <2>2, <2>3, SameCheckpoints, SameTurns DEF AnyInv
<1>4. CASE /\ checkpoints' = {c \in checkpoints : c.count <= reactor.count}
           /\ shown' = {c.turn : c \in checkpoints'}
           /\ Checks!Answer(reactor.id, "reverted") /\ reactor' = Checks!Idle /\ UNCHANGED faults
  <2>1. shown' \subseteq Checks!Turn
    BY <1>1, <1>4, CheckpointIs DEF CheckTyped
  <2>2. CheckTyped'
    BY <1>1, <1>2, <1>4, <2>1, AnswerIs, WorkMade DEF CheckTyped
  <2>3. WellFormed' /\ Bounded'
    BY <1>4 DEF AnyInv, WellFormed, Bounded
  <2>4. NoPlaceholders => NoPlaceholders'
    BY <1>2, <1>4 DEF NoPlaceholders
  <2>5. RefsAreThere => RefsAreThere'
    <3>1. reactor.count \in Nat /\ reactor.stale \in SUBSET Nat /\ \A n \in reactor.stale : n > reactor.count
      BY <1>1, <1>2, WorkIs DEF CheckTyped, AnyInv, ReactorFits, RevertSteps
    <3>2. \A c \in checkpoints' : ~Deleted(c)
      BY <1>1, <1>4, <3>1 DEF Deleted
    <3> QED BY <1>2, <1>4, <3>2, WorkMade DEF RefsAreThere, Checks!HasRef
  <2> QED BY <1>2, <1>4, <2>2, <2>3, <2>4, <2>5, IdleFits, SameTurns DEF AnyInv
<1> QED BY <1>3, <1>4 DEF Checks!CompleteRevert

LEMMA AnyKept ==
  ASSUME CheckBounds, AnyInv, Checks!Next
  PROVE  AnyInv'
BY AskTurnAny, EditByHandAny, AskRevertAny, TurnStartsAny, TurnEditsAny, TurnCompletesAny, IngestAny,
   DispatchPlaceholderAny, TakeInputAny, CaptureBaselineAny, CaptureAny, DispatchCaptureAny,
   RestoreAny, RollbackAny, DeleteRefsAny, CompleteRevertAny DEF Checks!Next

LEMMA AnyStill ==
  ASSUME AnyInv, UNCHANGED <<diffs, patient, Checks!vars>>
  PROVE  AnyInv'
<1>1. UNCHANGED <<diffs, patient, files, edits, refs, checkpoints, session, shown, turns, running,
                  conversation, events, placeholder, inputs, reactor, reverts, faults, ends>>
  BY DEF Checks!vars, Checks!readModel, Checks!provider, Checks!ingestion
<1>2. CheckTyped'
  BY <1>1 DEF AnyInv, CheckTyped
<1>3. NoPlaceholders => NoPlaceholders'
  BY <1>1 DEF NoPlaceholders
<1> QED BY <1>1, <1>2, <1>3, SameTurns, SameReactor DEF AnyInv
-----------------------------------------------------------------------------
(* The conversation and the turn that was asked for last.                  *)
LEMMA BaseIs ==
  ASSUME CheckBounds, AnyInv
  PROVE  /\ Remembered \in Nat /\ Base \in Nat /\ Base <= Remembered
         /\ Last => Base + 1 = Remembered /\ running = None
         /\ ~Last => Base = Remembered
         /\ turns \in Nat /\ (Begun => turns \in Checks!Turn)
         /\ \A i \in 1..Remembered : conversation[i] \in Checks!Turn /\ conversation[i] \in Nat
         /\ \A i \in 1..Base : i \in 1..Remembered /\ conversation[i] # turns
<1>1. CheckTyped /\ TurnsInOrder
  BY DEF AnyInv
<1>2. Remembered \in Nat /\ turns \in Nat
  BY <1>1, LenProperties DEF CheckTyped, Remembered
<1>3. \A i \in 1..Remembered : conversation[i] \in Checks!Turn /\ conversation[i] \in Nat
  BY <1>1, CheckElement, TurnIs DEF CheckTyped, Remembered
<1>4. CASE Last
  <2>1. Remembered \in 1..Remembered /\ conversation[Remembered] = turns
    BY <1>2, <1>4 DEF Last
  <2>2. turns \in Checks!Turn /\ running = None
    BY <1>1, <1>3, <2>1 DEF TurnsInOrder
  <2>3. Base = Remembered - 1 /\ Base \in Nat
    BY <1>2, <1>4, <2>1 DEF Base
  <2>4. \A i \in 1..Base : i \in 1..Remembered /\ i < Remembered
    BY <1>2, <2>3
  <2>5. \A i \in 1..Base : conversation[i] < turns /\ conversation[i] \in Nat
    BY <1>1, <1>3, <2>1, <2>4 DEF TurnsInOrder
  <2>6. \A i \in 1..Base : conversation[i] # turns
    BY <1>2, <2>5
  <2> QED BY <1>2, <1>3, <1>4, <2>2, <2>3, <2>4, <2>6
<1>5. CASE ~Last
  <2>1. Base = Remembered
    BY <1>5 DEF Base
  <2>2. ASSUME NEW i \in 1..Remembered  PROVE conversation[i] # turns
    <3>1. CASE i = Remembered
      BY <1>2, <1>5, <3>1 DEF Last
    <3>2. CASE i < Remembered
      <4>1. Remembered \in 1..Remembered
        BY <1>2, <3>2
      <4>2. conversation[i] < conversation[Remembered] /\ conversation[Remembered] <= turns
        BY <1>1, <3>2, <4>1 DEF TurnsInOrder
      <4> QED BY <1>2, <1>3, <4>1, <4>2
    <3> QED BY <1>2, <3>1, <3>2
  <2>3. Begun => turns \in Checks!Turn
    BY <1>1, <1>5 DEF Begun, CheckTyped, TurnsInOrder
  <2> QED BY <1>2, <1>3, <1>5, <2>1, <2>2, <2>3
<1> QED BY <1>4, <1>5

LEMMA CheckpointOfIs ==
  ASSUME CheckBounds, AnyInv, NEW i \in 1..Remembered
  PROVE  /\ CheckpointOf(i) \in Checks!Checkpoint
         /\ CheckpointOf(i).turn = conversation[i] /\ CheckpointOf(i).count = i
         /\ CheckpointOf(i).captured = TRUE /\ CheckpointOf(i).git = TRUE
<1>1. conversation[i] \in Checks!Turn /\ i \in Nat
  BY BaseIs
<1> QED BY <1>1, CheckpointMade DEF CheckpointOf

LEMMA IsPastIs ==
  ASSUME CheckBounds, AnyInv, NEW c, NEW n \in 0..Remembered, IsPast(c, n)
  PROVE  /\ c.count \in Nat /\ c.count >= 1 /\ c.count <= n /\ c.count \in 1..Remembered
         /\ c.captured = TRUE /\ c.turn = conversation[c.count]
<1>1. Remembered \in Nat
  BY BaseIs
<1>2. PICK i \in 1..n : i = c.count /\ c = CheckpointOf(i)
  BY DEF IsPast
<1>3. i \in 1..Remembered /\ i \in Nat /\ i >= 1 /\ i <= n
  BY <1>1
<1>4. c.turn = conversation[i] /\ c.captured = TRUE
  BY <1>2, <1>3, CheckpointOfIs
<1> QED BY <1>2, <1>3, <1>4

\* Where no checkpoint of the latest turn is shown, the last count is Base.
LEMMA CurrentIsLast ==
  ASSUME CheckBounds, AnyInv, NEW n \in 0..Remembered,
         ShowsTo(n), \A c \in checkpoints : IsPast(c, n)
  PROVE  Checks!CurrentTurnCount = n
<1>1. n \in Nat /\ Remembered \in Nat
  BY BaseIs
<1>2. PICK m : m = Checks!CurrentTurnCount
  OBVIOUS
<1>3. m \in Nat /\ (\A c \in checkpoints : c.count <= m) /\ (m = 0 \/ \E c \in checkpoints : c.count = m)
  BY <1>2, CurrentIs DEF AnyInv
<1>4. m <= n
  <2>1. \A c \in checkpoints : c.count <= n
    BY IsPastIs
  <2> QED BY <1>1, <1>3, <2>1
<1>5. CASE n = 0
  BY <1>2, <1>3, <1>4, <1>5
<1>6. CASE n > 0
  <2>1. n \in 1..n /\ n \in 1..Remembered
    BY <1>1, <1>6
  <2>2. CheckpointOf(n) \in checkpoints /\ CheckpointOf(n).count = n
    BY <2>1, CheckpointOfIs DEF ShowsTo
  <2>3. n <= m
    BY <1>3, <2>2
  <2> QED BY <1>1, <1>2, <1>3, <1>4, <2>3
<1> QED BY <1>1, <1>5, <1>6

\* The count that is next for the latest turn.
LEMMA NextIsLatest ==
  ASSUME CheckBounds, AnyInv, TurnState
  PROVE  /\ ~(\E c \in checkpoints : c.turn = turns) => Checks!CurrentTurnCount = Base
         /\ Checks!NextTurnCount(turns) = Base + 1
<1>1. Base \in Nat /\ Base \in 0..Remembered
  BY BaseIs
<1>2. ASSUME NEW c \in checkpoints, IsPast(c, Base)  PROVE c.turn # turns
  <2>1. c.count \in 1..Base /\ c.turn = conversation[c.count]
    BY <1>1, <1>2, IsPastIs DEF IsPast
  <2> QED BY <2>1, BaseIs
<1>3. ASSUME ~\E c \in checkpoints : c.turn = turns  PROVE Checks!CurrentTurnCount = Base
  <2>1. \A c \in checkpoints : IsPast(c, Base)
    BY <1>3 DEF TurnState, IsLatest
  <2> QED BY <1>1, <2>1, CurrentIsLast DEF TurnState
<1>4. ASSUME NEW c \in checkpoints, c.turn = turns  PROVE c.count = Base + 1
  BY <1>2, <1>4 DEF TurnState, IsLatest
<1> QED BY <1>3, <1>4, NextTurnCountIs DEF AnyInv

\* When all is quiet, all checkpoints are those of the conversation.
LEMMA QuietState ==
  ASSUME CheckBounds, AnyInv, PatientInv, Checks!Settled
  PROVE  /\ AllShown /\ TurnState /\ running = None /\ session = None /\ events = <<>>
         /\ placeholder = None /\ inputs = <<>> /\ reactor = Checks!Idle
         /\ turns > 0 => ends[turns] # None
<1>1. /\ running = None /\ session = None /\ events = <<>> /\ placeholder = None
      /\ inputs = <<>> /\ reactor = Checks!Idle
      /\ turns = Checks!Cardinality({t \in Checks!Turn : ends[t] # None})
  BY DEF Checks!Settled
<1>2. turns > 0 => ends[turns] # None
  BY <1>1, AllEnded DEF AnyInv
<1>3. Len(inputs) = 0
  BY <1>1
<1>4. TurnState
  BY <1>1, <1>3, WorkMade DEF PatientInv, Reverting, RevertSteps
<1>5. ~CaptureWaits /\ reactor.pc \notin {"capture", "dispatch"}
  BY <1>1, <1>3, WorkMade DEF CaptureWaits
<1>6. Base \in 0..Remembered /\ Remembered \in 0..Remembered
  BY BaseIs
<1>7. ASSUME Last  PROVE /\ CheckpointOf(Remembered) \in checkpoints /\ Base + 1 = Remembered
                         /\ \A c \in checkpoints : c.turn = turns => c = CheckpointOf(Remembered)
  <2>1. PICK c \in checkpoints : c.turn = turns /\ c.captured
    BY <1>4, <1>5, <1>7 DEF TurnState, WillBeCaptured, Checks!Captured
  <2>2. ASSUME IsPast(c, Base)  PROVE FALSE
    <3>1. c.count \in 1..Base /\ c.turn = conversation[c.count]
      BY <1>6, <2>2, IsPastIs DEF IsPast
    <3> QED BY <2>1, <3>1, BaseIs
  <2>3. c.count = Remembered /\ c.turn = conversation[Remembered] /\ Remembered \in 1..Remembered
    BY <1>4, <1>7, <2>1, <2>2, BaseIs DEF TurnState, IsLatest, Last
  <2>4. c \in Checks!Checkpoint /\ c.captured = TRUE /\ c.git = TRUE
    BY <2>1, CheckpointIs DEF AnyInv, CheckTyped, WellFormed
  <2>5. c = CheckpointOf(Remembered)
    <3>1. PICK d : d = CheckpointOf(Remembered)
      OBVIOUS
    <3>2. d \in Checks!Checkpoint /\ d.turn = conversation[Remembered] /\ d.count = Remembered
          /\ d.captured = TRUE /\ d.git = TRUE
      BY <2>3, <3>1, CheckpointOfIs
    <3>3. c.turn = d.turn /\ c.count = d.count /\ c.captured = d.captured /\ c.git = d.git
      BY <2>3, <2>4, <3>2
    <3>4. c = d
      BY <2>4, <3>2, <3>3, CheckpointEqual
    <3> QED BY <3>1, <3>4
  <2> QED BY <1>7, <2>1, <2>5, BaseIs DEF AnyInv, WellFormed
<1>8. ASSUME NEW c \in checkpoints  PROVE IsPast(c, Remembered)
  <2>1. CASE IsPast(c, Base)
    BY <1>6, <2>1, IsPastIs, BaseIs DEF IsPast
  <2>2. CASE IsLatest(c)
    <3>1. Last /\ c.turn = turns /\ c.count = Base + 1
      BY <1>1, <2>2 DEF IsLatest, Begun
    <3>2. Base + 1 = Remembered /\ Remembered \in 1..Remembered /\ c = CheckpointOf(Remembered)
      BY <1>7, <3>1, BaseIs
    <3> QED BY <3>1, <3>2 DEF IsPast
  <2> QED BY <1>4, <2>1, <2>2 DEF TurnState
<1>9. ShowsTo(Remembered)
  <2>1. \A i \in 1..Remembered : i \in 1..Base \/ (Last /\ i = Remembered)
    BY BaseIs
  <2> QED BY <1>4, <1>7, <2>1 DEF TurnState, ShowsTo
<1> QED BY <1>1, <1>2, <1>4, <1>8, <1>9 DEF AllShown, TurnState

\* Steps that leave the conversation, or all that is shown, alone.
LEMMA SameConversation ==
  ASSUME UNCHANGED <<turns, running, conversation>>
  PROVE  /\ Remembered' = Remembered /\ (Last' <=> Last) /\ (Begun' <=> Begun) /\ Base' = Base
         /\ \A i : CheckpointOf(i)' = CheckpointOf(i)
         /\ \A c, n : IsPast(c, n)' <=> IsPast(c, n)
         /\ \A c : IsLatest(c)' <=> IsLatest(c)
<1>1. Remembered' = Remembered
  BY DEF Remembered
<1>2. Last' <=> Last
  BY <1>1 DEF Last
<1>3. (Begun' <=> Begun) /\ Base' = Base
  BY <1>1, <1>2 DEF Begun, Base
<1>4. \A i : CheckpointOf(i)' = CheckpointOf(i)
  BY DEF CheckpointOf
<1>5. \A c, n : IsPast(c, n)' <=> IsPast(c, n)
  BY <1>4 DEF IsPast
<1>6. \A c : IsLatest(c)' <=> IsLatest(c)
  BY <1>3 DEF IsLatest
<1> QED BY <1>1, <1>2, <1>3, <1>4, <1>5, <1>6

LEMMA SameShown ==
  ASSUME UNCHANGED <<turns, running, conversation, checkpoints, shown>>
  PROVE  /\ Checks!CountsAreUnique => Checks!CountsAreUnique'
         /\ AllShown => AllShown'
         /\ TurnState /\ OfLatest' /\ WillBeCaptured' => TurnState'
<1>1. Checks!CountsAreUnique => Checks!CountsAreUnique'
  BY DEF Checks!CountsAreUnique
<1>2. \A n : ShowsTo(n) => ShowsTo(n)'
  BY SameConversation DEF ShowsTo
<1>3. ShownIsRemembered => ShownIsRemembered'
  BY SameConversation DEF ShownIsRemembered
<1>4. AllShown => AllShown'
  BY <1>2, <1>3, SameConversation DEF AllShown
<1>5. TurnState /\ OfLatest' /\ WillBeCaptured' => TurnState'
  BY <1>2, <1>3, SameConversation DEF TurnState
<1> QED BY <1>1, <1>4, <1>5
-----------------------------------------------------------------------------
(* With a user who waits and without a failure, PatientInv is kept.        *)
LEMMA AskTurnPatient ==
  ASSUME CheckBounds, AnyInv, PatientInv, patient, UNCHANGED Checks!assumed, Checks!AskTurn
  PROVE  PatientInv'
<1>1. /\ Checks!Settled /\ turns' = turns + 1
      /\ inputs' = Append(inputs, [type |-> "start"])
      /\ UNCHANGED <<checkpoints, session, shown, running, conversation, events, placeholder, reactor>>
  BY DEF Checks!AskTurn, Checks!readModel, Checks!ingestion
<1>2. /\ AllShown /\ running = None /\ session = None /\ events = <<>> /\ placeholder = None
      /\ inputs = <<>> /\ reactor = Checks!Idle
  BY <1>1, QuietState
<1>3. PICK x \in Checks!Input : x = [type |-> "start"]
  BY InputMade
<1>4. x.type = "start"
  BY <1>3
<1>5. \A i \in 1..Len(inputs') : inputs'[i] = x
  <2>1. \A i \in 1..Len(inputs') : (i \in 1..Len(inputs) /\ inputs'[i] = inputs[i]) \/ inputs'[i] = x
    BY <1>1, <1>3, InputAdded DEF AnyInv
  <2>2. Len(inputs) = 0
    BY <1>2
  <2> QED BY <2>1, <2>2
<1>6. reactor'.pc = "idle"
  BY <1>1, <1>2, WorkMade
<1>7. ~Reverting'
  BY <1>4, <1>5, <1>6 DEF Reverting, RevertSteps
<1>8. Remembered' = Remembered /\ ~Last' /\ ~Begun' /\ Base' = Remembered
  <2>1. Remembered' = Remembered
    BY <1>1 DEF Remembered
  <2>2. ~Last'
    <3>1. Remembered \in Nat /\ turns \in Nat
      BY BaseIs
    <3>2. Remembered > 0 => conversation[Remembered] <= turns /\ conversation[Remembered] \in Nat
      BY <3>1, BaseIs DEF AnyInv, TurnsInOrder
    <3> QED BY <1>1, <2>1, <3>1, <3>2 DEF Last
  <2>3. ~Begun'
    BY <1>1, <1>2, <2>2 DEF Begun
  <2> QED BY <2>1, <2>2, <2>3 DEF Base
<1>9. \A c \in checkpoints' : IsPast(c, Base)'
  BY <1>1, <1>2, <1>8 DEF AllShown, IsPast, CheckpointOf
<1>10. ShowsTo(Base)'
  BY <1>1, <1>2, <1>8 DEF AllShown, ShowsTo, CheckpointOf
<1>11. ShownIsRemembered'
  BY <1>1, <1>2, <1>8 DEF AllShown, ShownIsRemembered
<1>12. OfLatest'
  BY <1>1, <1>2, <1>4, <1>5, <1>6 DEF OfLatest
<1>13. WillBeCaptured'
  BY <1>8 DEF WillBeCaptured
<1>14. Checks!CountsAreUnique'
  BY <1>1 DEF PatientInv, Checks!CountsAreUnique
<1> QED BY <1>7, <1>9, <1>10, <1>11, <1>12, <1>13, <1>14 DEF PatientInv, TurnState

LEMMA PatientStill ==
  ASSUME PatientInv, UNCHANGED <<checkpoints, session, shown, turns, running, conversation, events,
                                 placeholder, inputs, reactor, ends>>
  PROVE  PatientInv'
<1>1. (Reverting' <=> Reverting) /\ (CaptureWaits' <=> CaptureWaits)
  BY DEF Reverting, CaptureWaits
<1>2. OfLatest => OfLatest'
  BY SameConversation DEF OfLatest
<1>3. WillBeCaptured => WillBeCaptured'
  BY <1>1, SameConversation DEF WillBeCaptured, Checks!Captured
<1>4. RevertState => RevertState'
  <2>1. AllShown => AllShown'
    BY SameShown
  <2>2. \A n : ShowsTo(n) => ShowsTo(n)'
    BY SameConversation DEF ShowsTo
  <2> QED BY <2>1, <2>2, SameConversation DEF RevertState
<1> QED BY <1>1, <1>2, <1>3, <1>4, SameShown DEF PatientInv, TurnState

LEMMA EditByHandPatient ==
  ASSUME CheckBounds, AnyInv, PatientInv, UNCHANGED Checks!assumed, Checks!EditByHand
  PROVE  PatientInv'
<1>1. UNCHANGED <<checkpoints, session, shown, turns, running, conversation, events,
                  placeholder, inputs, reactor, ends>>
  BY DEF Checks!EditByHand, Checks!readModel, Checks!ingestion, Checks!provider
<1> QED BY <1>1, PatientStill

LEMMA AskRevertPatient ==
  ASSUME CheckBounds, AnyInv, PatientInv, patient, UNCHANGED Checks!assumed,
         NEW id \in 1..MaxReverts, Checks!AskRevert(id)
  PROVE  PatientInv'
<1>1. PICK c \in checkpoints :
        /\ Checks!Settled
        /\ inputs' = Append(inputs, [type |-> "revert", count |-> Checks!Max({0, c.count - 1}),
                                     id |-> id])
        /\ UNCHANGED <<checkpoints, session, shown, turns, running, conversation, ends, events,
                       placeholder, reactor>>
  BY DEF Checks!AskRevert, Checks!readModel, Checks!ingestion, Checks!provider
<1>2. /\ AllShown /\ running = None /\ session = None /\ events = <<>> /\ placeholder = None
      /\ inputs = <<>> /\ reactor = Checks!Idle
      /\ turns > 0 => ends[turns] # None
  BY <1>1, QuietState
<1>3. Remembered \in Nat /\ c.count \in 1..Remembered
  BY <1>2, BaseIs DEF AllShown, IsPast
<1>4. PICK n \in Nat : n = c.count - 1 /\ n < Remembered
  BY <1>3
<1>5. Checks!Max({0, c.count - 1}) = n
  BY <1>4, MaxOfTwo
<1>6. PICK x \in Checks!Input : x = [type |-> "revert", count |-> n, id |-> id]
  BY InputMade
<1>7. x.type = "revert" /\ x.count = n
  BY <1>6
<1>8. Len(inputs') = 1 /\ inputs'[1] = x
  BY <1>1, <1>2, <1>5, <1>6
<1>9. Reverting'
  BY <1>7, <1>8 DEF Reverting
<1>10. AllShown' /\ Remembered' = Remembered
  BY <1>1, <1>2, SameShown, SameConversation
<1>11. RevertState'
  BY <1>1, <1>2, <1>4, <1>7, <1>8, <1>10 DEF RevertState
<1>12. Checks!CountsAreUnique'
  BY <1>1 DEF PatientInv, Checks!CountsAreUnique
<1> QED BY <1>9, <1>11, <1>12 DEF PatientInv

\* Before a turn that runs, or whose work is under way, no revert is.
LEMMA NotReverting ==
  ASSUME PatientInv,
         \/ running # None \/ (turns > 0 /\ ends[turns] = None) \/ events # <<>> \/ placeholder # None
         \/ reactor.pc \in {"baseline", "capture", "dispatch"}
  PROVE  TurnState /\ ~Reverting
<1>1. ~RevertState
  BY WorkMade DEF RevertState
<1> QED BY <1>1 DEF PatientInv

LEMMA TurnStartsPatient ==
  ASSUME CheckBounds, AnyInv, PatientInv, UNCHANGED Checks!assumed, Checks!TurnStarts
  PROVE  PatientInv'
<1>1. CheckTyped
  BY DEF AnyInv
<1>2. /\ running = None /\ turns > 0 /\ ends[turns] = None /\ running' = turns
      /\ events' = Append(events, [type |-> "started", turn |-> turns])
      /\ inputs' = Append(inputs, [type |-> "start"])
      /\ shown' = shown \cup {turns}
      /\ UNCHANGED <<checkpoints, session, turns, conversation, placeholder, reactor>>
  BY DEF Checks!TurnStarts
<1>3. TurnState /\ ~Reverting
  BY <1>2, NotReverting
<1>4. Remembered \in Nat
  BY BaseIs
<1>5. ~Last /\ ~Begun /\ Base = Remembered
  <2>1. ~Last
    BY <1>2, <1>4 DEF AnyInv, TurnsInOrder, Last
  <2> QED BY <1>2, <2>1 DEF Begun, Base
<1>6. turns # None /\ turns \in Checks!Turn
  BY <1>1, <1>2, TurnIs DEF CheckTyped
<1>7. Remembered' = Remembered /\ ~Last' /\ Begun' /\ Base' = Remembered
  <2>1. Remembered' = Remembered /\ ~Last'
    BY <1>2, <1>5 DEF Remembered, Last
  <2> QED BY <1>2, <1>6, <2>1 DEF Begun, Base
<1>8. PICK x \in Checks!Input : x = [type |-> "start"]
  BY InputMade
<1>9. PICK e \in CheckEvent : e = [type |-> "started", turn |-> turns]
  BY <1>6, CheckEventMade
<1>10. x.type = "start" /\ e.turn = turns
  BY <1>8, <1>9
<1>11. /\ \A i \in 1..Len(inputs') : (i \in 1..Len(inputs) /\ inputs'[i] = inputs[i]) \/ inputs'[i] = x
       /\ \A i \in 1..Len(events') : (i \in 1..Len(events) /\ events'[i] = events[i]) \/ events'[i] = e
  BY <1>1, <1>2, <1>8, <1>9, InputAdded, EventAdded
<1>12. ~Reverting'
  BY <1>2, <1>3, <1>10, <1>11 DEF Reverting
<1>13. \A c \in checkpoints' : IsPast(c, Base)'
  BY <1>2, <1>3, <1>5, <1>7 DEF TurnState, IsLatest, IsPast, CheckpointOf
<1>14. ShowsTo(Base)'
  BY <1>2, <1>3, <1>5, <1>7 DEF TurnState, ShowsTo, CheckpointOf
<1>15. ShownIsRemembered'
  BY <1>2, <1>3, <1>6, <1>7 DEF TurnState, ShownIsRemembered
<1>16. OfLatest'
  BY <1>2, <1>3, <1>5, <1>7, <1>10, <1>11 DEF TurnState, OfLatest
<1>17. WillBeCaptured'
  BY <1>7 DEF WillBeCaptured
<1>18. Checks!CountsAreUnique'
  BY <1>2 DEF PatientInv, Checks!CountsAreUnique
<1> QED BY <1>12, <1>13, <1>14, <1>15, <1>16, <1>17, <1>18 DEF PatientInv, TurnState

LEMMA TurnEditsPatient ==
  ASSUME CheckBounds, AnyInv, PatientInv, UNCHANGED Checks!assumed, Checks!TurnEdits
  PROVE  PatientInv'
<1>1. CheckTyped
  BY DEF AnyInv
<1>2. /\ running # None
      /\ events' = IF diffs THEN Append(events, [type |-> "diff", turn |-> running]) ELSE events
      /\ UNCHANGED <<checkpoints, session, shown, turns, running, conversation, placeholder, inputs,
                     reactor>>
  BY DEF Checks!TurnEdits, Checks!readModel, Checks!provider
<1>3. TurnState /\ ~Reverting /\ running = turns /\ Begun
  BY <1>2, NotReverting DEF AnyInv, TurnsInOrder, Begun
<1>4. PICK e \in CheckEvent : e = [type |-> "diff", turn |-> running]
  BY <1>1, <1>2, CheckEventMade DEF CheckTyped
<1>5. e.turn = turns
  BY <1>3, <1>4
<1>6. \A i \in 1..Len(events') : (i \in 1..Len(events) /\ events'[i] = events[i]) \/ events'[i] = e
  <2>1. CASE events' = events
    BY <2>1
  <2>2. CASE events' = Append(events, e)
    BY <1>1, <2>2, EventAdded
  <2> QED BY <1>2, <1>4, <2>1, <2>2
<1>7. ~Reverting' /\ (CaptureWaits' <=> CaptureWaits)
  BY <1>2, <1>3 DEF Reverting, CaptureWaits
<1>8. OfLatest'
  BY <1>2, <1>3, <1>5, <1>6, SameConversation DEF TurnState, OfLatest
<1>9. WillBeCaptured'
  BY <1>2, <1>3, <1>7, SameConversation DEF TurnState, WillBeCaptured, Checks!Captured
<1> QED BY <1>2, <1>3, <1>7, <1>8, <1>9, SameShown DEF PatientInv

LEMMA TurnCompletesPatient ==
  ASSUME CheckBounds, AnyInv, PatientInv, UNCHANGED Checks!assumed, Checks!TurnCompletes
  PROVE  PatientInv'
<1>1. CheckTyped
  BY DEF AnyInv
<1>2. /\ running # None /\ running' = None /\ conversation' = Append(conversation, running)
      /\ events' = Append(events, [type |-> "completed", turn |-> running])
      /\ UNCHANGED <<checkpoints, session, shown, turns, placeholder, reactor>>
  BY DEF Checks!TurnCompletes, Checks!readModel
<1>a. PICK cut \in BOOLEAN :
        inputs' = Append(inputs, [type |-> "completed", turn |-> running, cut |-> cut])
  BY DEF Checks!TurnCompletes
<1>3. TurnState /\ ~Reverting /\ running = turns /\ Begun /\ turns \in Checks!Turn
  BY <1>1, <1>2, NotReverting DEF AnyInv, TurnsInOrder, Begun, CheckTyped
<1>4. ~Last /\ Base = Remembered /\ Remembered \in Nat
  BY <1>2, BaseIs
<1>5. /\ Remembered' = Remembered + 1 /\ conversation'[Remembered + 1] = turns
      /\ \A i \in 1..Remembered : conversation'[i] = conversation[i]
  BY <1>1, <1>2, <1>3, CheckAppend DEF CheckTyped, Remembered
<1>6. Last' /\ Begun' /\ Base' = Remembered
  <2>1. Last'
    BY <1>2, <1>4, <1>5 DEF Last
  <2> QED BY <1>4, <1>5, <2>1 DEF Begun, Base
<1>7. PICK x \in Checks!Input : x = [type |-> "completed", turn |-> running, cut |-> cut]
  BY <1>3, InputMade
<1>8. PICK e \in CheckEvent : e = [type |-> "completed", turn |-> running]
  BY <1>3, CheckEventMade
<1>9. x.type = "completed" /\ x.turn = turns /\ e.turn = turns
  BY <1>3, <1>7, <1>8
<1>10. /\ \A i \in 1..Len(inputs') : (i \in 1..Len(inputs) /\ inputs'[i] = inputs[i]) \/ inputs'[i] = x
       /\ inputs'[Len(inputs')] = x /\ Len(inputs') \in 1..Len(inputs')
       /\ \A i \in 1..Len(events') : (i \in 1..Len(events) /\ events'[i] = events[i]) \/ events'[i] = e
  BY <1>1, <1>2, <1>a, <1>7, <1>8, InputAdded, EventAdded
<1>11. ~Reverting' /\ CaptureWaits'
  BY <1>2, <1>3, <1>9, <1>10 DEF Reverting, CaptureWaits
<1>12. \A c \in checkpoints' : IsPast(c, Base)' \/ IsLatest(c)'
  BY <1>2, <1>3, <1>4, <1>5, <1>6 DEF TurnState, IsLatest, IsPast, CheckpointOf
<1>13. ShowsTo(Base)'
  BY <1>2, <1>3, <1>4, <1>5, <1>6 DEF TurnState, ShowsTo, CheckpointOf
<1>14. ShownIsRemembered'
  <2>1. \A i \in 1..(Remembered + 1) : i \in 1..Remembered \/ i = Remembered + 1
    BY <1>4
  <2>2. \A i \in 1..Remembered : i \in 1..(Remembered + 1)
    BY <1>4
  <2>3. Remembered + 1 \in 1..(Remembered + 1)
    BY <1>4
  <2>4. {conversation'[i] : i \in 1..Remembered'} = {conversation[i] : i \in 1..Remembered} \cup {turns}
    BY <1>5, <2>1, <2>2, <2>3
  <2> QED BY <1>2, <1>3, <2>4 DEF TurnState, ShownIsRemembered
<1>15. OfLatest'
  BY <1>2, <1>3, <1>4, <1>6, <1>9, <1>10 DEF TurnState, OfLatest
<1>16. WillBeCaptured'
  BY <1>11 DEF WillBeCaptured
<1>17. Checks!CountsAreUnique'
  BY <1>2 DEF PatientInv, Checks!CountsAreUnique
<1> QED BY <1>11, <1>12, <1>13, <1>14, <1>15, <1>16, <1>17 DEF PatientInv, TurnState

LEMMA IngestPatient ==
  ASSUME CheckBounds, AnyInv, PatientInv, UNCHANGED Checks!assumed, Checks!Ingest
  PROVE  PatientInv'
<1>1. CheckTyped
  BY DEF AnyInv
<1>2. /\ events # <<>> /\ placeholder = None /\ events' = Tail(events)
      /\ UNCHANGED <<checkpoints, shown, turns, running, conversation, inputs, reactor>>
  BY DEF Checks!Ingest, Checks!provider
<1>3. TurnState /\ ~Reverting
  BY <1>2, NotReverting
<1>4. PICK e \in CheckEvent : e = Head(events) /\ e = events[1] /\ 1 \in 1..Len(events)
  BY <1>1, <1>2, EventTaken
<1>5. Begun /\ e.turn = turns /\ session \in {None, turns}
  BY <1>3, <1>4 DEF TurnState, OfLatest
<1>6. session' \in {None, turns}
  BY <1>4, <1>5 DEF Checks!Ingest
<1>7. placeholder' # None => placeholder'.turn = turns /\ placeholder'.count = Base + 1
  <2>1. \/ placeholder' = None
        \/ /\ ~\E c \in checkpoints : c.turn = turns
           /\ placeholder' = [turn |-> turns, count |-> Checks!CurrentTurnCount + 1]
    BY <1>2, <1>4, <1>5 DEF Checks!Ingest
  <2> QED BY <1>3, <2>1, NextIsLatest
<1>8. ~Reverting' /\ (CaptureWaits' <=> CaptureWaits)
  BY <1>2, <1>3 DEF Reverting, CaptureWaits
<1>9. \A i \in 1..Len(events') : i + 1 \in 1..Len(events) /\ events'[i] = events[i + 1]
  BY <1>1, <1>2, EventTaken
<1>10. OfLatest'
  BY <1>2, <1>3, <1>5, <1>6, <1>7, <1>9, SameConversation DEF TurnState, OfLatest
<1>11. WillBeCaptured'
  BY <1>2, <1>3, <1>8, SameConversation DEF TurnState, WillBeCaptured, Checks!Captured
<1> QED BY <1>2, <1>3, <1>8, <1>10, <1>11, SameShown DEF PatientInv
\* A checkpoint of the latest turn is shown, or replaces the one there is.
LEMMA LatestShown ==
  ASSUME CheckBounds, AnyInv, TurnState, Begun, UNCHANGED <<turns, running, conversation>>,
         NEW k \in Checks!Checkpoint, k.turn = turns, k.count = Base + 1,
         \A c \in checkpoints' : c = k \/ c \in checkpoints,
         \A c \in checkpoints : c.turn # k.turn => c \in checkpoints',
         \A c, d \in checkpoints' : c.turn = d.turn => c = d,
         shown' = shown \cup {turns}
  PROVE  /\ Checks!CountsAreUnique'
         /\ \A c \in checkpoints' : IsPast(c, Base)' \/ IsLatest(c)'
         /\ ShowsTo(Base)' /\ ShownIsRemembered'
<1>1. Base \in Nat /\ Base \in 0..Remembered /\ turns \in Checks!Turn
  BY BaseIs
<1>2. IsLatest(k)
  BY DEF IsLatest
<1>3. \A c \in checkpoints' : IsPast(c, Base) \/ IsLatest(c)
  BY <1>2 DEF TurnState
<1>4. ShowsTo(Base)'
  <2>1. \A i \in 1..Base : i \in 1..Remembered /\ CheckpointOf(i) \in checkpoints
    BY BaseIs DEF TurnState, ShowsTo
  <2>2. \A i \in 1..Base : CheckpointOf(i).turn # turns
    BY <2>1, BaseIs, CheckpointOfIs
  <2>3. \A i \in 1..Base : CheckpointOf(i) \in checkpoints'
    BY <2>1, <2>2
  <2> QED BY <2>3, SameConversation DEF ShowsTo
<1>5. ShownIsRemembered'
  <2>1. turns \in {conversation[i] : i \in 1..Remembered} \cup ({running} \ {None})
    <3>1. CASE running # None
      BY <3>1 DEF AnyInv, TurnsInOrder
    <3>2. CASE Last
      <4>1. Remembered \in 1..Remembered
        BY <3>2, BaseIs DEF Last
      <4> QED BY <3>2, <4>1 DEF Last
    <3> QED BY <3>1, <3>2 DEF Begun
  <2>2. shown' = shown
    BY <2>1 DEF TurnState, ShownIsRemembered
  <2> QED BY <2>2, SameConversation DEF TurnState, ShownIsRemembered
<1>6. Checks!CountsAreUnique'
  <2> SUFFICES ASSUME NEW c \in checkpoints', NEW d \in checkpoints', c.count = d.count
               PROVE  c = d
    BY DEF Checks!CountsAreUnique
  <2>1. CASE IsPast(c, Base) /\ IsPast(d, Base)
    BY <2>1 DEF IsPast
  <2>2. CASE IsLatest(c) /\ IsLatest(d)
    BY <2>2 DEF IsLatest
  <2>3. ASSUME NEW a, NEW b, a.count = b.count, IsPast(a, Base), IsLatest(b)  PROVE FALSE
    <3>1. a.count \in Nat /\ a.count <= Base
      BY <1>1, <2>3, IsPastIs
    <3>2. b.count = Base + 1
      BY <2>3 DEF IsLatest
    <3> QED BY <1>1, <2>3, <3>1, <3>2
  <2> QED BY <1>3, <2>1, <2>2, <2>3
<1> QED BY <1>3, <1>4, <1>5, <1>6, SameConversation

LEMMA DispatchPlaceholderPatient ==
  ASSUME CheckBounds, AnyInv, PatientInv, UNCHANGED Checks!assumed, Checks!DispatchPlaceholder
  PROVE  PatientInv'
<1>1. CheckTyped /\ WellFormed /\ Bounded
  BY DEF AnyInv
<1>2. /\ placeholder # None /\ placeholder' = None
      /\ checkpoints' = Checks!WithCheckpoint([turn |-> placeholder.turn, count |-> placeholder.count,
                                               captured |-> FALSE, git |-> FALSE])
      /\ shown' = shown \cup {placeholder.turn}
      /\ inputs' = Append(inputs, [type |-> "placeholder", turn |-> placeholder.turn,
                                   count |-> placeholder.count])
      /\ UNCHANGED <<session, turns, running, conversation, ends, events, reactor>>
  BY DEF Checks!DispatchPlaceholder, Checks!provider
<1>3. TurnState /\ ~Reverting
  BY <1>2, NotReverting
<1>4. Begun /\ placeholder.turn = turns /\ placeholder.count = Base + 1
  BY <1>2, <1>3 DEF TurnState, OfLatest
<1>5. turns \in Checks!Turn /\ Base + 1 \in Nat
  BY <1>4, BaseIs
<1>6. PICK k \in Checks!Checkpoint : k = [turn |-> turns, count |-> Base + 1, captured |-> FALSE, git |-> FALSE]
  BY <1>5, CheckpointMade
<1>7. k.turn = turns /\ k.count = Base + 1 /\ k.captured = FALSE
  BY <1>6
<1>8. /\ \A c \in checkpoints' : c = k \/ c \in checkpoints
      /\ \A c \in checkpoints : c.turn # k.turn => c \in checkpoints'
      /\ \A c, d \in checkpoints' : c.turn = d.turn => c = d
      /\ \A c \in checkpoints : c.captured => c \in checkpoints'
  <2>1. checkpoints' = Checks!WithCheckpoint(k)
    BY <1>2, <1>4, <1>6
  <2> QED BY <1>1, <1>7, <2>1, CheckpointsWith
<1>9. PICK x \in Checks!Input : x = [type |-> "placeholder", turn |-> turns, count |-> Base + 1]
  BY <1>5, InputMade
<1>10. x.type = "placeholder" /\ x.turn = turns /\ x.count = Base + 1
  BY <1>9
<1>11. inputs' = Append(inputs, x)
  BY <1>2, <1>4, <1>9
<1>12. /\ \A i \in 1..Len(inputs') : (i \in 1..Len(inputs) /\ inputs'[i] = inputs[i]) \/ inputs'[i] = x
       /\ \A i \in 1..Len(inputs) : i \in 1..Len(inputs') /\ inputs'[i] = inputs[i]
  BY <1>1, <1>11, InputAdded
<1>13. ~Reverting' /\ (CaptureWaits => CaptureWaits')
  BY <1>2, <1>3, <1>10, <1>12 DEF Reverting, CaptureWaits
<1>14. OfLatest'
  BY <1>2, <1>3, <1>4, <1>10, <1>12, SameConversation DEF TurnState, OfLatest
<1>15. WillBeCaptured'
  <2>1. Checks!Captured(turns) => Checks!Captured(turns)'
    BY <1>2, <1>8 DEF Checks!Captured
  <2> QED BY <1>2, <1>3, <1>13, <2>1, SameConversation DEF TurnState, WillBeCaptured
<1>16. /\ Checks!CountsAreUnique'
       /\ \A c \in checkpoints' : IsPast(c, Base)' \/ IsLatest(c)'
       /\ ShowsTo(Base)' /\ ShownIsRemembered'
  <2>1. UNCHANGED <<turns, running, conversation>> /\ shown' = shown \cup {turns}
    BY <1>2, <1>4
  <2> QED BY <1>3, <1>4, <1>7, <1>8, <2>1, LatestShown
<1> QED BY <1>13, <1>14, <1>15, <1>16 DEF PatientInv, TurnState

LEMMA TakeRevertPatient ==
  ASSUME CheckBounds, AnyInv, PatientInv, faults' = 0, Reverting, NEW x \in Checks!Input,
         x = inputs[1], inputs # <<>>, inputs' = Tail(inputs), reactor = Checks!Idle,
         Checks!TakeRevert(x) \/ Checks!TakeStart(x) \/ Checks!TakeCompleted(x) \/ Checks!TakePlaceholder(x),
         UNCHANGED <<checkpoints, session, shown, turns, running, conversation, ends, events, placeholder>>
  PROVE  PatientInv'
<1>1. CheckTyped
  BY DEF AnyInv
<1>2. /\ running = None /\ session = None /\ events = <<>> /\ placeholder = None
      /\ turns > 0 => ends[turns] # None
      /\ Len(inputs) = 1 /\ x.type = "revert" /\ x.count < Remembered /\ AllShown
  BY WorkMade DEF PatientInv, RevertState
<1>3. Checks!TakeRevert(x)
  BY <1>2 DEF Checks!TakeStart, Checks!TakeCompleted, Checks!TakePlaceholder
<1>4. x.count \in Nat /\ Remembered \in Nat
  BY <1>2, InputIs, BaseIs
<1>5. x.count # 0 => \E c \in checkpoints : c.count = x.count /\ c.git
  <2>1. ASSUME x.count # 0  PROVE x.count \in 1..Remembered
    BY <1>2, <1>4, <2>1
  <2>2. ASSUME x.count # 0  PROVE CheckpointOf(x.count) \in checkpoints
    BY <1>2, <2>1, <2>2 DEF AllShown, ShowsTo
  <2> QED BY <2>1, <2>2, CheckpointOfIs
<1>6. reactor' # Checks!Idle
  <2>1. ~Checks!Fault
    BY <1>1, FaultIs
  <2>2. x.count = 0 \/ \E c \in checkpoints : c.count = x.count
    BY <1>5
  <2>3. PICK m, g, s : reactor' = [pc |-> "restore", id |-> x.id, count |-> x.count, current |-> m,
                                   target |-> g, stale |-> s]
    BY <1>3, <2>1, <2>2 DEF Checks!TakeRevert
  <2>4. reactor'.pc = "restore"
    BY <2>3
  <2> QED BY <2>4, WorkMade
<1>7. /\ reactor'.pc = "restore" /\ reactor'.count = x.count
      /\ reactor'.current = Checks!CurrentTurnCount /\ reactor'.target = x.count
  BY <1>1, <1>3, <1>5, <1>6, RestoreBegins DEF AnyInv
<1>8. Checks!CurrentTurnCount = Remembered
  <2>1. Remembered \in 0..Remembered
    BY <1>4
  <2> QED BY <1>2, <2>1, CurrentIsLast DEF AllShown
<1>9. inputs' = <<>>
  BY <1>1, <1>2, EmptySeq, CheckTail DEF CheckTyped
<1>10. AllShown' /\ Remembered' = Remembered
  BY <1>2, SameShown, SameConversation
<1>11. RevertState'
  BY <1>2, <1>7, <1>8, <1>9, <1>10 DEF RevertState
<1>12. Reverting'
  BY <1>7 DEF Reverting, RevertSteps
<1> QED BY <1>11, <1>12, SameShown DEF PatientInv

LEMMA TakeInputPatient ==
  ASSUME CheckBounds, AnyInv, PatientInv, faults' = 0, UNCHANGED Checks!assumed, Checks!TakeInput
  PROVE  PatientInv'
<1>1. CheckTyped
  BY DEF AnyInv
<1>2. /\ reactor = Checks!Idle /\ inputs # <<>> /\ inputs' = Tail(inputs)
      /\ UNCHANGED <<checkpoints, session, shown, turns, running, conversation, ends, events, placeholder>>
  BY DEF Checks!TakeInput, Checks!provider, Checks!ingestion, Checks!readModel
<1>3. /\ Head(inputs) = inputs[1] /\ 1 \in 1..Len(inputs) /\ Len(inputs) \in Nat
      /\ Len(inputs') = Len(inputs) - 1
      /\ \A i \in 1..Len(inputs') : i + 1 \in 1..Len(inputs) /\ inputs'[i] = inputs[i + 1]
  BY <1>1, <1>2, InputTaken
<1>4. PICK x \in Checks!Input : x = inputs[1] /\ x = Head(inputs)
  BY <1>1, <1>2, InputTaken
<1>5. Checks!TakeStart(x) \/ Checks!TakeCompleted(x) \/ Checks!TakePlaceholder(x) \/ Checks!TakeRevert(x)
  BY <1>4 DEF Checks!TakeInput
<1>6. CASE Reverting
  BY <1>2, <1>4, <1>5, <1>6, TakeRevertPatient
<1>7. CASE ~Reverting
  <2>1. TurnState
    BY <1>7 DEF PatientInv
  <2>2. x.type # "revert" /\ (x.type # "start" => Begun /\ x.turn = turns)
        /\ (x.type = "placeholder" => x.count = Base + 1)
    BY <1>3, <1>4, <1>7, <2>1 DEF Reverting, TurnState, OfLatest
  <2>3. CaptureWaits => x.type \in {"completed", "placeholder"} \/ CaptureWaits'
    <3>1. \A i \in 1..Len(inputs) : i = 1 \/ (i - 1 \in 1..Len(inputs') /\ inputs'[i - 1] = inputs[i])
      BY <1>3
    <3> QED BY <1>4, <3>1 DEF CaptureWaits
  <2>4. /\ reactor'.pc \in {"idle", "baseline", "capture"}
        /\ reactor'.pc = "capture" => Begun /\ reactor'.turn = turns /\ reactor'.count = Base + 1
        /\ x.type \in {"completed", "placeholder"} =>
             Checks!Captured(turns) \/ reactor'.pc = "capture"
    <3>1. CASE Checks!TakeStart(x)
      BY <3>1, WorkMade DEF Checks!TakeStart
    <3>2. CASE Checks!TakeCompleted(x)
      <4>1. x.type = "completed" /\ session \in {None, turns} /\ x.turn = turns
        BY <2>1, <2>2, <3>2 DEF Checks!TakeCompleted, TurnState, OfLatest
      <4>2. \/ Checks!Captured(turns) /\ reactor' = Checks!Idle
            \/ reactor' = [pc |-> "capture", turn |-> turns, count |-> Base + 1, cut |-> x.cut]
        BY <2>1, <3>2, <4>1, NextIsLatest DEF Checks!TakeCompleted
      <4>3. reactor'.pc = "capture" => reactor'.turn = turns /\ reactor'.count = Base + 1
        BY <4>2, WorkMade
      <4>4. reactor'.pc \in {"idle", "capture"} /\ (Checks!Captured(turns) \/ reactor'.pc = "capture")
        BY <4>2, WorkMade
      <4> QED BY <2>2, <4>1, <4>3, <4>4
    <3>3. CASE Checks!TakePlaceholder(x)
      <4>1. x.type = "placeholder" /\ x.turn = turns /\ x.count = Base + 1
        BY <2>2, <3>3 DEF Checks!TakePlaceholder
      <4>2. \/ Checks!Captured(turns) /\ reactor' = Checks!Idle
            \/ reactor' = [pc |-> "capture", turn |-> turns, count |-> Base + 1, cut |-> FALSE]
        BY <3>3, <4>1 DEF Checks!TakePlaceholder
      <4> QED BY <2>2, <4>1, <4>2, WorkMade
    <3> QED BY <1>5, <2>2, <3>1, <3>2, <3>3 DEF Checks!TakeRevert
  <2>5. ~Reverting'
    BY <1>3, <1>7, <2>4 DEF Reverting, RevertSteps
  <2>6. OfLatest'
    BY <1>2, <1>3, <2>1, <2>4, SameConversation DEF TurnState, OfLatest
  <2>7. WillBeCaptured'
    <3>1. ~(reactor.pc \in {"capture", "dispatch"})
      BY <1>2, WorkMade
    <3> QED BY <1>2, <2>1, <2>3, <2>4, <3>1, SameConversation
            DEF TurnState, WillBeCaptured, Checks!Captured
  <2> QED BY <1>2, <2>1, <2>5, <2>6, <2>7, SameShown DEF PatientInv
<1> QED BY <1>6, <1>7

LEMMA CaptureBaselinePatient ==
  ASSUME CheckBounds, AnyInv, PatientInv, faults' = 0, UNCHANGED Checks!assumed, Checks!CaptureBaseline
  PROVE  PatientInv'
<1>1. /\ reactor.pc = "baseline" /\ reactor' = Checks!Idle
      /\ UNCHANGED <<checkpoints, session, shown, turns, running, conversation, ends, events,
                     placeholder, inputs>>
  BY DEF Checks!CaptureBaseline, Checks!provider, Checks!ingestion, Checks!readModel
<1>2. TurnState /\ ~Reverting
  BY <1>1, NotReverting
<1>3. ~Reverting' /\ (CaptureWaits' <=> CaptureWaits)
  BY <1>1, <1>2, WorkMade DEF Reverting, CaptureWaits, RevertSteps
<1>4. OfLatest'
  BY <1>1, <1>2, WorkMade, SameConversation DEF TurnState, OfLatest
<1>5. WillBeCaptured'
  BY <1>1, <1>2, <1>3, SameConversation DEF TurnState, WillBeCaptured, Checks!Captured
<1> QED BY <1>1, <1>2, <1>3, <1>4, <1>5, SameShown DEF PatientInv

LEMMA CapturePatient ==
  ASSUME CheckBounds, AnyInv, PatientInv, faults' = 0, UNCHANGED Checks!assumed, Checks!Capture
  PROVE  PatientInv'
<1>1. CheckTyped /\ ~Checks!Fault
  BY FaultIs DEF AnyInv
<1>2. /\ reactor.pc = "capture" /\ reactor' = [reactor EXCEPT !.pc = "dispatch"]
      /\ UNCHANGED <<checkpoints, session, shown, turns, running, conversation, ends, events,
                     placeholder, inputs>>
  BY <1>1 DEF Checks!Capture, Checks!provider, Checks!ingestion, Checks!readModel
<1>3. reactor'.pc = "dispatch" /\ reactor'.turn = reactor.turn /\ reactor'.count = reactor.count
  BY <1>1, <1>2, WorkMoves DEF CheckTyped
<1>4. TurnState /\ ~Reverting
  BY <1>2, NotReverting
<1>5. ~Reverting'
  BY <1>2, <1>3, <1>4 DEF Reverting, RevertSteps
<1>6. OfLatest'
  BY <1>2, <1>3, <1>4, SameConversation DEF TurnState, OfLatest
<1>7. WillBeCaptured'
  BY <1>3 DEF WillBeCaptured
<1> QED BY <1>2, <1>4, <1>5, <1>6, <1>7, SameShown DEF PatientInv

LEMMA DispatchCapturePatient ==
  ASSUME CheckBounds, AnyInv, PatientInv, faults' = 0, UNCHANGED Checks!assumed, Checks!DispatchCapture
  PROVE  PatientInv'
<1>1. CheckTyped /\ ~Checks!Fault
  BY FaultIs DEF AnyInv
<1>2. /\ reactor.pc = "dispatch" /\ reactor' = Checks!Idle
      /\ checkpoints' = Checks!WithCheckpoint(CaptureOf(reactor))
      /\ shown' = shown \cup {reactor.turn}
      /\ inputs' = IF reactor.cut
                   THEN Append(inputs, [type |-> "placeholder", turn |-> reactor.turn,
                                        count |-> reactor.count])
                   ELSE inputs
      /\ UNCHANGED <<session, turns, running, conversation, ends, events, placeholder>>
  BY <1>1 DEF Checks!DispatchCapture, Checks!provider, Checks!ingestion, CaptureOf
<1>3. TurnState /\ ~Reverting
  BY <1>2, NotReverting
<1>4. Begun /\ reactor.turn = turns /\ reactor.count = Base + 1
  BY <1>2, <1>3 DEF TurnState, OfLatest
<1>5. PICK k \in Checks!Checkpoint :
        /\ k.turn = reactor.turn /\ k.count = reactor.count /\ k.captured = ~reactor.cut
        /\ k \in checkpoints'
        /\ \A c, d \in checkpoints' : c.turn = d.turn => c = d
        /\ \A c \in checkpoints' : c = k \/ (c \in checkpoints /\ c.turn # k.turn)
        /\ \A c \in checkpoints : c.turn # k.turn => c \in checkpoints'
  BY <1>2, ShownCaptured
<1>a. /\ \A i \in 1..Len(inputs') :
           \/ i \in 1..Len(inputs) /\ inputs'[i] = inputs[i]
           \/ /\ inputs'[i].type = "placeholder" /\ inputs'[i].turn = reactor.turn
              /\ inputs'[i].count = reactor.count
      /\ reactor.cut => \E i \in 1..Len(inputs') : inputs'[i].type = "placeholder"
  BY <1>1, <1>2, InputsOfCapture
<1>6. ~Reverting' /\ reactor'.pc = "idle"
  BY <1>2, <1>3, <1>a, WorkMade DEF Reverting, RevertSteps
<1>7. OfLatest'
  BY <1>2, <1>3, <1>4, <1>6, <1>a, SameConversation DEF TurnState, OfLatest
<1>8. WillBeCaptured'
  <2>1. CASE reactor.cut
    BY <1>a, <2>1 DEF WillBeCaptured, CaptureWaits
  <2>2. CASE ~reactor.cut
    BY <1>2, <1>4, <1>5, <2>2 DEF WillBeCaptured, Checks!Captured
  <2> QED BY <2>1, <2>2
<1>9. /\ Checks!CountsAreUnique'
      /\ \A c \in checkpoints' : IsPast(c, Base)' \/ IsLatest(c)'
      /\ ShowsTo(Base)' /\ ShownIsRemembered'
  <2>1. UNCHANGED <<turns, running, conversation>> /\ shown' = shown \cup {turns}
    BY <1>2, <1>4
  <2>2. k.turn = turns /\ k.count = Base + 1 /\ \A c \in checkpoints' : c = k \/ c \in checkpoints
    BY <1>4, <1>5
  <2> QED BY <1>3, <1>4, <1>5, <2>1, <2>2, LatestShown
<1> QED BY <1>6, <1>7, <1>8, <1>9 DEF PatientInv, TurnState
\* A revert under way, where nothing has failed.
LEMMA RevertGoesOn ==
  ASSUME CheckBounds, AnyInv, PatientInv, reactor.pc \in RevertSteps
  PROVE  /\ Reverting /\ RevertState /\ reactor \in Checks!Work /\ reactor # Checks!Idle
         /\ running = None /\ session = None /\ events = <<>> /\ placeholder = None /\ inputs = <<>>
         /\ turns > 0 => ends[turns] # None
<1>1. Reverting /\ reactor # Checks!Idle
  BY WorkMade DEF Reverting, RevertSteps
<1>2. RevertState
  BY <1>1 DEF PatientInv
<1> QED BY <1>1, <1>2 DEF RevertState, AnyInv, CheckTyped

\* Where no step fails, there is a commit to restore.
LEMMA RestoreSucceeds ==
  ASSUME CheckBounds, AnyInv, PatientInv, faults = 0, faults' = 0, Checks!Restore
  PROVE  /\ reactor' = [reactor EXCEPT !.pc = "rollback"] /\ reactor.pc = "restore"
         /\ reactor' \in Checks!Work /\ reactor'.pc = "rollback" /\ reactor'.count = reactor.count
         /\ reactor'.current = reactor.current /\ reactor'.target = reactor.target
         /\ reactor'.stale = reactor.stale
         /\ reactor.count > 0 => Checks!HasRef(reactor.count) /\ files' = refs[reactor.count]
<1>1. CheckTyped /\ ~Checks!Fault
  BY FaultIs DEF AnyInv
<1>2. reactor.pc = "restore" /\ reactor.pc \in RevertSteps
  BY DEF Checks!Restore, RevertSteps
<1>3. /\ reactor.count < Remembered /\ reactor.current = Remembered
      /\ reactor.target = reactor.count /\ AllShown
  BY <1>2, RevertGoesOn DEF RevertState
<1>4. reactor.count \in Nat /\ Remembered \in Nat /\ reactor \in Checks!Work
  BY <1>1, <1>2, WorkIs, BaseIs DEF CheckTyped
<1>5. ASSUME reactor.count > 0  PROVE Checks!HasRef(reactor.count)
  <2>1. PICK i \in 1..Remembered : i = reactor.count
    BY <1>3, <1>4, <1>5
  <2>2. CheckpointOf(i) \in checkpoints /\ CheckpointOf(i).count = i /\ CheckpointOf(i).git
    BY <1>3, CheckpointOfIs DEF AllShown, ShowsTo
  <2>3. ~Deleted(CheckpointOf(i))
    BY <1>2 DEF Deleted
  <2> QED BY <2>1, <2>2, <2>3 DEF AnyInv, RefsAreThere
<1>6. reactor.target # None
  BY <1>3, <1>4 DEF CheckBounds
<1>7. PICK commit :
        /\ commit = IF Checks!HasRef(reactor.count) THEN refs[reactor.count]
                    ELSE IF reactor.count = 0 THEN 0 ELSE None
        /\ \/ commit = None
           \/ /\ files' = commit
              /\ reactor' = [reactor EXCEPT !.pc =
                               IF reactor.current > reactor.count THEN "rollback" ELSE "delete"]
  BY <1>1, <1>3, <1>6 DEF Checks!Restore
<1>8. commit # None
  <2>1. 0 \in Checks!Content /\ None \notin Checks!Content
    BY TurnIs DEF Checks!Content, CheckBounds
  <2>2. Checks!HasRef(reactor.count) => refs[reactor.count] \in Checks!Content
    BY <1>1 DEF CheckTyped, Checks!HasRef
  <2> QED BY <1>4, <1>5, <1>7, <2>1, <2>2
<1>9. reactor' = [reactor EXCEPT !.pc = "rollback"]
  BY <1>3, <1>4, <1>7, <1>8
<1>10. "rollback" \in RevertSteps
  BY DEF RevertSteps
<1>11. /\ reactor' \in Checks!Work /\ reactor'.pc = "rollback" /\ reactor'.count = reactor.count
       /\ reactor'.current = reactor.current /\ reactor'.target = reactor.target
       /\ reactor'.stale = reactor.stale
  BY <1>2, <1>4, <1>9, <1>10, WorkMoves
<1> QED BY <1>2, <1>5, <1>7, <1>8, <1>9, <1>11

LEMMA RestorePatient ==
  ASSUME CheckBounds, AnyInv, PatientInv, faults = 0, faults' = 0, UNCHANGED Checks!assumed,
         Checks!Restore
  PROVE  PatientInv'
<1>1. UNCHANGED <<checkpoints, session, shown, turns, running, conversation, ends, events,
                  placeholder, inputs>>
  BY DEF Checks!Restore, Checks!provider, Checks!ingestion, Checks!readModel
<1>2. /\ reactor.pc = "restore" /\ reactor'.pc = "rollback" /\ reactor'.count = reactor.count
      /\ reactor'.current = reactor.current /\ reactor'.target = reactor.target
  BY RestoreSucceeds
<1>3. /\ running = None /\ session = None /\ events = <<>> /\ placeholder = None /\ inputs = <<>>
      /\ turns > 0 => ends[turns] # None
      /\ reactor.count < Remembered /\ reactor.current = Remembered
      /\ reactor.target = reactor.count /\ AllShown
  BY <1>2, RevertGoesOn DEF RevertState, RevertSteps
<1>4. RevertState'
  BY <1>1, <1>2, <1>3, SameShown, SameConversation DEF RevertState
<1>5. Reverting'
  BY <1>2 DEF Reverting, RevertSteps
<1> QED BY <1>1, <1>4, <1>5, SameShown DEF PatientInv

\* The provider keeps as many turns as the checkpoint's count says.
LEMMA RollbackSucceeds ==
  ASSUME CheckBounds, AnyInv, PatientInv, faults' = 0, Checks!Rollback
  PROVE  /\ reactor.pc = "rollback" /\ reactor' \in Checks!Work /\ reactor'.pc = "delete"
         /\ reactor'.count = reactor.count /\ reactor'.stale = reactor.stale
         /\ reactor.count \in Nat /\ reactor.count < Remembered
         /\ Remembered' = reactor.count
         /\ \A i \in 1..reactor.count : i \in 1..Remembered /\ conversation'[i] = conversation[i]
<1>1. CheckTyped /\ ~Checks!Fault
  BY FaultIs DEF AnyInv
<1>2. reactor.pc = "rollback" /\ reactor.pc \in RevertSteps /\ "delete" \in RevertSteps
  BY DEF Checks!Rollback, RevertSteps
<1>3. running = None /\ reactor.count < Remembered /\ reactor.current = Remembered
  BY <1>2, RevertGoesOn DEF RevertState
<1>4. reactor' = [reactor EXCEPT !.pc = "delete"]
  BY <1>1, <1>3 DEF Checks!Rollback
<1>5. /\ reactor' \in Checks!Work /\ reactor'.pc = "delete" /\ reactor'.count = reactor.count
      /\ reactor'.stale = reactor.stale
  BY <1>1, <1>2, <1>4, WorkMoves DEF CheckTyped
<1>6. PICK n \in 0..Len(conversation) :
           /\ n = Checks!Max({0, Len(conversation) - (reactor.current - reactor.count)})
           /\ Len(conversation') = n
           /\ \A i \in 1..n : i \in 1..Len(conversation) /\ conversation'[i] = conversation[i]
  BY <1>5, RolledBack
<1>7. reactor.count \in Nat /\ Remembered \in Nat /\ Len(conversation) = Remembered
  BY <1>1, <1>2, WorkIs, BaseIs DEF CheckTyped, Remembered
<1>8. n = reactor.count
  <2>1. Len(conversation) - (reactor.current - reactor.count) = reactor.count
    BY <1>3, <1>7
  <2> QED BY <1>6, <1>7, <2>1, MaxOfTwo
<1> QED BY <1>2, <1>3, <1>5, <1>6, <1>7, <1>8 DEF Remembered

LEMMA RollbackPatient ==
  ASSUME CheckBounds, AnyInv, PatientInv, faults' = 0, UNCHANGED Checks!assumed, Checks!Rollback
  PROVE  PatientInv'
<1>1. UNCHANGED <<checkpoints, session, shown, turns, running, ends, events, placeholder, inputs>>
  BY DEF Checks!Rollback, Checks!ingestion, Checks!readModel
<1>2. /\ reactor.pc = "rollback" /\ reactor'.pc = "delete" /\ reactor'.count = reactor.count
      /\ reactor.count \in Nat /\ reactor.count < Remembered /\ Remembered' = reactor.count
      /\ \A i \in 1..reactor.count : i \in 1..Remembered /\ conversation'[i] = conversation[i]
  BY RollbackSucceeds
<1>3. /\ running = None /\ session = None /\ events = <<>> /\ placeholder = None /\ inputs = <<>>
      /\ turns > 0 => ends[turns] # None
      /\ AllShown
  BY <1>2, RevertGoesOn DEF RevertState, RevertSteps
<1>4. ~Last'
  <2>1. Remembered \in Nat /\ turns \in Nat
    BY BaseIs
  <2>2. ASSUME reactor.count > 0  PROVE conversation'[reactor.count] # turns
    <3>1. PICK i \in 1..Remembered : i = reactor.count
      BY <1>2, <2>1, <2>2
    <3>2. PICK j \in 1..Remembered : j = Remembered
      BY <1>2, <2>1, <2>2
    <3>3. conversation'[i] = conversation[i]
      BY <1>2, <2>2, <3>1
    <3>4. conversation[i] < conversation[j] /\ conversation[j] <= turns
      BY <1>2, <3>1, <3>2 DEF AnyInv, TurnsInOrder
    <3>5. conversation[i] \in Nat /\ conversation[j] \in Nat
      BY BaseIs
    <3> QED BY <2>1, <3>1, <3>3, <3>4, <3>5
  <2> QED BY <1>1, <1>2, <2>2 DEF Last
<1>5. \A i \in 1..reactor.count : CheckpointOf(i)' = CheckpointOf(i)
  BY <1>2 DEF CheckpointOf
<1>6. ASSUME NEW c \in checkpoints'
      PROVE  c.count >= 1 /\ (c.count <= Remembered' => IsPast(c, Remembered)')
  <2>1. IsPast(c, Remembered) /\ Remembered \in 0..Remembered
    BY <1>1, <1>3, BaseIs DEF AllShown
  <2>2. c.count \in Nat /\ c.count >= 1 /\ c = CheckpointOf(c.count)
    BY <2>1, IsPastIs DEF IsPast
  <2>3. ASSUME c.count <= Remembered'  PROVE IsPast(c, Remembered)'
    <3>1. PICK i \in 1..reactor.count : i = c.count
      BY <1>2, <2>2, <2>3
    <3>2. c = CheckpointOf(i)'
      BY <1>5, <2>2, <3>1
    <3> QED BY <1>2, <2>2, <3>1, <3>2 DEF IsPast
  <2> QED BY <2>2, <2>3
<1>7. ShowsTo(Remembered)'
  <2>1. \A i \in 1..reactor.count : CheckpointOf(i) \in checkpoints
    BY <1>2, <1>3 DEF AllShown, ShowsTo
  <2> QED BY <1>1, <1>2, <1>5, <2>1 DEF ShowsTo
<1>8. RevertState'
  BY <1>1, <1>2, <1>3, <1>4, <1>6, <1>7 DEF RevertState
<1>9. Reverting' /\ Checks!CountsAreUnique'
  BY <1>1, <1>2 DEF Reverting, RevertSteps, PatientInv, Checks!CountsAreUnique
<1> QED BY <1>8, <1>9 DEF PatientInv

LEMMA DeleteRefsPatient ==
  ASSUME CheckBounds, AnyInv, PatientInv, faults' = 0, UNCHANGED Checks!assumed, Checks!DeleteRefs
  PROVE  PatientInv'
<1>1. CheckTyped /\ ~Checks!Fault
  BY FaultIs DEF AnyInv
<1>2. /\ reactor.pc = "delete" /\ reactor' = [reactor EXCEPT !.pc = "complete"]
      /\ UNCHANGED <<checkpoints, session, shown, turns, running, conversation, ends, events,
                     placeholder, inputs>>
  BY <1>1 DEF Checks!DeleteRefs, Checks!ingestion, Checks!readModel, Checks!provider
<1>3. reactor.pc \in RevertSteps /\ "complete" \in RevertSteps
  BY <1>2 DEF RevertSteps
<1>4. reactor'.pc = "complete" /\ reactor'.count = reactor.count
  BY <1>1, <1>2, <1>3, WorkMoves DEF CheckTyped
<1>5. /\ running = None /\ session = None /\ events = <<>> /\ placeholder = None /\ inputs = <<>>
      /\ turns > 0 => ends[turns] # None
      /\ reactor.count = Remembered /\ ~Last
      /\ \A c \in checkpoints : c.count >= 1 /\ (c.count <= Remembered => IsPast(c, Remembered))
      /\ ShowsTo(Remembered)
  BY <1>2, <1>3, RevertGoesOn DEF RevertState
<1>6. ShowsTo(Remembered)'
  BY <1>2, <1>5, SameConversation DEF ShowsTo
<1>7. RevertState'
  BY <1>2, <1>4, <1>5, <1>6, SameConversation DEF RevertState
<1>8. Reverting'
  BY <1>4 DEF Reverting, RevertSteps
<1> QED BY <1>2, <1>7, <1>8, SameShown DEF PatientInv

LEMMA CompleteRevertPatient ==
  ASSUME CheckBounds, AnyInv, PatientInv, faults' = 0, UNCHANGED Checks!assumed, Checks!CompleteRevert
  PROVE  PatientInv'
<1>1. CheckTyped /\ ~Checks!Fault
  BY FaultIs DEF AnyInv
<1>2. /\ reactor.pc = "complete" /\ reactor' = Checks!Idle
      /\ checkpoints' = {c \in checkpoints : c.count <= reactor.count}
      /\ shown' = {c.turn : c \in checkpoints'}
      /\ UNCHANGED <<session, turns, running, conversation, ends, events, placeholder, inputs>>
  BY <1>1 DEF Checks!CompleteRevert, Checks!ingestion, Checks!provider
<1>3. reactor.pc \in RevertSteps
  BY <1>2 DEF RevertSteps
<1>4. /\ running = None /\ session = None /\ events = <<>> /\ placeholder = None /\ inputs = <<>>
      /\ reactor.count = Remembered /\ ~Last
      /\ \A c \in checkpoints : c.count >= 1 /\ (c.count <= Remembered => IsPast(c, Remembered))
      /\ ShowsTo(Remembered)
  BY <1>2, <1>3, RevertGoesOn DEF RevertState
<1>5. Len(inputs') = 0 /\ Len(events') = 0 /\ reactor'.pc = "idle"
  BY <1>2, <1>4, WorkMade
<1>6. ~Reverting'
  BY <1>5 DEF Reverting, RevertSteps
<1>7. ~Begun /\ Base = Remembered /\ Remembered \in 0..Remembered
  BY <1>4, BaseIs DEF Begun, Base
<1>8. \A c \in checkpoints' : IsPast(c, Remembered)
  BY <1>2, <1>4
<1>9. \A c \in checkpoints' : IsPast(c, Base)'
  BY <1>7, <1>8, <1>2, SameConversation
<1>10. \A i \in 1..Remembered : CheckpointOf(i) \in checkpoints'
  <2>1. \A i \in 1..Remembered : CheckpointOf(i) \in checkpoints /\ CheckpointOf(i).count <= Remembered
    <3>1. \A i \in 1..Remembered : CheckpointOf(i) \in checkpoints
      BY <1>4 DEF ShowsTo
    <3>2. \A i \in 1..Remembered : CheckpointOf(i).count = i
      BY CheckpointOfIs
    <3>3. \A i \in 1..Remembered : i <= Remembered
      BY BaseIs
    <3> QED BY <3>1, <3>2, <3>3
  <2> QED BY <1>2, <1>4, <2>1
<1>11. ShowsTo(Base)'
  BY <1>2, <1>7, <1>10, SameConversation DEF ShowsTo
<1>12. ShownIsRemembered'
  <2>1. \A c \in checkpoints' : c.count \in 1..Remembered /\ c.turn = conversation[c.count]
    BY <1>7, <1>8, IsPastIs
  <2>2. \A i \in 1..Remembered : CheckpointOf(i).turn = conversation[i]
    BY CheckpointOfIs
  <2>3. {c.turn : c \in checkpoints'} = {conversation[i] : i \in 1..Remembered}
    BY <1>10, <2>1, <2>2
  <2> QED BY <1>2, <1>4, <2>3, SameConversation DEF ShownIsRemembered
<1>13. OfLatest'
  BY <1>2, <1>4, <1>5 DEF OfLatest
<1>14. WillBeCaptured'
  BY <1>2, <1>4, SameConversation DEF WillBeCaptured
<1>15. Checks!CountsAreUnique'
  BY <1>2 DEF PatientInv, Checks!CountsAreUnique
<1> QED BY <1>6, <1>9, <1>11, <1>12, <1>13, <1>14, <1>15 DEF PatientInv, TurnState

LEMMA FaultsStay ==
  ASSUME CheckBounds, AnyInv, Checks!Next, faults' = 0  PROVE faults = 0
<1>1. CheckTyped
  BY DEF AnyInv
<1>2. ~Checks!Fault
  BY <1>1, FaultIs
<1>3. ASSUME NEW x, Checks!TakeStart(x) \/ Checks!TakeCompleted(x) \/ Checks!TakePlaceholder(x)
                    \/ Checks!TakeRevert(x)
      PROVE  faults' = faults
  BY <1>2, <1>3 DEF Checks!TakeStart, Checks!TakeCompleted, Checks!TakePlaceholder, Checks!TakeRevert
<1>4. Checks!TakeInput => faults' = faults
  BY <1>3 DEF Checks!TakeInput
<1>5. faults' = faults
  BY <1>2, <1>4 DEF Checks!Next, Checks!AskTurn, Checks!EditByHand, Checks!AskRevert, Checks!TurnStarts,
     Checks!TurnEdits, Checks!TurnCompletes, Checks!Ingest, Checks!DispatchPlaceholder,
     Checks!CaptureBaseline, Checks!Capture, Checks!DispatchCapture, Checks!Restore, Checks!Rollback,
     Checks!DeleteRefs, Checks!CompleteRevert
<1> QED BY <1>5

LEMMA PatientKept ==
  ASSUME CheckBounds, AnyInv, patient, faults = 0, faults' = 0, PatientInv, Checks!Next
  PROVE  PatientInv'
BY AskTurnPatient, EditByHandPatient, AskRevertPatient, TurnStartsPatient, TurnEditsPatient,
   TurnCompletesPatient, IngestPatient, DispatchPlaceholderPatient, TakeInputPatient,
   CaptureBaselinePatient, CapturePatient, DispatchCapturePatient, RestorePatient, RollbackPatient,
   DeleteRefsPatient, CompleteRevertPatient DEF Checks!Next
-----------------------------------------------------------------------------
(* Without diffs, RefsAreEnds is kept.                                     *)

\* The refs of what is shown are there.
LEMMA ShownHasRef ==
  ASSUME AnyInv, faults = 0, ~diffs, NEW c \in checkpoints, ~Deleted(c)
  PROVE  Checks!HasRef(c.count)
BY DEF AnyInv, RefsAreThere, NoPlaceholders

\* Where no turn of the conversation is the latest, none is shown.
LEMMA NothingLatest ==
  ASSUME CheckBounds, AnyInv, TurnState, NEW c \in checkpoints, ~IsLatest(c)
  PROVE  c.turn # turns /\ c.count \in Nat /\ c.count <= Base /\ Base \in Nat
<1>1. Base \in 0..Remembered /\ Base \in Nat
  BY BaseIs
<1>2. IsPast(c, Base)
  BY DEF TurnState
<1>3. c.count \in 1..Base /\ c.turn = conversation[c.count]
  BY <1>1, <1>2, IsPastIs DEF IsPast
<1> QED BY <1>1, <1>3, BaseIs

\* Nothing is about a turn that has not begun.
LEMMA NothingBegun ==
  ASSUME TurnState, ~Begun
  PROVE  ~CaptureWaits /\ reactor.pc \notin {"capture", "dispatch"}
BY DEF TurnState, OfLatest, CaptureWaits

\* Steps of others: what the refs are compared with stays.
LEMMA SameRefs ==
  ASSUME RefsAreEnds, UNCHANGED <<checkpoints, refs, ends, reactor>>,
         running' # None => \A c \in checkpoints : c.turn # turns',
         (CaptureWaits' \/ reactor.pc = "capture") => running' = None /\ files' = ends'[turns'],
         reactor.pc = "dispatch" => running' = None /\ turns' = turns /\ files' = ends'[turns'],
         reactor.pc \in {"rollback", "delete", "complete"} => files' = files
  PROVE  RefsAreEnds'
<1>1. \A c : Deleted(c)' <=> Deleted(c)
  BY DEF Deleted
<1> QED BY <1>1 DEF RefsAreEnds

LEMMA AskTurnEnds ==
  ASSUME CheckBounds, AnyInv, PatientInv, patient, RefsAreEnds, UNCHANGED Checks!assumed, Checks!AskTurn
  PROVE  RefsAreEnds'
<1>1. /\ Checks!Settled /\ inputs' = Append(inputs, [type |-> "start"])
      /\ UNCHANGED <<files, refs, checkpoints, running, ends, reactor>>
  BY DEF Checks!AskTurn, Checks!readModel
<1>2. running = None /\ inputs = <<>> /\ reactor.pc = "idle"
  BY <1>1, WorkMade DEF Checks!Settled
<1>3. ~CaptureWaits'
  <2>1. Len(inputs') = 1 /\ inputs'[1].type = "start"
    BY <1>1, <1>2
  <2> QED BY <2>1 DEF CaptureWaits
<1> QED BY <1>1, <1>2, <1>3, SameRefs

LEMMA EditByHandEnds ==
  ASSUME CheckBounds, AnyInv, PatientInv, RefsAreEnds, UNCHANGED Checks!assumed, Checks!EditByHand
  PROVE  RefsAreEnds'
<1>1. /\ Checks!Settled
      /\ UNCHANGED <<refs, checkpoints, turns, running, ends, inputs, reactor>>
  BY DEF Checks!EditByHand, Checks!readModel, Checks!provider
<1>2. running = None /\ inputs = <<>> /\ reactor.pc = "idle"
  BY <1>1, WorkMade DEF Checks!Settled
<1>3. ~CaptureWaits'
  BY <1>1, <1>2 DEF CaptureWaits
<1> QED BY <1>1, <1>2, <1>3, SameRefs

LEMMA AskRevertEnds ==
  ASSUME CheckBounds, AnyInv, PatientInv, patient, RefsAreEnds, UNCHANGED Checks!assumed,
         NEW id \in 1..MaxReverts, Checks!AskRevert(id)
  PROVE  RefsAreEnds'
<1>1. PICK n : /\ Checks!Settled /\ inputs' = Append(inputs, [type |-> "revert", count |-> n, id |-> id])
               /\ UNCHANGED <<files, refs, checkpoints, turns, running, ends, reactor>>
  BY DEF Checks!AskRevert, Checks!readModel, Checks!provider
<1>2. running = None /\ inputs = <<>> /\ reactor.pc = "idle"
  BY <1>1, WorkMade DEF Checks!Settled
<1>3. ~CaptureWaits'
  <2>1. Len(inputs') = 1 /\ inputs'[1].type = "revert"
    BY <1>1, <1>2
  <2> QED BY <2>1 DEF CaptureWaits
<1> QED BY <1>1, <1>2, <1>3, SameRefs

LEMMA TurnStartsEnds ==
  ASSUME CheckBounds, AnyInv, PatientInv, RefsAreEnds, UNCHANGED Checks!assumed, Checks!TurnStarts
  PROVE  RefsAreEnds'
<1>1. CheckTyped
  BY DEF AnyInv
<1>2. /\ running = None /\ turns > 0 /\ ends[turns] = None
      /\ inputs' = Append(inputs, [type |-> "start"])
      /\ UNCHANGED <<files, refs, checkpoints, turns, ends, reactor>>
  BY DEF Checks!TurnStarts
<1>3. TurnState /\ ~Reverting
  BY <1>2, NotReverting
<1>4. ~Begun
  <2>1. ~Last
    BY <1>2, BaseIs DEF AnyInv, TurnsInOrder, Last
  <2> QED BY <1>2, <2>1 DEF Begun
<1>5. ~CaptureWaits /\ reactor.pc \notin {"capture", "dispatch"}
  BY <1>3, <1>4, NothingBegun
<1>6. \A c \in checkpoints : c.turn # turns
  BY <1>3, <1>4, NothingLatest DEF IsLatest
<1>7. ~CaptureWaits'
  <2>1. PICK x \in Checks!Input : x = [type |-> "start"]
    BY InputMade
  <2>2. \A i \in 1..Len(inputs') : (i \in 1..Len(inputs) /\ inputs'[i] = inputs[i]) \/ inputs'[i] = x
    BY <1>1, <1>2, <2>1, InputAdded
  <2>3. x.type = "start"
    BY <2>1
  <2> QED BY <1>5, <2>2, <2>3 DEF CaptureWaits
<1> QED BY <1>2, <1>5, <1>6, <1>7, SameRefs

LEMMA TurnEditsEnds ==
  ASSUME CheckBounds, AnyInv, PatientInv, RefsAreEnds, UNCHANGED Checks!assumed, Checks!TurnEdits
  PROVE  RefsAreEnds'
<1>1. running # None /\ UNCHANGED <<refs, checkpoints, turns, running, ends, inputs, reactor>>
  BY DEF Checks!TurnEdits, Checks!readModel, Checks!provider
<1>2. ~Reverting
  BY <1>1, NotReverting
<1>3. ~CaptureWaits' /\ reactor.pc \notin {"capture", "dispatch"}
  BY <1>1 DEF RefsAreEnds, CaptureWaits
<1> QED BY <1>1, <1>2, <1>3, SameRefs DEF RefsAreEnds, Reverting, RevertSteps

LEMMA TurnCompletesEnds ==
  ASSUME CheckBounds, AnyInv, PatientInv, RefsAreEnds, UNCHANGED Checks!assumed, Checks!TurnCompletes
  PROVE  RefsAreEnds'
<1>1. CheckTyped
  BY DEF AnyInv
<1>2. /\ running # None /\ running' = None /\ ends' = [ends EXCEPT ![running] = files]
      /\ UNCHANGED <<files, refs, checkpoints, turns, reactor>>
  BY DEF Checks!TurnCompletes, Checks!readModel
<1>3. running = turns /\ turns \in Checks!Turn
  BY <1>1, <1>2 DEF AnyInv, TurnsInOrder, CheckTyped
<1>4. ends'[turns] = files /\ \A t \in Checks!Turn : t # turns => ends'[t] = ends[t]
  BY <1>1, <1>2, <1>3 DEF CheckTyped
<1>5. ~Reverting
  BY <1>2, NotReverting
<1>6. \A c \in checkpoints : c.turn # turns /\ c.turn \in Checks!Turn
  BY <1>1, <1>2, CheckpointIs DEF CheckTyped, RefsAreEnds
<1>7. \A c : Deleted(c)' <=> Deleted(c)
  BY <1>2 DEF Deleted
<1>8. \A c \in checkpoints' : ~Deleted(c)' => refs'[c.count] = ends'[c.turn]
  BY <1>2, <1>4, <1>6, <1>7 DEF RefsAreEnds
<1>9. reactor'.pc # "dispatch" /\ reactor'.pc \notin {"rollback", "delete", "complete"}
  BY <1>2, <1>5 DEF RefsAreEnds, Reverting, RevertSteps
<1> QED BY <1>2, <1>4, <1>8, <1>9 DEF RefsAreEnds

LEMMA IngestEnds ==
  ASSUME CheckBounds, AnyInv, PatientInv, RefsAreEnds, UNCHANGED Checks!assumed, Checks!Ingest
  PROVE  RefsAreEnds'
<1>1. UNCHANGED <<files, refs, checkpoints, turns, running, ends, inputs, reactor>>
  BY DEF Checks!Ingest, Checks!provider
<1>2. CaptureWaits' <=> CaptureWaits
  BY <1>1 DEF CaptureWaits
<1> QED BY <1>1, <1>2, SameRefs DEF RefsAreEnds

LEMMA TakeInputEnds ==
  ASSUME CheckBounds, AnyInv, PatientInv, RefsAreEnds, UNCHANGED Checks!assumed, Checks!TakeInput
  PROVE  RefsAreEnds'
<1>1. CheckTyped
  BY DEF AnyInv
<1>2. /\ reactor = Checks!Idle /\ inputs # <<>> /\ inputs' = Tail(inputs)
      /\ UNCHANGED <<files, refs, checkpoints, turns, running, ends>>
  BY DEF Checks!TakeInput, Checks!provider, Checks!readModel
<1>3. PICK x \in Checks!Input : x = inputs[1] /\ x = Head(inputs) /\ 1 \in 1..Len(inputs)
  BY <1>1, <1>2, InputTaken
<1>5. /\ reactor'.pc \in {"idle", "baseline", "capture", "restore"}
      /\ reactor'.pc = "capture" => x.type \in {"completed", "placeholder"}
  <2>1. ASSUME Checks!TakeStart(x)  PROVE reactor'.pc \in {"idle", "baseline"}
    BY <1>2, <2>1, TakeStartAny
  <2>2. ASSUME Checks!TakeCompleted(x)  PROVE reactor'.pc \in {"idle", "capture"} /\ x.type = "completed"
    BY <1>2, <2>2, TakeCompletedAny DEF Checks!TakeCompleted
  <2>3. ASSUME Checks!TakePlaceholder(x)
        PROVE  reactor'.pc \in {"idle", "capture"} /\ x.type = "placeholder"
    BY <1>2, <2>3, TakePlaceholderAny DEF Checks!TakePlaceholder
  <2>4. ASSUME Checks!TakeRevert(x)  PROVE reactor'.pc \in {"idle", "restore"}
    BY <1>2, <2>4, TakeRevertAny
  <2> QED BY <1>3, <2>1, <2>2, <2>3, <2>4 DEF Checks!TakeInput
<1>6. CaptureWaits' => CaptureWaits
  <2>1. \A i \in 1..Len(inputs') : i + 1 \in 1..Len(inputs) /\ inputs'[i] = inputs[i + 1]
    BY <1>1, <1>2, InputTaken
  <2> QED BY <2>1 DEF CaptureWaits
<1>7. reactor'.pc = "capture" => CaptureWaits
  BY <1>3, <1>5 DEF CaptureWaits
<1>8. \A c : ~Deleted(c)
  BY <1>2, WorkMade DEF Deleted
<1> QED BY <1>2, <1>5, <1>6, <1>7, <1>8 DEF RefsAreEnds

LEMMA CaptureBaselineEnds ==
  ASSUME CheckBounds, AnyInv, PatientInv, faults = 0, faults' = 0, ~diffs, RefsAreEnds,
         UNCHANGED Checks!assumed, Checks!CaptureBaseline
  PROVE  RefsAreEnds'
<1>1. CheckTyped /\ ~Checks!Fault
  BY FaultIs DEF AnyInv
<1>2. /\ reactor.pc = "baseline" /\ reactor' = Checks!Idle /\ refs' = Checks!WithRef(reactor.count)
      /\ UNCHANGED <<files, checkpoints, turns, running, ends, inputs>>
  BY <1>1 DEF Checks!CaptureBaseline, Checks!provider, Checks!readModel
<1>3. reactor.count \in Nat /\ ~Checks!HasRef(reactor.count)
  BY <1>1, <1>2, WorkIs DEF CheckTyped, AnyInv, ReactorFits
<1>4. \A c \in checkpoints : ~Deleted(c) /\ Checks!HasRef(c.count)
  BY <1>2, ShownHasRef DEF Deleted
<1>5. \A m \in DOMAIN refs : m # reactor.count => refs'[m] = refs[m]
  BY <1>1, <1>2, <1>3, RefsWith
<1>6. \A c \in checkpoints : refs'[c.count] = refs[c.count]
  BY <1>3, <1>4, <1>5 DEF Checks!HasRef
<1>7. (CaptureWaits' <=> CaptureWaits) /\ reactor'.pc = "idle"
  BY <1>2, WorkMade DEF CaptureWaits
<1> QED BY <1>2, <1>4, <1>6, <1>7 DEF RefsAreEnds

LEMMA CaptureEnds ==
  ASSUME CheckBounds, AnyInv, PatientInv, faults = 0, faults' = 0, ~diffs, RefsAreEnds,
         UNCHANGED Checks!assumed, Checks!Capture
  PROVE  RefsAreEnds'
<1>1. CheckTyped /\ ~Checks!Fault
  BY FaultIs DEF AnyInv
<1>2. /\ reactor.pc = "capture" /\ reactor' = [reactor EXCEPT !.pc = "dispatch"]
      /\ refs' = Checks!WithRef(reactor.count)
      /\ UNCHANGED <<files, checkpoints, turns, running, ends, inputs>>
  BY <1>1 DEF Checks!Capture, Checks!provider, Checks!readModel
<1>3. reactor.count \in Nat /\ reactor'.pc = "dispatch" /\ reactor'.count = reactor.count
  BY <1>1, <1>2, WorkIs, WorkMoves DEF CheckTyped
<1>4. TurnState
  BY <1>2, NotReverting
<1>5. reactor.turn = turns /\ reactor.count = Base + 1 /\ running = None /\ files = ends[turns]
  BY <1>2, <1>4 DEF TurnState, OfLatest, RefsAreEnds
<1>6. \A c \in checkpoints : ~Deleted(c) /\ Checks!HasRef(c.count)
  BY <1>2, ShownHasRef DEF Deleted
<1>7. \A c \in checkpoints : c.count = reactor.count => c.turn = turns
  <2>1. \A c \in checkpoints : IsLatest(c) => c.turn = turns
    BY DEF IsLatest
  <2>2. \A c \in checkpoints : ~IsLatest(c) => c.count \in Nat /\ c.count <= Base /\ Base \in Nat
    BY <1>4, NothingLatest
  <2> QED BY <1>5, <2>1, <2>2
<1>8. refs'[reactor.count] = files /\ \A m \in DOMAIN refs : m # reactor.count => refs'[m] = refs[m]
  BY <1>1, <1>2, <1>3, RefsWith
<1>9. \A c \in checkpoints : refs'[c.count] = ends'[c.turn]
  <2> SUFFICES ASSUME NEW c \in checkpoints  PROVE refs'[c.count] = ends[c.turn]
    BY <1>2
  <2>1. CASE c.count = reactor.count
    BY <1>5, <1>7, <1>8, <2>1
  <2>2. CASE c.count # reactor.count
    BY <1>6, <1>8, <2>2 DEF Checks!HasRef, RefsAreEnds
  <2> QED BY <2>1, <2>2
<1>10. CaptureWaits' <=> CaptureWaits
  BY <1>2 DEF CaptureWaits
<1> QED BY <1>2, <1>3, <1>5, <1>8, <1>9, <1>10 DEF RefsAreEnds

LEMMA DispatchCaptureEnds ==
  ASSUME CheckBounds, AnyInv, PatientInv, faults' = 0, RefsAreEnds,
         UNCHANGED Checks!assumed, Checks!DispatchCapture
  PROVE  RefsAreEnds'
<1>1. CheckTyped /\ ~Checks!Fault
  BY FaultIs DEF AnyInv
<1>2. /\ reactor.pc = "dispatch" /\ reactor' = Checks!Idle
      /\ checkpoints' = Checks!WithCheckpoint(CaptureOf(reactor))
      /\ UNCHANGED <<files, refs, turns, running, ends>>
  BY <1>1 DEF Checks!DispatchCapture, Checks!provider, CaptureOf
<1>3. reactor.turn = turns
  BY <1>2, NotReverting DEF TurnState, OfLatest
<1>4. PICK k \in Checks!Checkpoint :
        /\ k.turn = reactor.turn /\ k.count = reactor.count
        /\ \A c \in checkpoints' : c = k \/ c \in checkpoints
  BY <1>2, ShownCaptured
<1>5. running = None /\ refs[k.count] = ends[k.turn] /\ files = ends[turns]
  BY <1>2, <1>3, <1>4 DEF RefsAreEnds
<1>6. \A c \in checkpoints : refs[c.count] = ends[c.turn]
  BY <1>2 DEF RefsAreEnds, Deleted
<1>7. \A c \in checkpoints' : refs'[c.count] = ends'[c.turn]
  BY <1>2, <1>4, <1>5, <1>6
<1>8. reactor'.pc = "idle"
  BY <1>2, WorkMade
<1> QED BY <1>2, <1>5, <1>7, <1>8 DEF RefsAreEnds

LEMMA RestoreEnds ==
  ASSUME CheckBounds, AnyInv, PatientInv, faults = 0, faults' = 0, RefsAreEnds,
         UNCHANGED Checks!assumed, Checks!Restore
  PROVE  RefsAreEnds'
<1>1. UNCHANGED <<refs, checkpoints, turns, running, ends, inputs>>
  BY DEF Checks!Restore, Checks!provider, Checks!readModel
<1>2. /\ reactor.pc = "restore" /\ reactor'.pc = "rollback" /\ reactor'.count = reactor.count
      /\ reactor.count > 0 => files' = refs[reactor.count]
  BY RestoreSucceeds
<1>3. AllShown /\ running = None /\ inputs = <<>>
  BY <1>2, RevertGoesOn DEF RevertState, RevertSteps
<1>4. \A c \in checkpoints : ~Deleted(c) /\ ~Deleted(c)'
  BY <1>2 DEF Deleted
<1>5. \A c \in checkpoints : c.count \in Nat /\ c.count >= 1
  <2>1. Remembered \in 0..Remembered
    BY BaseIs
  <2> QED BY <1>3, <2>1, IsPastIs DEF AllShown
<1>6. \A c \in checkpoints : c.count = reactor.count => files' = ends[c.turn]
  BY <1>2, <1>4, <1>5 DEF RefsAreEnds
<1>7. ~CaptureWaits'
  BY <1>1, <1>3 DEF CaptureWaits
<1> QED BY <1>1, <1>2, <1>3, <1>4, <1>6, <1>7 DEF RefsAreEnds

LEMMA RollbackEnds ==
  ASSUME CheckBounds, AnyInv, PatientInv, faults' = 0, RefsAreEnds,
         UNCHANGED Checks!assumed, Checks!Rollback
  PROVE  RefsAreEnds'
<1>1. UNCHANGED <<files, refs, checkpoints, turns, running, ends, inputs>>
  BY DEF Checks!Rollback, Checks!readModel
<1>2. reactor.pc = "rollback" /\ reactor'.pc = "delete" /\ reactor'.count = reactor.count
  BY RollbackSucceeds
<1>3. \A c \in checkpoints : ~Deleted(c) /\ ~Deleted(c)'
  BY <1>2 DEF Deleted
<1>4. running = None /\ inputs = <<>>
  BY <1>2, RevertGoesOn DEF RevertSteps
<1>5. ~CaptureWaits'
  BY <1>1, <1>4 DEF CaptureWaits
<1> QED BY <1>1, <1>2, <1>3, <1>4, <1>5 DEF RefsAreEnds

LEMMA DeleteRefsEnds ==
  ASSUME CheckBounds, AnyInv, PatientInv, faults = 0, faults' = 0, ~diffs, RefsAreEnds,
         UNCHANGED Checks!assumed, Checks!DeleteRefs
  PROVE  RefsAreEnds'
<1>1. CheckTyped /\ ~Checks!Fault
  BY FaultIs DEF AnyInv
<1>2. /\ reactor.pc = "delete" /\ reactor' = [reactor EXCEPT !.pc = "complete"]
      /\ refs' = Checks!WithoutRefs(reactor.stale)
      /\ UNCHANGED <<files, checkpoints, turns, running, ends, inputs>>
  BY <1>1 DEF Checks!DeleteRefs, Checks!readModel, Checks!provider
<1>3. reactor.pc \in RevertSteps /\ "complete" \in RevertSteps
  BY <1>2 DEF RevertSteps
<1>4. reactor'.pc = "complete" /\ reactor'.count = reactor.count /\ reactor'.stale = reactor.stale
  BY <1>1, <1>2, <1>3, WorkMoves DEF CheckTyped
<1>5. \A c \in checkpoints : ~Deleted(c) /\ Checks!HasRef(c.count)
  BY <1>2, ShownHasRef DEF Deleted
<1>6. DOMAIN refs' = DOMAIN refs \ reactor.stale /\ \A m \in DOMAIN refs' : refs'[m] = refs[m]
  BY <1>1, <1>2, RefsWithout
<1>7. \A c \in checkpoints' : ~Deleted(c)' => refs'[c.count] = ends'[c.turn]
  BY <1>2, <1>4, <1>5, <1>6 DEF RefsAreEnds, Deleted, Checks!HasRef
<1>8. running = None /\ inputs = <<>>
  BY <1>3, RevertGoesOn
<1>9. ~CaptureWaits'
  BY <1>2, <1>8 DEF CaptureWaits
<1> QED BY <1>2, <1>4, <1>7, <1>8, <1>9 DEF RefsAreEnds

LEMMA CompleteRevertEnds ==
  ASSUME CheckBounds, AnyInv, PatientInv, faults' = 0, RefsAreEnds,
         UNCHANGED Checks!assumed, Checks!CompleteRevert
  PROVE  RefsAreEnds'
<1>1. CheckTyped /\ ~Checks!Fault
  BY FaultIs DEF AnyInv
<1>2. /\ reactor.pc = "complete" /\ reactor' = Checks!Idle
      /\ checkpoints' = {c \in checkpoints : c.count <= reactor.count}
      /\ UNCHANGED <<files, refs, turns, running, ends, inputs>>
  BY <1>1 DEF Checks!CompleteRevert, Checks!provider
<1>3. reactor.pc \in RevertSteps
  BY <1>2 DEF RevertSteps
<1>4. running = None /\ inputs = <<>>
  BY <1>3, RevertGoesOn
<1>5. \A c \in checkpoints' : ~Deleted(c)
  <2>1. reactor.count \in Nat /\ reactor.stale \in SUBSET Nat /\ \A n \in reactor.stale : n > reactor.count
    BY <1>1, <1>3, WorkIs DEF CheckTyped, AnyInv, ReactorFits
  <2> QED BY <1>2, <2>1 DEF Deleted
<1>6. \A c \in checkpoints' : refs'[c.count] = ends'[c.turn]
  BY <1>2, <1>5 DEF RefsAreEnds
<1>7. ~CaptureWaits' /\ reactor'.pc = "idle"
  BY <1>2, <1>4, WorkMade DEF CaptureWaits
<1> QED BY <1>2, <1>4, <1>6, <1>7 DEF RefsAreEnds

LEMMA DispatchPlaceholderEnds ==
  ASSUME AnyInv, ~diffs, Checks!DispatchPlaceholder
  PROVE  FALSE
BY DEF AnyInv, NoPlaceholders, Checks!DispatchPlaceholder

LEMMA EndsKept ==
  ASSUME CheckBounds, AnyInv, patient, faults = 0, faults' = 0, ~diffs, PatientInv, RefsAreEnds,
         Checks!Next
  PROVE  RefsAreEnds'
BY AskTurnEnds, EditByHandEnds, AskRevertEnds, TurnStartsEnds, TurnEditsEnds, TurnCompletesEnds,
   IngestEnds, DispatchPlaceholderEnds, TakeInputEnds, CaptureBaselineEnds, CaptureEnds,
   DispatchCaptureEnds, RestoreEnds, RollbackEnds, DeleteRefsEnds, CompleteRevertEnds
   DEF Checks!Next
-----------------------------------------------------------------------------
(* The invariant and what it says.                                         *)
LEMMA CheckInit == ASSUME CheckBounds, Checks!Init PROVE CheckInv
<1>1. /\ diffs \in BOOLEAN /\ patient \in BOOLEAN
      /\ files = 0 /\ edits = 0 /\ refs = [c \in {} |-> 0]
      /\ checkpoints = {} /\ session = None /\ shown = {}
      /\ turns = 0 /\ running = None /\ conversation = <<>>
      /\ events = <<>> /\ placeholder = None
      /\ inputs = <<>> /\ reactor = Checks!Idle
      /\ reverts = [r \in 1..MaxReverts |-> "none"]
      /\ faults = 0 /\ ends = [t \in Checks!Turn |-> None]
  BY DEF Checks!Init
<1>2. CheckTyped
  <2>1. files \in Checks!Content /\ edits \in Checks!Content /\ turns \in 0..MaxTurns
        /\ faults \in 0..MaxFaults
    BY <1>1 DEF CheckBounds, Checks!Content
  <2>2. DOMAIN refs \subseteq Nat /\ refs \in [DOMAIN refs -> Checks!Content]
    BY <1>1
  <2>3. reverts \in RevertStage /\ ends \in [Checks!Turn -> Checks!Content \cup {None}]
    BY <1>1 DEF RevertStage
  <2>4. conversation \in Seq(Checks!Turn) /\ events \in Seq(CheckEvent) /\ inputs \in Seq(Checks!Input)
    BY <1>1
  <2> QED BY <1>1, <2>1, <2>2, <2>3, <2>4, WorkMade DEF CheckTyped
<1>3. reactor.pc = "idle" /\ Remembered = 0 /\ Len(inputs) = 0 /\ Len(events) = 0
  BY <1>1, WorkMade DEF Remembered
<1>4. ~Last /\ ~Begun /\ Base = 0
  BY <1>1, <1>3 DEF Last, Begun, Base
<1>5. TurnsInOrder
  BY <1>1, <1>3, TurnIs DEF TurnsInOrder
<1>6. AnyInv
  BY <1>1, <1>2, <1>3, <1>5
     DEF AnyInv, WellFormed, Bounded, ReactorFits, RevertSteps, NoPlaceholders, RefsAreThere
<1>7. ~Reverting /\ ~CaptureWaits
  BY <1>3 DEF Reverting, RevertSteps, CaptureWaits
<1>8. TurnState
  <2>1. ShownIsRemembered
    BY <1>1, <1>3 DEF ShownIsRemembered
  <2>2. OfLatest /\ WillBeCaptured /\ ShowsTo(Base)
    BY <1>1, <1>3, <1>4 DEF OfLatest, WillBeCaptured, ShowsTo
  <2> QED BY <1>1, <2>1, <2>2 DEF TurnState
<1>9. PatientInv
  BY <1>1, <1>7, <1>8 DEF PatientInv, Checks!CountsAreUnique
<1>10. RefsAreEnds
  BY <1>1, <1>3, <1>7 DEF RefsAreEnds
<1> QED BY <1>6, <1>9, <1>10 DEF CheckInv

LEMMA CheckNext == ASSUME CheckBounds, CheckInv, Checks!Next PROVE CheckInv'
<1>1. AnyInv /\ AnyInv'
  BY AnyKept DEF CheckInv
<1>2. UNCHANGED <<diffs, patient>>
  BY DEF Checks!Next, Checks!assumed
<1>3. faults' = 0 => faults = 0
  BY <1>1, FaultsStay
<1>4. ASSUME Calm'  PROVE Calm /\ PatientInv /\ PatientInv'
  BY <1>1, <1>2, <1>3, <1>4, PatientKept DEF CheckInv, Calm
<1>5. ASSUME Calm', ~diffs'  PROVE RefsAreEnds'
  <2>1. Calm /\ PatientInv /\ RefsAreEnds /\ ~diffs
    BY <1>2, <1>4, <1>5 DEF CheckInv
  <2> QED BY <1>1, <1>5, <2>1, EndsKept DEF Calm
<1> QED BY <1>1, <1>4, <1>5 DEF CheckInv

LEMMA CheckStill == ASSUME CheckInv, UNCHANGED checkpointVars PROVE CheckInv'
<1>1. UNCHANGED <<diffs, patient, files, edits, refs, checkpoints, session, shown, turns, running,
                  conversation, events, placeholder, inputs, reactor, reverts, faults, ends>>
  BY DEF checkpointVars
<1>2. AnyInv'
  BY <1>1, AnyStill DEF CheckInv, Checks!vars, Checks!readModel, Checks!provider, Checks!ingestion
<1>3. PatientInv => PatientInv'
  BY <1>1, PatientStill
<1>4. RefsAreEnds => RefsAreEnds'
  BY <1>1 DEF RefsAreEnds, Deleted, CaptureWaits
<1> QED BY <1>1, <1>2, <1>3, <1>4 DEF CheckInv, Calm

LEMMA CheckTrue == ASSUME CheckBounds, CheckInv PROVE CheckpointsAreTrue
<1>1. AnyInv /\ Checks!TypeOK
  BY CheckTypedIs DEF CheckInv, AnyInv
<1>2. ASSUME Checks!Settled  PROVE \A c : ~Deleted(c)
  BY <1>2, WorkMade DEF Checks!Settled, Deleted
<1>3. faults = 0 => Checks!CapturedIsRestorable
  BY <1>1, <1>2 DEF AnyInv, RefsAreThere, Checks!CapturedIsRestorable
<1>4. ASSUME faults = 0, patient
      PROVE  /\ Checks!CountsAreUnique /\ Checks!ProviderForgetsTheSame
             /\ Checks!PlaceholdersAreReplaced
  <2>1. PatientInv
    BY <1>4 DEF CheckInv, Calm
  <2>2. ASSUME Checks!Settled  PROVE shown = {conversation[i] : i \in 1..Len(conversation)}
    <3>1. ShownIsRemembered /\ running = None
      BY <1>1, <2>1, <2>2, QuietState DEF TurnState
    <3> QED BY <3>1 DEF ShownIsRemembered, Remembered
  <2>3. ASSUME Checks!Settled, NEW c \in checkpoints  PROVE c.captured
    <3>1. IsPast(c, Remembered) /\ Remembered \in 0..Remembered
      BY <1>1, <2>1, <2>3, QuietState, BaseIs DEF AllShown
    <3> QED BY <1>1, <3>1, IsPastIs
  <2> QED BY <2>1, <2>2, <2>3
          DEF PatientInv, Checks!ProviderForgetsTheSame, Checks!PlaceholdersAreReplaced
<1>5. ASSUME faults = 0, patient, ~diffs  PROVE Checks!CheckpointIsTurnEnd
  <2>1. RefsAreEnds
    BY <1>5 DEF CheckInv, Calm
  <2> QED BY <1>2, <2>1 DEF RefsAreEnds, Checks!CheckpointIsTurnEnd
<1> QED BY <1>1, <1>3, <1>4, <1>5 DEF CheckpointsAreTrue, Checks!CheckpointsAreTrue

LEMMA CheckRestores ==
  ASSUME CheckBounds, CheckInv, Checks!Next, faults = 0, patient, ~diffs
  PROVE  Checks!RevertedRestores
<1> SUFFICES ASSUME NEW id \in 1..MaxReverts, reverts[id] = "requested", reverts'[id] = "reverted"
             PROVE  \A c \in checkpoints' : c.count = reactor.count => files = ends[c.turn]
  BY DEF Checks!RevertedRestores
<1>1. CheckTyped /\ RefsAreEnds
  BY DEF CheckInv, AnyInv, Calm
<1>2. reverts' # reverts
  OBVIOUS
<1>3. ASSUME NEW r, NEW o \in {"requested", "failed"}, reverts' = [reverts EXCEPT ![r] = o]
      PROVE  FALSE
  BY <1>1, <1>3 DEF CheckTyped, RevertStage
<1>4. ASSUME NEW r, Checks!Answer(r, "failed")  PROVE FALSE
  BY <1>3, <1>4 DEF Checks!Answer
<1>5. ~Checks!GiveUp
  BY <1>4 DEF Checks!GiveUp
<1>6. ASSUME NEW x, Checks!TakeStart(x) \/ Checks!TakeCompleted(x) \/ Checks!TakePlaceholder(x)
                    \/ Checks!TakeRevert(x)
      PROVE  FALSE
  BY <1>2, <1>4, <1>6
     DEF Checks!TakeStart, Checks!TakeCompleted, Checks!TakePlaceholder, Checks!TakeRevert
<1>7. ~Checks!TakeInput
  BY <1>6 DEF Checks!TakeInput
<1>8. ASSUME NEW r \in 1..MaxReverts, Checks!AskRevert(r)  PROVE FALSE
  BY <1>3, <1>8 DEF Checks!AskRevert
<1>9. Checks!CompleteRevert
  BY <1>2, <1>5, <1>7, <1>8 DEF Checks!Next, Checks!AskTurn, Checks!EditByHand, Checks!TurnStarts,
     Checks!TurnEdits, Checks!TurnCompletes, Checks!Ingest, Checks!DispatchPlaceholder,
     Checks!CaptureBaseline, Checks!Capture, Checks!DispatchCapture, Checks!Restore, Checks!Rollback,
     Checks!DeleteRefs
<1>10. checkpoints' \subseteq checkpoints /\ reactor.pc = "complete"
  BY <1>5, <1>9 DEF Checks!CompleteRevert
<1> QED BY <1>1, <1>10 DEF RefsAreEnds

(* Checkpoints can be reverted to; where the user waits and nothing failed,*)
(* they have counts of their own and are those of the turns that the       *)
(* provider remembers, and where it reports no diffs, of what the turns    *)
(* left (captureAndDispatchCheckpoint).                                    *)
THEOREM CheckpointsStayTrue ==
  ASSUME CheckBounds
  PROVE  MCSpec => []CheckpointsAreTrue
<1>1. MCInit => CheckInv
  BY CheckInit DEF MCInit
<1>2. CheckInv /\ [MCNext]_<<scenario, vars, checkpointVars>> => CheckInv'
  BY CheckNext, CheckStill DEF MCNext
<1>3. CheckInv => CheckpointsAreTrue
  BY CheckTrue
<1> QED BY <1>1, <1>2, <1>3, PTL DEF MCSpec

(* A revert that is reported as done has brought back what the last turn   *)
(* that it keeps left (handleRevertRequested).                             *)
THEOREM RevertsRestore ==
  ASSUME CheckBounds
  PROVE  MCSpec => RevertRestores
<1>1. MCInit => CheckInv
  BY CheckInit DEF MCInit
<1>2. CheckInv /\ [MCNext]_<<scenario, vars, checkpointVars>> => CheckInv'
  BY CheckNext, CheckStill DEF MCNext
<1>3. CheckInv /\ [MCNext]_<<scenario, vars, checkpointVars>>
        => [faults = 0 /\ patient /\ ~diffs => Checks!RevertedRestores]_(Checks!vars)
  <2>1. UNCHANGED checkpointVars => UNCHANGED Checks!vars
    BY DEF checkpointVars, Checks!vars, Checks!readModel, Checks!provider, Checks!ingestion
  <2> QED BY <2>1, CheckRestores DEF MCNext
<1> QED BY <1>1, <1>2, <1>3, PTL DEF MCSpec, RevertRestores, Checks!RevertRestores

(* Neither result depends on the bounds of the run (FewSteps): both hold of*)
(* a thread's checkpoints however much the user asks for and fails.        *)
CheckSpec == Checks!Init /\ [][Checks!Next]_checkpointVars

(* handleRevertRequested and captureAndDispatchCheckpoint, for any user.   *)
THEOREM CheckpointsWithoutBounds ==
  ASSUME CheckBounds
  PROVE  CheckSpec => []CheckpointsAreTrue /\ RevertRestores
<1>1. Checks!Init => CheckInv
  BY CheckInit
<1>2. CheckInv /\ [Checks!Next]_checkpointVars => CheckInv'
  BY CheckNext, CheckStill
<1>3. CheckInv => CheckpointsAreTrue
  BY CheckTrue
<1>4. CheckInv /\ [Checks!Next]_checkpointVars
        => [faults = 0 /\ patient /\ ~diffs => Checks!RevertedRestores]_(Checks!vars)
  <2>1. UNCHANGED checkpointVars => UNCHANGED Checks!vars
    BY DEF checkpointVars, Checks!vars, Checks!readModel, Checks!provider, Checks!ingestion
  <2> QED BY <2>1, CheckRestores
<1> QED BY <1>1, <1>2, <1>3, <1>4, PTL DEF CheckSpec, RevertRestores, Checks!RevertRestores
=============================================================================
