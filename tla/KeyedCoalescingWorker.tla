------------------------- MODULE KeyedCoalescingWorker -------------------------
(***************************************************************************)
(* The keyed worker (packages/shared/src/KeyedCoalescingWorker.ts) that    *)
(* writes the histories of the terminals                                   *)
(* (apps/server/src/terminal/Layers/Manager.ts): it keeps only the latest  *)
(* value of each key.  Taking a key from the queue and claiming its value  *)
(* are two transactions, and so are giving a failed key back and queueing  *)
(* it again: an enqueue may come between them.                             *)
(*                                                                         *)
(* A value is the number of the enqueue that brought it: `merge' keeps the *)
(* later history, and the `immediate' it also carries only shortens a      *)
(* delay.                                                                  *)
(***************************************************************************)
EXTENDS Naturals, Sequences

CONSTANTS
  Key,          \* session keys
  NoKey,
  Caller,       \* fibers that drain a key
  MaxEnqueues   \* bound: the enqueues of a key

ASSUME WorkerAssumption == NoKey \notin Key /\ MaxEnqueues \in Nat

VARIABLES
  latestByKey,  \* Key -> the waiting value, 0 when there is none
  queuedKeys,
  activeKeys,
  queue,        \* TxQueue of keys
  worker,       \* where the forked loop is
  enqueued,     \* Key -> the number of enqueues
  handled,      \* Key -> the last value whose processing has ended
  callers       \* Caller -> what it drains: the key, the enqueues it has seen

state == << latestByKey, queuedKeys, activeKeys >>
vars == << latestByKey, queuedKeys, activeKeys, queue, worker, enqueued, handled, callers >>

Idle == [at |-> "idle", key |-> NoKey, value |-> 0]
At(place, key) == [at |-> place, key |-> key, value |-> 0]
Processing(key, value) == [at |-> "processing", key |-> key, value |-> value]
NoDrain == [key |-> NoKey, seen |-> 0]

Waiting(key) == latestByKey[key] # 0

-----------------------------------------------------------------------------
\* merge: the later history.
Merge(current, next) == next

\* For a mutation: a queued key is queued again.
OfferUnlessActive(key) == key \notin activeKeys

\* Whether an enqueue of the key also queues it.
MustOffer(key) == key \notin queuedKeys \cup activeKeys

\* For a mutation: a failure forgets what waits.
NeverRequeue(key) == FALSE

\* What a failed key leaves waiting goes back to the queue.
MustRequeue(key) == Waiting(key) /\ key \notin queuedKeys

\* For a mutation: a drain does not wait for the value in process.
BusyUnlessActive(key) == Waiting(key) \/ key \in queuedKeys

\* drainKey retries its transaction as long as the key is busy.
Busy(key) == Waiting(key) \/ key \in queuedKeys \cup activeKeys

\* enqueue: one transaction for the state and the queue.
Put(key) ==
  /\ enqueued[key] < MaxEnqueues
  /\ enqueued' = [enqueued EXCEPT ![key] = @ + 1]
  /\ latestByKey' = [latestByKey EXCEPT
       ![key] = IF Waiting(key) THEN Merge(@, enqueued[key] + 1) ELSE enqueued[key] + 1]
  /\ queuedKeys' = IF MustOffer(key) THEN queuedKeys \cup {key} ELSE queuedKeys
  /\ queue' = IF MustOffer(key) THEN Append(queue, key) ELSE queue
  /\ UNCHANGED << activeKeys, worker, handled >>

\* queuePersist.
Enqueue(key) == Put(key) /\ UNCHANGED callers

\* persistHistory: enqueue, then drainKey.
Persist(caller, key) ==
  /\ callers[caller] = NoDrain
  /\ Put(key)
  /\ callers' = [callers EXCEPT ![caller] = [key |-> key, seen |-> enqueued[key] + 1]]

\* flushPersist: drainKey alone.
Flush(caller, key) ==
  /\ callers[caller] = NoDrain
  /\ callers' = [callers EXCEPT ![caller] = [key |-> key, seen |-> enqueued[key]]]
  /\ UNCHANGED << state, queue, worker, enqueued, handled >>

\* The transaction of drainKey goes through.
Drained(caller) ==
  /\ callers[caller] # NoDrain
  /\ ~Busy(callers[caller].key)
  /\ callers' = [callers EXCEPT ![caller] = NoDrain]
  /\ UNCHANGED << state, queue, worker, enqueued, handled >>

-----------------------------------------------------------------------------
Take ==
  /\ worker = Idle
  /\ queue # << >>
  /\ worker' = At("taken", Head(queue))
  /\ queue' = Tail(queue)
  /\ UNCHANGED << state, enqueued, handled, callers >>

\* The worker claims what waits under the key, if anything does.
Claimed(key) == [latestByKey EXCEPT ![key] = 0]

Claim(key) ==
  /\ worker = At("taken", key)
  /\ queuedKeys' = queuedKeys \ {key}
  /\ latestByKey' = Claimed(key)
  /\ activeKeys' = IF Waiting(key) THEN activeKeys \cup {key} ELSE activeKeys
  /\ worker' = IF Waiting(key) THEN Processing(key, latestByKey[key]) ELSE Idle
  /\ UNCHANGED << queue, enqueued, handled, callers >>

\* options.process ends, well or not; it may end at any time after it began.
Process(key, value, place) ==
  /\ worker = Processing(key, value)
  /\ handled' = [handled EXCEPT ![key] = value]
  /\ worker' = At(place, key)
  /\ UNCHANGED << state, queue, enqueued, callers >>

\* processKey goes on with the newer value, or gives the key up.
Continue(key) ==
  /\ worker = At("processed", key)
  /\ latestByKey' = Claimed(key)
  /\ activeKeys' = IF Waiting(key) THEN activeKeys ELSE activeKeys \ {key}
  /\ worker' = IF Waiting(key) THEN Processing(key, latestByKey[key]) ELSE Idle
  /\ UNCHANGED << queuedKeys, queue, enqueued, handled, callers >>

\* cleanupFailedKey: its transaction, and the offer that follows.
CleanUp(key) ==
  /\ worker = At("failed", key)
  /\ activeKeys' = activeKeys \ {key}
  /\ queuedKeys' = IF MustRequeue(key) THEN queuedKeys \cup {key} ELSE queuedKeys
  /\ worker' = IF MustRequeue(key) THEN At("requeue", key) ELSE Idle
  /\ UNCHANGED << latestByKey, queue, enqueued, handled, callers >>

Requeue(key) ==
  /\ worker = At("requeue", key)
  /\ queue' = Append(queue, key)
  /\ worker' = Idle
  /\ UNCHANGED << state, enqueued, handled, callers >>

-----------------------------------------------------------------------------
Init ==
  /\ latestByKey = [key \in Key |-> 0]
  /\ queuedKeys = {}
  /\ activeKeys = {}
  /\ queue = << >>
  /\ worker = Idle
  /\ enqueued = [key \in Key |-> 0]
  /\ handled = [key \in Key |-> 0]
  /\ callers = [caller \in Caller |-> NoDrain]

Loop ==
  \/ Take
  \/ \E key \in Key :
       \/ Claim(key)
       \/ \E value \in 1 .. MaxEnqueues, place \in {"processed", "failed"} :
            Process(key, value, place)
       \/ Continue(key)
       \/ CleanUp(key)
       \/ Requeue(key)

Next ==
  \/ \E key \in Key :
       \/ Enqueue(key)
       \/ \E caller \in Caller : Persist(caller, key) \/ Flush(caller, key)
  \/ \E caller \in Caller : Drained(caller)
  \/ Loop

\* The loop runs while its scope is open, and a process (a delay and a write of
\* a file) ends; a transaction that retries runs again when the state changes.
Fairness == WF_vars(Loop) /\ \A caller \in Caller : WF_vars(Drained(caller))

Spec == Init /\ [][Next]_vars /\ Fairness

-----------------------------------------------------------------------------
\* The worker only ever holds a key, and processes a value that was enqueued.
TypeOK ==
  /\ latestByKey \in [Key -> 0 .. MaxEnqueues]
  /\ queuedKeys \subseteq Key
  /\ activeKeys \subseteq Key
  /\ queue \in Seq(Key)
  /\ worker \in [at : {"idle"}, key : {NoKey}, value : {0}]
       \cup [at : {"taken", "processed", "failed", "requeue"}, key : Key, value : {0}]
       \cup [at : {"processing"}, key : Key, value : 1 .. MaxEnqueues]
  /\ enqueued \in [Key -> 0 .. MaxEnqueues]
  /\ handled \in [Key -> 0 .. MaxEnqueues]
  /\ callers \in [Caller -> [key : Key, seen : 0 .. MaxEnqueues] \cup {NoDrain}]

\* A waiting value has somebody who will come for it: its key is queued, or the
\* worker holds the key.  Enqueues only skip the queue when that is so, and a
\* failure that forgot it would leave the value, and every drainKey, waiting.
NothingStranded ==
  \A key \in Key : Waiting(key) =>
    \/ \E i \in 1 .. Len(queue) : queue[i] = key
    \/ worker # Idle /\ worker.key = key

\* "Enqueues for an active or already-queued key are merged atomically instead
\* of creating duplicate queued items": no key is queued twice, nor while the
\* worker holds it.
NoDuplicates ==
  \A i \in 1 .. Len(queue) :
    /\ \A j \in 1 .. Len(queue) : queue[i] = queue[j] => i = j
    /\ worker # Idle => queue[i] # worker.key

\* No value is lost and no key is queued twice, whatever fails meanwhile.
NothingLost == TypeOK /\ NothingStranded /\ NoDuplicates

\* "drainKey() resolves only when that key has no queued, pending, or active work
\* left": when the drain of a caller returns, the last value that was enqueued,
\* and so any that the caller had seen, has been processed.
DrainWaitsForWork ==
  [][\A caller \in Caller : Drained(caller) =>
       LET drain == callers[caller]
       IN  handled[drain.key] = enqueued[drain.key] /\ handled[drain.key] >= drain.seen]_vars

\* A drain returns, when the key is not enqueued for ever: closing a terminal,
\* which persists its history first, does not hang.
EveryDrainReturns ==
  \A caller \in Caller : callers[caller] # NoDrain ~> callers[caller] = NoDrain

=============================================================================
