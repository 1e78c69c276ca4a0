---------------------------- MODULE Workspace_proofs ----------------------------
(***************************************************************************)
(* Proofs about what the server keeps of a workspace: the worker that      *)
(* writes transcripts (KeyedCoalescingWorker), for any keys, callers and   *)
(* number of enqueues, the status of its repository                        *)
(* (GitStatusBroadcaster), for any streams and refreshes, and the output   *)
(* of its terminals (TerminalOutput), for any fibers, chunks and           *)
(* operations.                                                             *)
(***************************************************************************)
EXTENDS MCWorkspace, SequenceTheorems, FiniteSetTheorems, TLAPS

-----------------------------------------------------------------------------
(* The keyed worker (KeyedCoalescingWorker).                              *)

\* The worker holds the key and its value, or holds a key it has to queue or claim.
Holds(key) == worker.at \in {"processing", "processed", "failed"} /\ worker.key = key
Hands(key) == worker.at \in {"taken", "requeue"} /\ worker.key = key
Queued(key) == \E i \in 1 .. Len(queue) : queue[i] = key

Typed ==
  /\ latestByKey \in [Key -> Nat]
  /\ queuedKeys \subseteq Key
  /\ activeKeys \subseteq Key
  /\ queue \in Seq(Key)
  /\ worker \in [at : {"idle", "taken", "processing", "processed", "failed", "requeue"},
                 key : Key \cup {NoKey}, value : Nat]
  /\ worker.at # "idle" => worker.key \in Key
  /\ worker = Idle \/ worker.at # "idle"
  /\ worker.at # "processing" => worker.value = 0
  /\ worker.at = "processing" => worker.value # 0
  /\ enqueued \in [Key -> 0 .. MaxEnqueues]
  /\ handled \in [Key -> Nat]
  /\ callers \in [Caller -> [key : Key \cup {NoKey}, seen : Nat]]

\* A key is marked queued exactly when it is in the queue or on its way to or from it.
QueueInv ==
  \A key \in Key : key \in queuedKeys <=> Queued(key) \/ Hands(key)

\* A key is marked active exactly when the worker holds it, and is not queued then.
ActiveInv ==
  \A key \in Key :
    /\ key \in activeKeys <=> Holds(key)
    /\ key \notin activeKeys \/ key \notin queuedKeys

WaitingInv == \A key \in Key : Waiting(key) => key \in queuedKeys \cup activeKeys

\* The last value of a key waits, or is in process, or has been processed.
ValueInv ==
  \A key \in Key :
    /\ latestByKey[key] <= enqueued[key]
    /\ handled[key] <= enqueued[key]
    /\ Waiting(key) => latestByKey[key] = enqueued[key]
    /\ worker.at = "processing" /\ worker.key = key =>
         /\ worker.value <= enqueued[key]
         /\ ~Waiting(key) => worker.value = enqueued[key]
    /\ ~Waiting(key) /\ ~(worker.at = "processing" /\ worker.key = key) =>
         handled[key] = enqueued[key]

CallersInv ==
  \A caller \in Caller :
    callers[caller] # NoDrain =>
      callers[caller].key \in Key /\ callers[caller].seen <= enqueued[callers[caller].key]

Inv ==
  /\ Typed
  /\ NoDuplicates
  /\ QueueInv
  /\ ActiveInv
  /\ WaitingInv
  /\ ValueInv
  /\ CallersInv

-----------------------------------------------------------------------------
(* Sequences. *)

\* The indices of a sequence with one more element at its end.
LEMMA AppendIndices ==
  ASSUME NEW S, NEW q \in Seq(S), NEW e \in S
  PROVE  /\ Append(q, e) \in Seq(S)
         /\ Len(q) \in Nat /\ Len(Append(q, e)) = Len(q) + 1
         /\ \A i \in 1 .. Len(q) : Append(q, e)[i] = q[i]
         /\ Append(q, e)[Len(q) + 1] = e
  BY AppendProperties, LenProperties

\* The indices of a sequence without its head.
LEMMA TailIndices ==
  ASSUME NEW S, NEW q \in Seq(S), q # << >>
  PROVE  /\ Tail(q) \in Seq(S)
         /\ Len(q) \in Nat \ {0} /\ Len(Tail(q)) = Len(q) - 1
         /\ \A i \in 1 .. Len(Tail(q)) : Tail(q)[i] = q[i + 1]
         /\ Head(q) = q[1] /\ q[1] \in S
  BY HeadTailProperties, LenProperties, EmptySeq

\* What the worker holds when its place is known.
LEMMA WorkerFields ==
  ASSUME NEW key, NEW value, NEW place
  PROVE  /\ At(place, key).at = place /\ At(place, key).key = key
         /\ At(place, key).value = 0
         /\ Processing(key, value).at = "processing"
         /\ Processing(key, value).key = key /\ Processing(key, value).value = value
         /\ Idle.at = "idle" /\ Idle.key = NoKey /\ Idle.value = 0
  BY DEF At, Processing, Idle

-----------------------------------------------------------------------------
LEMMA InitInv == Init => Inv
<1> SUFFICES ASSUME Init  PROVE Inv
  OBVIOUS
<1> USE WorkerAssumption DEF Init
<1>1. Len(queue) = 0 /\ queue \in Seq(Key)
  BY EmptySeq
<1>2. worker.at = "idle" /\ worker.key = NoKey /\ worker.value = 0
  BY DEF Idle
<1>3. Typed
  BY <1>1, <1>2 DEF Typed, Idle, NoDrain
<1>4. NoDuplicates /\ QueueInv /\ ActiveInv /\ WaitingInv
  BY <1>1, <1>2 DEF NoDuplicates, QueueInv, ActiveInv, WaitingInv, Waiting, Queued, Hands, Holds
<1>5. ValueInv /\ CallersInv
  BY <1>1, <1>2 DEF ValueInv, CallersInv, Waiting
<1> QED
  BY <1>3, <1>4, <1>5 DEF Inv

\* An enqueue, with or without a caller that goes on to drain.
LEMMA PutInv ==
  ASSUME Inv, NEW key \in Key, Put(key),
         \/ UNCHANGED callers
         \/ \E caller \in Caller :
              callers' = [callers EXCEPT ![caller] = [key |-> key, seen |-> enqueued[key] + 1]]
  PROVE  Inv'
<1> USE DEF Inv, Put
<1>1. enqueued[key] \in Nat /\ enqueued[key] + 1 \in 0 .. MaxEnqueues
  BY WorkerAssumption DEF Typed
<1>2. /\ enqueued'[key] = enqueued[key] + 1 /\ latestByKey'[key] = enqueued[key] + 1
      /\ \A k \in Key \ {key} : enqueued'[k] = enqueued[k] /\ latestByKey'[k] = latestByKey[k]
      /\ \A k \in Key : enqueued[k] \in Nat /\ enqueued'[k] >= enqueued[k]
      /\ \A k \in Key : latestByKey[k] \in Nat /\ handled[k] \in Nat
  BY <1>1 DEF Typed, Merge
<1>3. Len(queue) \in Nat /\ queue' \in Seq(Key)
  BY AppendIndices, LenProperties DEF Typed
<1>4. Typed'
  <2>1. latestByKey' \in [Key -> Nat] /\ enqueued' \in [Key -> 0 .. MaxEnqueues]
    BY <1>1 DEF Typed, Merge
  <2>2. callers' \in [Caller -> [key : Key \cup {NoKey}, seen : Nat]]
    <3>1. [key |-> key, seen |-> enqueued[key] + 1] \in [key : Key \cup {NoKey}, seen : Nat]
      BY <1>1
    <3> QED
      BY <3>1 DEF Typed
  <2>3. queuedKeys' \subseteq Key
    BY DEF Typed
  <2> QED
    BY <1>3, <2>1, <2>2, <2>3 DEF Typed
<1>5. ASSUME MustOffer(key)  PROVE NoDuplicates' /\ QueueInv' /\ ActiveInv' /\ WaitingInv'
  <2>1. queue' = Append(queue, key) /\ queuedKeys' = queuedKeys \cup {key}
    BY <1>5
  <2>2. /\ Len(queue') = Len(queue) + 1 /\ queue'[Len(queue) + 1] = key
        /\ \A i \in 1 .. Len(queue) : queue'[i] = queue[i]
    BY <2>1, AppendIndices DEF Typed
  <2>3. ~Queued(key) /\ ~Hands(key) /\ ~Holds(key)
    BY <1>5 DEF MustOffer, QueueInv, ActiveInv
  <2>4. worker # Idle => worker.key # key
    BY <2>3 DEF Typed, Hands, Holds
  <2>5. NoDuplicates'
    <3>1. \A i \in 1 .. Len(queue) : queue[i] # key
      BY <2>3 DEF Queued
    <3> QED
      BY <1>3, <2>2, <2>4, <3>1 DEF NoDuplicates
  <2>6. \A k \in Key : Queued(k)' <=> Queued(k) \/ k = key
    BY <1>3, <2>2 DEF Queued
  <2>7. QueueInv'
    BY <2>1, <2>6 DEF QueueInv, Hands
  <2>8. ActiveInv' /\ WaitingInv'
    BY <1>2, <1>5, <2>1 DEF ActiveInv, WaitingInv, Holds, Waiting, MustOffer
  <2> QED
    BY <2>5, <2>7, <2>8
<1>6. ASSUME ~MustOffer(key)  PROVE NoDuplicates' /\ QueueInv' /\ ActiveInv' /\ WaitingInv'
  <2>1. UNCHANGED << queue, queuedKeys >>
    BY <1>6
  <2>2. NoDuplicates' /\ QueueInv' /\ ActiveInv'
    BY <2>1 DEF NoDuplicates, QueueInv, ActiveInv, Queued, Hands, Holds
  <2>3. WaitingInv'
    BY <1>2, <1>6, <2>1 DEF WaitingInv, Waiting, MustOffer
  <2> QED
    BY <2>2, <2>3
<1>7. ValueInv'
  BY <1>1, <1>2 DEF ValueInv, Waiting, Typed
<1>8. CallersInv'
  <2>1. CASE UNCHANGED callers
    BY <1>2, <2>1 DEF CallersInv, Typed
  <2>2. CASE \E caller \in Caller :
               callers' = [callers EXCEPT ![caller] = [key |-> key, seen |-> enqueued[key] + 1]]
    BY SMTT(30), <1>1, <1>2, <2>2 DEF CallersInv, Typed
  <2> QED
    BY <2>1, <2>2
<1> QED
  BY <1>4, <1>5, <1>6, <1>7, <1>8

\* The steps of the callers that leave the worker alone.
LEMMA CallerInv ==
  ASSUME Inv, NEW caller \in Caller,
         (\E key \in Key : Flush(caller, key)) \/ Drained(caller)
  PROVE  Inv'
<1> USE DEF Inv
<1>1. UNCHANGED << state, queue, worker, enqueued, handled >>
  BY DEF Flush, Drained
<1>2. NoDuplicates' /\ QueueInv' /\ ActiveInv' /\ WaitingInv' /\ ValueInv'
  BY <1>1 DEF NoDuplicates, QueueInv, ActiveInv, WaitingInv, ValueInv, state,
              Queued, Hands, Holds, Waiting
<1>3. Typed' /\ CallersInv'
  <2>1. CASE \E key \in Key : Flush(caller, key)
    <3>1. PICK key \in Key : Flush(caller, key)
      BY <2>1
    <3>2. enqueued[key] \in Nat
      BY DEF Typed
    <3>3. callers' \in [Caller -> [key : Key \cup {NoKey}, seen : Nat]]
      BY <3>1, <3>2 DEF Flush, Typed
    <3> QED
      BY <1>1, <3>1, <3>2, <3>3 DEF Flush, Typed, CallersInv, state
  <2>2. CASE Drained(caller)
    <3>1. callers' \in [Caller -> [key : Key \cup {NoKey}, seen : Nat]]
      BY <2>2 DEF Drained, NoDrain, Typed
    <3> QED
      BY <1>1, <2>2, <3>1 DEF Drained, NoDrain, Typed, CallersInv, state
  <2> QED
    BY <2>1, <2>2
<1> QED
  BY <1>2, <1>3

\* The key at the head of the queue goes into the hands of the worker.
LEMMA TakeInv ==
  ASSUME Inv, Take
  PROVE  Inv'
<1> USE DEF Inv, Take
<1> DEFINE head == Head(queue)
<1>1. /\ Tail(queue) \in Seq(Key) /\ head \in Key /\ queue[1] = head
      /\ Len(queue) \in Nat \ {0} /\ Len(queue') = Len(queue) - 1
      /\ \A i \in 1 .. Len(queue') : queue'[i] = queue[i + 1]
  BY TailIndices DEF Typed
<1>2. /\ worker'.at = "taken" /\ worker'.key = head /\ worker'.value = 0 /\ worker.at = "idle"
      /\ worker' \in [at : {"taken"}, key : Key, value : Nat]
  BY <1>1 DEF At, Idle
<1>3. Typed'
  BY <1>1, <1>2 DEF Typed, state
<1>4. \A i \in 1 .. Len(queue') : queue'[i] # head
  BY <1>1 DEF NoDuplicates
<1>5. NoDuplicates'
  BY <1>1, <1>2, <1>4 DEF NoDuplicates
<1>6. \A key \in Key : Queued(key) <=> Queued(key)' \/ key = head
  <2> SUFFICES ASSUME NEW key \in Key  PROVE Queued(key) <=> Queued(key)' \/ key = head
    OBVIOUS
  <2>1. ASSUME Queued(key), key # head  PROVE Queued(key)'
    <3>1. PICK i \in 1 .. Len(queue) : queue[i] = key
      BY <2>1 DEF Queued
    <3>2. i # 1 /\ i - 1 \in 1 .. Len(queue')
      BY <1>1, <2>1, <3>1
    <3>3. queue'[i - 1] = key
      BY <1>1, <3>1, <3>2
    <3> QED
      BY <3>2, <3>3 DEF Queued
  <2>2. ASSUME Queued(key)'  PROVE Queued(key)
    <3>1. PICK i \in 1 .. Len(queue') : queue'[i] = key
      BY <2>2 DEF Queued
    <3>2. i + 1 \in 1 .. Len(queue) /\ queue[i + 1] = key
      BY <1>1, <3>1
    <3> QED
      BY <3>2 DEF Queued
  <2>3. Queued(head)
    BY <1>1 DEF Queued
  <2> QED
    BY <2>1, <2>2, <2>3
<1>7. QueueInv'
  BY <1>2, <1>6 DEF QueueInv, Hands, state
<1>8. ActiveInv' /\ WaitingInv' /\ ValueInv' /\ CallersInv'
  BY <1>2 DEF ActiveInv, WaitingInv, ValueInv, CallersInv, Holds, Waiting, state
<1> QED
  BY <1>3, <1>5, <1>7, <1>8

\* A new value is claimed, or the key has none: the two steps that do so.
LEMMA ClaimInv ==
  ASSUME Inv, NEW key \in Key, Claim(key) \/ Continue(key)
  PROVE  Inv'
<1> USE DEF Inv
<1>1. /\ UNCHANGED << queue, enqueued, handled, callers >>
      /\ latestByKey' = Claimed(key)
      /\ worker' = IF Waiting(key) THEN Processing(key, latestByKey[key]) ELSE Idle
  BY DEF Claim, Continue
<1>2. worker.key = key /\ worker.at \in {"taken", "processed"} /\ worker # Idle
  BY WorkerFields DEF Claim, Continue
<1>3. \A k \in Key : latestByKey[k] \in Nat /\ enqueued[k] \in Nat /\ handled[k] \in Nat
  BY DEF Typed
<1>4. /\ latestByKey' \in [Key -> Nat] /\ latestByKey'[key] = 0
      /\ \A k \in Key \ {key} : latestByKey'[k] = latestByKey[k]
  BY <1>1 DEF Claimed, Typed
<1>5. /\ Waiting(key) => worker' \in [at : {"processing"}, key : {key}, value : Nat \ {0}]
      /\ ~Waiting(key) => worker' = Idle
      /\ Waiting(key) => worker'.value = latestByKey[key]
  BY <1>1, <1>3 DEF Processing, Waiting
<1>6. /\ Waiting(key) => worker'.at = "processing" /\ worker'.key = key
      /\ ~Waiting(key) => worker'.at = "idle"
  BY <1>5, WorkerFields
<1>7. /\ key \notin queuedKeys' /\ queuedKeys' \subseteq Key /\ activeKeys' \subseteq Key
      /\ \A k \in Key \ {key} : /\ k \in queuedKeys' <=> k \in queuedKeys
                                /\ k \in activeKeys' <=> k \in activeKeys
      /\ key \in activeKeys' <=> Waiting(key)
  <2>1. CASE Claim(key)
    <3>1. key \notin activeKeys
      BY <2>1, WorkerFields DEF Claim, ActiveInv, Holds
    <3> QED
      BY <2>1, <3>1 DEF Claim, Typed
  <2>2. CASE Continue(key)
    <3>1. key \in activeKeys /\ key \notin queuedKeys
      BY <2>2, WorkerFields DEF Continue, ActiveInv, Holds
    <3> QED
      BY <2>2, <3>1 DEF Continue, Typed
  <2> QED
    BY <2>1, <2>2
<1>8. Typed'
  <2>1. /\ worker' \in [at : {"idle", "taken", "processing", "processed", "failed", "requeue"},
                        key : Key \cup {NoKey}, value : Nat]
        /\ worker'.at # "idle" => worker'.key \in Key
        /\ worker' = Idle \/ worker'.at # "idle"
        /\ worker'.at # "processing" => worker'.value = 0
        /\ worker'.at = "processing" => worker'.value # 0
    BY <1>5, <1>6, WorkerFields DEF Idle
  <2> QED
    BY <1>1, <1>4, <1>7, <2>1 DEF Typed
<1>9. NoDuplicates'
  BY <1>1, <1>2, <1>6 DEF NoDuplicates, Typed
<1>10. ~Queued(key)
  BY <1>2 DEF NoDuplicates, Queued, Typed
<1>11. QueueInv'
  BY <1>1, <1>2, <1>6, <1>7, <1>10 DEF QueueInv, Queued, Hands
<1>12. ActiveInv' /\ WaitingInv'
  BY <1>2, <1>4, <1>6, <1>7 DEF ActiveInv, WaitingInv, Holds, Waiting
<1>13. ValueInv' /\ CallersInv'
  BY <1>1, <1>2, <1>3, <1>4, <1>5, <1>6 DEF ValueInv, CallersInv, Waiting
<1> QED
  BY <1>8, <1>9, <1>11, <1>12, <1>13

\* A process that ends leaves the key with the worker.
LEMMA ProcessInv ==
  ASSUME Inv, NEW key \in Key, NEW value \in 1 .. MaxEnqueues,
         NEW place \in {"processed", "failed"}, Process(key, value, place)
  PROVE  Inv'
<1> USE DEF Inv, Process, state
<1>1. worker.at = "processing" /\ worker.key = key /\ worker.value = value
  BY WorkerFields
<1>2. /\ worker'.at = place /\ worker'.key = key /\ worker'.value = 0
      /\ worker' \in [at : {"processed", "failed"}, key : Key, value : Nat]
  BY DEF At
<1>3. /\ handled' \in [Key -> Nat] /\ handled'[key] = value
      /\ \A k \in Key \ {key} : handled'[k] = handled[k]
  BY WorkerAssumption DEF Typed
<1>4. Typed'
  BY <1>2, <1>3 DEF Typed
<1>5. NoDuplicates' /\ QueueInv' /\ ActiveInv' /\ WaitingInv'
  <2>1. worker # Idle
    BY <1>1, WorkerFields
  <2> QED
    BY <1>1, <1>2, <2>1 DEF NoDuplicates, QueueInv, ActiveInv, WaitingInv,
                            Queued, Hands, Holds, Waiting
<1>6. ValueInv' /\ CallersInv'
  BY <1>1, <1>2, <1>3 DEF ValueInv, CallersInv, Waiting
<1> QED
  BY <1>4, <1>5, <1>6

\* A key whose process failed is given back, and queued again if a value waits.
LEMMA CleanUpInv ==
  ASSUME Inv, NEW key \in Key, CleanUp(key)
  PROVE  Inv'
<1> USE DEF Inv, CleanUp
<1>1. worker.at = "failed" /\ worker.key = key /\ worker # Idle
  BY WorkerFields
<1>2. key \in activeKeys /\ key \notin queuedKeys /\ ~Queued(key)
  BY <1>1 DEF ActiveInv, QueueInv, Holds
<1>3. MustRequeue(key) <=> Waiting(key)
  BY <1>2 DEF MustRequeue
<1>4. /\ Waiting(key) => /\ worker' \in [at : {"requeue"}, key : Key, value : {0}]
                         /\ worker'.at = "requeue" /\ worker'.key = key
      /\ ~Waiting(key) => worker' = Idle /\ worker'.at = "idle"
  BY <1>3, WorkerFields DEF At
<1>5. Typed'
  <2>1. /\ worker' \in [at : {"idle", "taken", "processing", "processed", "failed", "requeue"},
                        key : Key \cup {NoKey}, value : Nat]
        /\ worker'.at # "idle" => worker'.key \in Key
        /\ worker' = Idle \/ worker'.at # "idle"
        /\ worker'.at # "processing" => worker'.value = 0
        /\ worker'.at = "processing" => worker'.value # 0
    BY <1>4, WorkerFields DEF Idle
  <2> QED
    BY <2>1 DEF Typed
<1>6. NoDuplicates'
  BY <1>1, <1>4 DEF NoDuplicates, Typed
<1>7. QueueInv'
  BY <1>1, <1>2, <1>3, <1>4 DEF QueueInv, Queued, Hands, Typed
<1>8. ActiveInv' /\ WaitingInv'
  BY <1>1, <1>2, <1>3, <1>4 DEF ActiveInv, WaitingInv, Holds, Waiting, Typed
<1>9. ValueInv' /\ CallersInv'
  BY <1>1, <1>4 DEF ValueInv, CallersInv, Waiting, Typed
<1> QED
  BY <1>5, <1>6, <1>7, <1>8, <1>9

\* The offer that follows puts the key at the end of the queue.
LEMMA RequeueInv ==
  ASSUME Inv, NEW key \in Key, Requeue(key)
  PROVE  Inv'
<1> USE DEF Inv, Requeue, state
<1>1. worker.at = "requeue" /\ worker.key = key /\ worker # Idle
  BY WorkerFields
<1>2. worker' = Idle /\ worker'.at = "idle" /\ worker'.value = 0
  BY WorkerFields
<1>3. /\ queue' \in Seq(Key) /\ Len(queue) \in Nat
      /\ Len(queue') = Len(queue) + 1 /\ queue'[Len(queue) + 1] = key
      /\ \A i \in 1 .. Len(queue) : queue'[i] = queue[i]
  BY AppendIndices DEF Typed
<1>4. Typed'
  BY <1>2, <1>3 DEF Typed, Idle
<1>5. NoDuplicates'
  BY <1>1, <1>2, <1>3 DEF NoDuplicates
<1>6. \A k \in Key : Queued(k)' <=> Queued(k) \/ k = key
  BY <1>3 DEF Queued
<1>7. QueueInv'
  BY <1>1, <1>2, <1>6 DEF QueueInv, Hands
<1>8. ActiveInv' /\ WaitingInv' /\ ValueInv' /\ CallersInv'
  BY <1>1, <1>2 DEF ActiveInv, WaitingInv, ValueInv, CallersInv, Holds, Waiting
<1> QED
  BY <1>4, <1>5, <1>7, <1>8

\* A step that changes nothing.
LEMMA StutterInv == ASSUME Inv, UNCHANGED vars  PROVE Inv'
  BY DEF Inv, vars, Typed, NoDuplicates, QueueInv, ActiveInv, WaitingInv, ValueInv, CallersInv,
         Queued, Hands, Holds, Waiting

-----------------------------------------------------------------------------
\* The invariant holds in every reachable state.
THEOREM InvHolds == Spec => []Inv
<1>1. ASSUME Inv, [Next]_vars  PROVE Inv'
  <2>1. ASSUME NEW key \in Key, Enqueue(key)  PROVE Inv'
    BY <1>1, <2>1, PutInv DEF Enqueue
  <2>2. ASSUME NEW key \in Key, NEW caller \in Caller, Persist(caller, key)  PROVE Inv'
    BY <1>1, <2>2, PutInv DEF Persist
  <2>3. ASSUME NEW key \in Key, NEW caller \in Caller, Flush(caller, key)  PROVE Inv'
    BY <1>1, <2>3, CallerInv
  <2>4. ASSUME NEW caller \in Caller, Drained(caller)  PROVE Inv'
    BY <1>1, <2>4, CallerInv
  <2>5. ASSUME Loop  PROVE Inv'
    BY <1>1, <2>5, TakeInv, ClaimInv, ProcessInv, CleanUpInv, RequeueInv DEF Loop
  <2> QED
    BY <1>1, <2>1, <2>2, <2>3, <2>4, <2>5, StutterInv DEF Next
<1> QED
  BY <1>1, InitInv, PTL DEF Spec

\* The worker keeps its types: it only processes values that were enqueued.
THEOREM TypeCorrect == Spec => []TypeOK
<1>1. ASSUME Inv  PROVE TypeOK
  <2> USE <1>1 DEF Inv
  <2>1. /\ latestByKey \in [Key -> 0 .. MaxEnqueues]
        /\ handled \in [Key -> 0 .. MaxEnqueues]
    BY WorkerAssumption DEF Typed, ValueInv
  <2>2. callers \in [Caller -> [key : Key, seen : 0 .. MaxEnqueues] \cup {NoDrain}]
    <3>1. ASSUME NEW caller \in Caller, callers[caller] # NoDrain
          PROVE  callers[caller] \in [key : Key, seen : 0 .. MaxEnqueues]
      BY <3>1, WorkerAssumption DEF Typed, CallersInv
    <3> QED
      BY <3>1 DEF Typed
  <2>3. worker \in [at : {"idle"}, key : {NoKey}, value : {0}]
          \cup [at : {"taken", "processed", "failed", "requeue"}, key : Key, value : {0}]
          \cup [at : {"processing"}, key : Key, value : 1 .. MaxEnqueues]
    <3>1. CASE worker = Idle
      BY <3>1 DEF Idle
    <3>2. CASE worker.at = "processing"
      <4>1. worker.key \in Key /\ worker.value \in 1 .. MaxEnqueues
        BY <3>2, WorkerAssumption DEF Typed, ValueInv
      <4> QED
        BY <3>2, <4>1 DEF Typed
    <3>3. CASE worker.at \in {"taken", "processed", "failed", "requeue"}
      BY <3>3 DEF Typed
    <3> QED
      BY <3>1, <3>2, <3>3 DEF Typed
  <2> QED
    BY <2>1, <2>2, <2>3 DEF Typed, TypeOK
<1> QED
  BY <1>1, InvHolds, PTL

\* A waiting value always has somebody who will come for it.
THEOREM NoValueStranded == Spec => []NothingStranded
<1>1. Inv => NothingStranded
  BY WorkerFields DEF Inv, NothingStranded, WaitingInv, QueueInv, ActiveInv, Queued, Hands, Holds
<1> QED
  BY <1>1, InvHolds, PTL

\* No key is queued twice, nor while the worker holds it.
THEOREM QueuedOnce == Spec => []NoDuplicates
<1>1. Inv => NoDuplicates
  BY DEF Inv
<1> QED
  BY <1>1, InvHolds, PTL

\* No value is lost and no key is queued twice, for any keys and callers.
THEOREM NoValueLost == Spec => []NothingLost
BY TypeCorrect, NoValueStranded, QueuedOnce, PTL DEF NothingLost

\* A drain returns only when all that was enqueued for the key has been processed.
THEOREM DrainsWait == Spec => DrainWaitsForWork
<1> DEFINE Done == \A caller \in Caller : Drained(caller) =>
              LET drain == callers[caller]
              IN  handled[drain.key] = enqueued[drain.key] /\ handled[drain.key] >= drain.seen
<1>1. ASSUME Inv  PROVE Done
  <2> SUFFICES ASSUME NEW caller \in Caller, Drained(caller)
               PROVE  /\ handled[callers[caller].key] = enqueued[callers[caller].key]
                      /\ handled[callers[caller].key] >= callers[caller].seen
    OBVIOUS
  <2> DEFINE key == callers[caller].key
  <2>1. key \in Key /\ callers[caller].seen <= enqueued[key]
    BY <1>1 DEF Drained, Inv, CallersInv
  <2>2. ~Waiting(key) /\ ~Holds(key)
    BY <1>1, <2>1 DEF Drained, Busy, Inv, ActiveInv
  <2>3. handled[key] = enqueued[key]
    BY <1>1, <2>1, <2>2 DEF Inv, ValueInv, Holds
  <2> QED
    BY <2>1, <2>3
<1>2. Spec => [][Done]_vars
  BY <1>1, InvHolds, PTL
<1> QED
  BY <1>2 DEF DrainWaitsForWork

-----------------------------------------------------------------------------
(* The types of the variables, by name: few steps look into them.          *)
Event == [part : Git!Part, status : Git!Status]
Cached == [Git!Part -> Git!Status \cup {None}]
StreamState ==
  [pc : {"new", "reading", "loaded", "open", "closed"}, value : Git!Status \cup {None},
   seen : Cached, queue : Seq(Event)]
RefreshState ==
  [pc : {"new", "reading", "updating", "done"}, part : Git!Part, value : Git!Status \cup {None}]
PollerRecord ==
  [subscribers : Nat \ {0}, pc : {"reading", "updating", "sleeping"}, value : Git!Status \cup {None}]
PollerState == PollerRecord \cup {None}

(* The status of a repository.  Finitely many streams are ever there, and  *)
(* None is neither a status nor a poller.                                  *)
GitCalls ==
  /\ IsFiniteSet(Streams)
  /\ MaxChanges \in Nat
  /\ None \notin Nat /\ None \notin PollerRecord

OpenStreams == {s \in Streams : Git!Open(s)}

(* What is about to be stored is a status. *)
ReadsAreStatuses ==
  /\ \A s \in Streams : stream[s].pc = "loaded" => stream[s].value \in Git!Status
  /\ \A r \in Refreshes : refresh[r].pc = "updating" => refresh[r].value \in Git!Status
  /\ poller # None /\ poller.pc = "updating" => poller.value \in Git!Status

(* Nothing waits for a stream that has not begun or is over. *)
NothingWaits == \A s \in Streams : ~Git!Subscribed(s) => stream[s].queue = <<>>

(* Where the local status is known from the start, no stream loads it. *)
NoneLoads ==
  /\ cache["local"] # None
  /\ \A s \in Streams : stream[s].pc \notin {"reading", "loaded"}

(* The last status of a part that waits for a stream is the cached one; if *)
(* none waits, an open stream shows it.                                    *)
LastIn(q, part, latest) ==
  \A i \in 1..Len(q) :
    q[i].part = part /\ (\A j \in (i+1)..Len(q) : q[j].part # part)
      => q[i].status = latest
NoneIn(q, part) == \A i \in 1..Len(q) : q[i].part # part

IsTold(s, part) ==
  /\ LastIn(stream[s].queue, part, cache[part])
  /\ Git!Open(s) /\ NoneIn(stream[s].queue, part) => stream[s].seen[part] = cache[part]

AllAreTold(part) == \A s \in Streams : Git!Subscribed(s) => IsTold(s, part)

GitInv ==
  /\ Git!TypeOK /\ ReadsAreStatuses /\ NothingWaits
  /\ Git!PollerIsHeld
  /\ AllAreTold("remote")
  /\ primed => NoneLoads /\ AllAreTold("local")

-----------------------------------------------------------------------------
LEMMA GitInit == GitCalls /\ Git!Init => GitInv
<1> SUFFICES ASSUME GitCalls, Git!Init  PROVE GitInv
  OBVIOUS
<1>1. Git!TypeOK
  BY EmptySeq DEF GitCalls, Git!Init, Git!TypeOK, Git!Part, Git!Status, Git!NoStatus
<1>2. \A s \in Streams : stream[s].pc = "new" /\ stream[s].queue = <<>>
  BY DEF Git!Init
<1>3. ReadsAreStatuses
  BY <1>2 DEF Git!Init, ReadsAreStatuses
<1>4. OpenStreams = {}
  BY <1>2 DEF OpenStreams, Git!Open
<1>5. Git!PollerIsHeld
  BY <1>4 DEF Git!Init, Git!PollerIsHeld, OpenStreams
<1>6. NothingWaits /\ AllAreTold("remote") /\ AllAreTold("local")
  BY <1>2 DEF NothingWaits, AllAreTold, Git!Subscribed
<1>7. primed => NoneLoads
  BY <1>2 DEF GitCalls, Git!Init, NoneLoads, Git!Part
<1> QED  BY <1>1, <1>3, <1>5, <1>6, <1>7 DEF GitInv

-----------------------------------------------------------------------------
(* What an update and a delivery do to what waits for a stream.            *)
LEMMA PublishedIsLast ==
  ASSUME NEW S, NEW q \in Seq(S), NEW event \in S, NEW part, NEW latest,
         event.part = part => event.status = latest,
         event.part # part => LastIn(q, part, latest)
  PROVE  LastIn(Append(q, event), part, latest)
<1> DEFINE longer == Append(q, event)
<1>1. Len(q) \in Nat /\ Len(longer) = Len(q) + 1
  BY AppendProperties, LenProperties
<1>2. longer[Len(q) + 1] = event
  BY AppendProperties
<1>3. \A i \in 1..Len(q) : longer[i] = q[i]
  BY AppendProperties
<1> HIDE DEF longer
<1> SUFFICES ASSUME NEW i \in 1..Len(longer), longer[i].part = part,
                    \A j \in (i+1)..Len(longer) : longer[j].part # part
             PROVE  longer[i].status = latest
  BY DEF LastIn, longer
<1>4. CASE i = Len(q) + 1
  BY <1>2, <1>4
<1>5. CASE i \in 1..Len(q)
  <2>1. event.part # part  BY <1>1, <1>2, <1>5
  <2>2. \A j \in (i+1)..Len(q) : q[j].part # part  BY <1>1, <1>3, <1>5
  <2> QED  BY <1>3, <1>5, <2>1, <2>2 DEF LastIn
<1> QED  BY <1>1, <1>4, <1>5

LEMMA PublishedIsThere ==
  ASSUME NEW S, NEW q \in Seq(S), NEW event \in S, NEW part
  PROVE  NoneIn(Append(q, event), part) => NoneIn(q, part) /\ event.part # part
<1> DEFINE longer == Append(q, event)
<1>1. Len(q) \in Nat /\ Len(longer) = Len(q) + 1
  BY AppendProperties, LenProperties
<1>2. longer[Len(q) + 1] = event /\ \A i \in 1..Len(q) : longer[i] = q[i]
  BY AppendProperties
<1> HIDE DEF longer
<1> SUFFICES ASSUME NoneIn(longer, part)  PROVE NoneIn(q, part) /\ event.part # part
  BY DEF longer
<1> QED  BY <1>1, <1>2 DEF NoneIn

LEMMA DeliveredInOrder ==
  ASSUME NEW S, NEW q \in Seq(S), q # <<>>, NEW part, NEW latest,
         LastIn(q, part, latest)
  PROVE  /\ LastIn(Tail(q), part, latest)
         /\ NoneIn(Tail(q), part) =>
              IF Head(q).part = part THEN Head(q).status = latest
              ELSE NoneIn(q, part)
<1> DEFINE rest == Tail(q)
<1>1. Len(q) \in Nat /\ Len(q) > 0
  BY LenProperties, EmptySeq
<1>2. Len(rest) = Len(q) - 1 /\ \A i \in 1..Len(rest) : rest[i] = q[i+1]
  BY HeadTailProperties
<1>3. Head(q) = q[1]
  BY HeadTailProperties
<1> HIDE DEF rest
<1>4. LastIn(rest, part, latest)
  <2> SUFFICES ASSUME NEW i \in 1..Len(rest), rest[i].part = part,
                      \A j \in (i+1)..Len(rest) : rest[j].part # part
               PROVE  rest[i].status = latest
    BY DEF LastIn
  <2>1. i + 1 \in 1..Len(q) /\ rest[i] = q[i+1]
    BY <1>1, <1>2
  <2>2. \A j \in (i+2)..Len(q) : q[j].part # part
    <3> TAKE j \in (i+2)..Len(q)
    <3>1. j - 1 \in (i+1)..Len(rest) /\ j - 1 \in 1..Len(rest)  BY <1>1, <1>2
    <3>2. rest[j-1] = q[(j-1)+1] /\ (j-1)+1 = j  BY <1>2, <3>1
    <3> QED  BY <3>1, <3>2
  <2>3. (i+1)+1 = i+2  OBVIOUS
  <2> QED  BY <2>1, <2>2, <2>3 DEF LastIn
<1>5. ASSUME NoneIn(rest, part)
      PROVE  \A j \in 2..Len(q) : q[j].part # part
  <2> TAKE j \in 2..Len(q)
  <2>1. j - 1 \in 1..Len(rest)  BY <1>1, <1>2
  <2>2. rest[j-1] = q[(j-1)+1] /\ (j-1)+1 = j  BY <1>2, <2>1
  <2> QED  BY <1>5, <2>1, <2>2 DEF NoneIn
<1>6. ASSUME NoneIn(rest, part)
      PROVE  IF q[1].part = part THEN q[1].status = latest
             ELSE NoneIn(q, part)
  <2>1. 1 \in 1..Len(q) /\ \A j \in 1..Len(q) : j = 1 \/ j \in 2..Len(q)
    BY <1>1
  <2>2. CASE q[1].part = part
    <3>1. 1 + 1 = 2  OBVIOUS
    <3> QED  BY <1>5, <1>6, <2>1, <2>2, <3>1 DEF LastIn
  <2>3. CASE q[1].part # part
    BY <1>5, <1>6, <2>1, <2>3 DEF NoneIn
  <2> QED  BY <2>2, <2>3
<1> QED  BY <1>3, <1>4, <1>6 DEF rest
-----------------------------------------------------------------------------
LEMMA SameCardinality == ASSUME NEW S PROVE Git!Cardinality(S) = Cardinality(S)
  BY DEF Git!Cardinality, Cardinality

GitTyped ==
  /\ primed \in BOOLEAN
  /\ repository \in [Git!Part -> Git!Status]
  /\ cache \in Cached
  /\ stream \in [Streams -> StreamState]
  /\ refresh \in [Refreshes -> RefreshState]
  /\ poller \in PollerState

LEMMA GitTypedIs == GitTyped <=> Git!TypeOK
  BY DEF GitTyped, Git!TypeOK, Event, Cached, StreamState, RefreshState, PollerState, PollerRecord

GitTypesInv == GitTyped /\ ReadsAreStatuses /\ NothingWaits

(* What an update leaves alone. *)
LEMMA UpdateLeaves ==
  ASSUME GitTyped, NEW part \in Git!Part, NEW latest \in Git!Status,
         Git!UpdateAndPublish(part, latest)
  PROVE  /\ cache' = [cache EXCEPT ![part] = latest] /\ cache' \in Cached
         /\ stream' \in [Streams -> StreamState]
         /\ \A s \in Streams :
              /\ stream'[s].pc = stream[s].pc
              /\ stream'[s].value = stream[s].value
              /\ stream'[s].seen = stream[s].seen
              /\ IF Git!Subscribed(s) /\ cache[part] # latest
                 THEN stream'[s].queue =
                        Append(stream[s].queue, [part |-> part, status |-> latest])
                 ELSE stream'[s] = stream[s]
<1> DEFINE event == [part |-> part, status |-> latest]
<1>1. cache' = [cache EXCEPT ![part] = latest] /\ cache' \in Cached
  BY DEF Git!UpdateAndPublish, GitTyped, Cached
<1>2. \A s \in Streams : stream[s] \in StreamState
  BY DEF GitTyped
<1>3. \A s \in Streams : stream[s].queue \in Seq(Event)
  BY <1>2 DEF StreamState
<1>4. event \in Event
  BY DEF Event
<1> HIDE DEF event
<1>5. \A s \in Streams : Append(stream[s].queue, event) \in Seq(Event)
  BY <1>3, <1>4, AppendProperties
<1>6. \A s \in Streams :
        [stream[s] EXCEPT !.queue = Append(stream[s].queue, event)] \in StreamState
  BY <1>2, <1>5 DEF StreamState
<1>7. stream' = [s \in Streams |->
        IF Git!Subscribed(s) /\ cache[part] # latest
        THEN [stream[s] EXCEPT !.queue = Append(stream[s].queue, event)] ELSE stream[s]]
  BY DEF Git!UpdateAndPublish, event
<1>8. stream' \in [Streams -> StreamState]
  BY <1>2, <1>6, <1>7
<1>9. ASSUME NEW s \in Streams
      PROVE  /\ stream'[s].pc = stream[s].pc
             /\ stream'[s].value = stream[s].value
             /\ stream'[s].seen = stream[s].seen
             /\ IF Git!Subscribed(s) /\ cache[part] # latest
                THEN stream'[s].queue = Append(stream[s].queue, event)
                ELSE stream'[s] = stream[s]
  BY <1>2, <1>7 DEF StreamState
<1> QED  BY <1>1, <1>8, <1>9 DEF event

LEMMA UpdateTypes ==
  ASSUME GitTypesInv, NEW part \in Git!Part, NEW latest \in Git!Status,
         Git!UpdateAndPublish(part, latest), UNCHANGED <<primed, repository>>,
         refresh' \in [Refreshes -> RefreshState], poller' \in PollerState,
         \A r \in Refreshes : refresh'[r].pc = "updating" =>
                                refresh[r].pc = "updating" /\ refresh'[r].value = refresh[r].value,
         poller' # None /\ poller'.pc = "updating" =>
           poller # None /\ poller.pc = "updating" /\ poller'.value = poller.value
  PROVE  GitTypesInv'
<1>1. /\ cache' \in Cached /\ stream' \in [Streams -> StreamState]
      /\ \A s \in Streams : /\ stream'[s].pc = stream[s].pc /\ stream'[s].value = stream[s].value
                            /\ ~Git!Subscribed(s) => stream'[s] = stream[s]
  BY UpdateLeaves DEF GitTypesInv
<1>2. GitTyped'  BY <1>1 DEF GitTypesInv, GitTyped
<1>3. ReadsAreStatuses'  BY <1>1 DEF GitTypesInv, ReadsAreStatuses, Git!Status
<1>4. NothingWaits'  BY <1>1 DEF GitTypesInv, NothingWaits, Git!Subscribed
<1> QED  BY <1>2, <1>3, <1>4 DEF GitTypesInv

(* A step that leaves all but one stream alone. *)
LEMMA OneStreamTypes ==
  ASSUME GitTypesInv, NEW s \in Streams,
         UNCHANGED <<primed, repository, refresh>>, cache' \in Cached, poller' \in PollerState,
         stream' \in [Streams -> StreamState],
         \A x \in Streams \ {s} : stream'[x] = stream[x],
         stream'[s].pc = "loaded" => stream'[s].value \in Git!Status,
         stream'[s].pc \in {"new", "closed"} => stream'[s].queue = <<>>,
         poller' # None /\ poller'.pc = "updating" =>
           poller # None /\ poller.pc = "updating" /\ poller'.value = poller.value
  PROVE  GitTypesInv'
<1>1. GitTyped'  BY DEF GitTypesInv, GitTyped
<1>2. ReadsAreStatuses'  BY DEF GitTypesInv, ReadsAreStatuses, Git!Status
<1>3. stream'[s] \in StreamState  OBVIOUS
<1>4. NothingWaits'  BY <1>3 DEF GitTypesInv, NothingWaits, Git!Subscribed, StreamState
<1> QED  BY <1>1, <1>2, <1>4 DEF GitTypesInv

LEMMA RetainTypes ==
  ASSUME poller \in PollerState, Git!Retain \/ Git!Release \/ UNCHANGED poller
  PROVE  /\ poller' \in PollerState
         /\ poller' # None /\ poller'.pc = "updating" =>
              poller # None /\ poller.pc = "updating" /\ poller'.value = poller.value
<1>1. CASE poller = None
  BY <1>1 DEF Git!Retain, Git!Release, PollerState, PollerRecord
<1>2. CASE poller # None /\ Git!Retain
  BY <1>2 DEF Git!Retain, PollerState, PollerRecord
<1>3. CASE poller # None /\ Git!Release
  BY <1>3 DEF Git!Release, PollerState, PollerRecord
<1>4. CASE UNCHANGED poller
  BY <1>4
<1> QED  BY <1>1, <1>2, <1>3, <1>4

(* The types, and what they say of the queues. *)
LEMMA GitTypes ==
  ASSUME GitCalls, GitTypesInv, [Git!Next]_<<primed, Git!vars>>
  PROVE  GitTypesInv'
<1>a. GitTyped /\ ReadsAreStatuses /\ NothingWaits
  BY DEF GitTypesInv
<1>b. "local" \in Git!Part /\ "remote" \in Git!Part
  BY DEF Git!Part
<1>c. \A part \in Git!Part : repository[part] \in Git!Status
  BY <1>a DEF GitTyped
<1>d. \A s \in Streams : stream[s] \in StreamState
  BY <1>a DEF GitTyped
<1>e. cache \in Cached /\ poller \in PollerState
  BY <1>a DEF GitTyped
<1>p. UNCHANGED primed
  BY DEF Git!Next
<1> USE <1>p
<1>1. ASSUME NEW part \in Git!Part, Git!Change(part)
      PROVE  GitTypesInv'
  <2>1. repository[part] + 1 \in Git!Status
    BY <1>1, <1>c DEF GitCalls, Git!Change, Git!Status
  <2>2. GitTyped'  BY <1>1, <1>a, <2>1 DEF Git!Change, GitTyped
  <2>3. ReadsAreStatuses' /\ NothingWaits'
    BY <1>1, <1>a DEF Git!Change, ReadsAreStatuses, NothingWaits, Git!Subscribed, Git!Status
  <2> QED  BY <2>2, <2>3 DEF GitTypesInv
<1>2. ASSUME NEW s \in Streams, Git!Subscribe(s)
      PROVE  GitTypesInv'
  <2>1. CASE cache["local"] # None
    <3>1. stream' = [stream EXCEPT ![s].pc = "open", ![s].seen = cache] /\ Git!Retain
      BY <1>2, <2>1 DEF Git!Subscribe
    <3>2. stream' \in [Streams -> StreamState] /\ stream'[s].pc = "open"
      BY <3>1, <1>a, <1>d, <1>e DEF GitTyped, StreamState
    <3>3. \A x \in Streams \ {s} : stream'[x] = stream[x]
      BY <3>1, <1>a DEF GitTyped
    <3> QED  BY <1>2, <1>e, <3>1, <3>2, <3>3, RetainTypes, OneStreamTypes DEF Git!Subscribe
  <2>2. CASE cache["local"] = None
    <3>1. stream' = [stream EXCEPT ![s].pc = "reading"] /\ UNCHANGED poller
      BY <1>2, <2>2 DEF Git!Subscribe
    <3>2. stream' \in [Streams -> StreamState] /\ stream'[s].pc = "reading"
      BY <3>1, <1>a, <1>d DEF GitTyped, StreamState
    <3>3. \A x \in Streams \ {s} : stream'[x] = stream[x]
      BY <3>1, <1>a DEF GitTyped
    <3> QED  BY <1>2, <1>e, <3>1, <3>2, <3>3, OneStreamTypes DEF Git!Subscribe
  <2> QED  BY <2>1, <2>2
<1>3. ASSUME NEW s \in Streams, Git!Load(s)
      PROVE  GitTypesInv'
  <2>1. stream' = [stream EXCEPT ![s].pc = "loaded", ![s].value = repository["local"]]
    BY <1>3 DEF Git!Load
  <2>2. /\ stream' \in [Streams -> StreamState]
        /\ stream'[s].pc = "loaded" /\ stream'[s].value \in Git!Status
    BY <2>1, <1>a, <1>b, <1>c, <1>d DEF GitTyped, StreamState
  <2>3. \A x \in Streams \ {s} : stream'[x] = stream[x]
    BY <2>1, <1>a DEF GitTyped
  <2> QED  BY <1>3, <1>e, <2>2, <2>3, OneStreamTypes DEF Git!Load
<1>4. ASSUME NEW s \in Streams, Git!Loaded(s)
      PROVE  GitTypesInv'
  <2>1. stream' = [stream EXCEPT ![s].pc = "open", ![s].seen = cache', ![s].value = None]
    BY <1>4 DEF Git!Loaded
  <2>2. cache' \in Cached
    BY <1>4, <1>b, <1>d, <1>e DEF Git!Loaded, Cached, StreamState
  <2>3. stream' \in [Streams -> StreamState] /\ stream'[s].pc = "open"
    BY ZenonT(40), <2>1, <2>2, <1>a, <1>d DEF GitTyped, StreamState
  <2>4. \A x \in Streams \ {s} : stream'[x] = stream[x]
    BY <2>1, <1>a DEF GitTyped
  <2> QED  BY <1>4, <1>e, <2>2, <2>3, <2>4, RetainTypes, OneStreamTypes DEF Git!Loaded
<1>5. ASSUME NEW s \in Streams, Git!Deliver(s)
      PROVE  GitTypesInv'
  <2> DEFINE event == Head(stream[s].queue)
  <2>1. stream[s].queue \in Seq(Event) /\ stream[s].queue # <<>> /\ stream[s].pc = "open"
    BY <1>5, <1>d DEF Git!Deliver, Git!Open, StreamState
  <2>2. event \in Event /\ Tail(stream[s].queue) \in Seq(Event)
    BY <2>1, HeadTailProperties
  <2>3. event.part \in Git!Part /\ event.status \in Git!Status
    BY <2>2 DEF Event
  <2>4. stream' = [stream EXCEPT ![s].queue = Tail(@), ![s].seen[event.part] = event.status]
    BY <1>5 DEF Git!Deliver
  <2> HIDE DEF event
  <2>5. stream' \in [Streams -> StreamState] /\ stream'[s].pc = "open"
    BY ZenonT(40), <2>1, <2>2, <2>3, <2>4, <1>a, <1>d DEF GitTyped, StreamState, Cached
  <2>6. \A x \in Streams \ {s} : stream'[x] = stream[x]
    BY <2>4, <1>a DEF GitTyped
  <2> QED  BY <1>5, <1>e, <2>5, <2>6, OneStreamTypes DEF Git!Deliver
<1>6. ASSUME NEW s \in Streams, Git!Close(s)
      PROVE  GitTypesInv'
  <2>1. stream' = [stream EXCEPT ![s].pc = "closed", ![s].queue = <<>>, ![s].value = None]
    BY <1>6 DEF Git!Close
  <2>2. <<>> \in Seq(Event)
    BY EmptySeq
  <2>3. /\ stream' \in [Streams -> StreamState]
        /\ stream'[s].pc = "closed" /\ stream'[s].queue = <<>>
    BY ZenonT(40), <2>1, <2>2, <1>a, <1>d DEF GitTyped, StreamState
  <2>4. \A x \in Streams \ {s} : stream'[x] = stream[x]
    BY <2>1, <1>a DEF GitTyped
  <2>5. Git!Release \/ UNCHANGED poller
    BY <1>6 DEF Git!Close
  <2> QED  BY <1>6, <1>e, <2>3, <2>4, <2>5, RetainTypes, OneStreamTypes DEF Git!Close
<1>7. ASSUME NEW r \in Refreshes, Git!StartRefresh(r)
      PROVE  GitTypesInv'
  <2>1. GitTyped'  BY <1>7, <1>a DEF Git!StartRefresh, GitTyped, RefreshState
  <2>2. ReadsAreStatuses' /\ NothingWaits'
    BY <1>7, <1>a DEF Git!StartRefresh, GitTyped, ReadsAreStatuses, NothingWaits, Git!Subscribed
  <2> QED  BY <2>1, <2>2 DEF GitTypesInv
<1>8. ASSUME NEW r \in Refreshes, Git!ReadStatus(r)
      PROVE  GitTypesInv'
  <2>1. refresh[r] \in RefreshState /\ refresh[r].part \in Git!Part
    BY <1>a DEF GitTyped, RefreshState
  <2>2. repository[refresh[r].part] \in Git!Status
    BY <1>c, <2>1
  <2>3. refresh' \in [Refreshes -> RefreshState]
    BY <1>8, <1>a, <2>2 DEF Git!ReadStatus, GitTyped, RefreshState
  <2>4. GitTyped'  BY <1>8, <1>a, <2>3 DEF Git!ReadStatus, GitTyped
  <2>5. /\ refresh'[r].pc = "updating" => refresh'[r].value \in Git!Status
        /\ \A x \in Refreshes \ {r} : refresh'[x] = refresh[x]
    BY <1>8, <1>a, <2>1, <2>2 DEF Git!ReadStatus, GitTyped, RefreshState
  <2>6. ReadsAreStatuses'
    BY <1>8, <1>a, <2>5 DEF Git!ReadStatus, ReadsAreStatuses, Git!Status
  <2>7. NothingWaits'
    BY <1>8, <1>a DEF Git!ReadStatus, NothingWaits, Git!Subscribed
  <2> QED  BY <2>4, <2>6, <2>7 DEF GitTypesInv
<1>9. ASSUME NEW r \in Refreshes, Git!UpdateStatus(r)
      PROVE  GitTypesInv'
  <2>1. refresh[r] \in RefreshState /\ refresh[r].part \in Git!Part /\ refresh[r].value \in Git!Status
    BY <1>9, <1>a DEF Git!UpdateStatus, GitTyped, RefreshState, ReadsAreStatuses
  <2>2. refresh' = [refresh EXCEPT ![r] =
          IF refresh[r].part = "local" THEN [pc |-> "reading", part |-> "remote", value |-> None]
          ELSE [pc |-> "done", part |-> "remote", value |-> None]]
    BY <1>9 DEF Git!UpdateStatus
  <2>3. refresh' \in [Refreshes -> RefreshState]
    BY <2>2, <1>a, <1>b DEF GitTyped, RefreshState
  <2>4. \A x \in Refreshes : refresh'[x].pc = "updating" =>
          refresh[x].pc = "updating" /\ refresh'[x].value = refresh[x].value
    BY <2>2, <1>a DEF GitTyped
  <2> QED  BY <1>9, <1>e, <2>1, <2>3, <2>4, UpdateTypes DEF Git!UpdateStatus
<1>10. ASSUME Git!PollReads
       PROVE  GitTypesInv'
  <2>1. poller' \in PollerState
    BY <1>10, <1>b, <1>c, <1>e DEF Git!PollReads, PollerState, PollerRecord
  <2>2. GitTyped'  BY <1>10, <1>a, <2>1 DEF Git!PollReads, GitTyped
  <2>3. poller' # None /\ poller'.pc = "updating" => poller'.value \in Git!Status
    BY <1>10, <1>b, <1>c, <1>e DEF Git!PollReads, PollerState, PollerRecord
  <2>4. ReadsAreStatuses' /\ NothingWaits'
    BY <1>10, <1>a, <2>3 DEF Git!PollReads, ReadsAreStatuses, NothingWaits, Git!Subscribed, Git!Status
  <2> QED  BY <2>2, <2>4 DEF GitTypesInv
<1>11. ASSUME Git!PollUpdates
       PROVE  GitTypesInv'
  <2>1. poller.value \in Git!Status
    BY <1>11, <1>a DEF Git!PollUpdates, ReadsAreStatuses
  <2>2. poller' \in PollerState /\ poller'.pc = "sleeping"
    BY <1>11, <1>e DEF Git!PollUpdates, PollerState, PollerRecord
  <2>3. refresh' \in [Refreshes -> RefreshState]
    BY <1>11, <1>a DEF Git!PollUpdates, GitTyped
  <2> QED  BY <1>11, <1>b, <2>1, <2>2, <2>3, UpdateTypes DEF Git!PollUpdates
<1>12. ASSUME Git!PollWakes
       PROVE  GitTypesInv'
  <2>1. poller' \in PollerState /\ poller'.pc = "reading"
    BY <1>12, <1>e DEF Git!PollWakes, PollerState, PollerRecord
  <2>2. GitTyped'  BY <1>12, <1>a, <2>1 DEF Git!PollWakes, GitTyped
  <2>3. ReadsAreStatuses' /\ NothingWaits'
    BY <1>12, <1>a, <2>1 DEF Git!PollWakes, ReadsAreStatuses, NothingWaits, Git!Subscribed, Git!Status
  <2> QED  BY <2>2, <2>3 DEF GitTypesInv
<1>13. ASSUME UNCHANGED <<primed, Git!vars>>
       PROVE  GitTypesInv'
  BY <1>13 DEF Git!vars, GitTypesInv, GitTyped, ReadsAreStatuses, NothingWaits, Git!Subscribed, Git!Status
<1> QED
  BY <1>1, <1>2, <1>3, <1>4, <1>5, <1>6, <1>7, <1>8, <1>9, <1>10, <1>11, <1>12, <1>13 DEF Git!Next
-----------------------------------------------------------------------------
(* The poller counts the open streams. *)
LEMMA OpenedAndRetained ==
  ASSUME GitCalls, GitTyped, Git!PollerIsHeld, Git!Retain,
         NEW s \in Streams, ~Git!Open(s), Git!Open(s)',
         \A x \in Streams \ {s} : stream'[x] = stream[x]
  PROVE  Git!PollerIsHeld'
<1>1. OpenStreams' = OpenStreams \cup {s} /\ s \notin OpenStreams
  BY DEF OpenStreams, Git!Open
<1>2. IsFiniteSet(OpenStreams) /\ Cardinality(OpenStreams) \in Nat
  BY FS_Subset, FS_CardinalityType DEF GitCalls, OpenStreams
<1>3. Cardinality(OpenStreams') = Cardinality(OpenStreams) + 1
  BY <1>1, <1>2, FS_AddElement
<1>4. Cardinality({}) = 0
  BY FS_EmptySet
<1>5. IF OpenStreams = {} THEN poller = None
      ELSE poller # None /\ poller.subscribers = Cardinality(OpenStreams)
  BY SameCardinality DEF Git!PollerIsHeld, OpenStreams
<1>6. poller' # None /\ poller'.subscribers = Cardinality(OpenStreams')
  <2>1. CASE OpenStreams = {}
    BY <1>3, <1>4, <1>5, <2>1 DEF Git!Retain, GitCalls, PollerRecord
  <2>2. CASE OpenStreams # {}
    BY <1>2, <1>3, <1>5, <2>2 DEF Git!Retain, GitCalls, GitTyped, PollerState, PollerRecord
  <2> QED  BY <2>1, <2>2
<1> QED  BY <1>1, <1>6, SameCardinality DEF Git!PollerIsHeld, OpenStreams

LEMMA ClosedAndReleased ==
  ASSUME GitCalls, GitTyped, Git!PollerIsHeld, Git!Release,
         NEW s \in Streams, Git!Open(s), ~Git!Open(s)',
         \A x \in Streams \ {s} : stream'[x] = stream[x]
  PROVE  Git!PollerIsHeld'
<1>1. OpenStreams' = OpenStreams \ {s} /\ s \in OpenStreams
  BY DEF OpenStreams, Git!Open
<1>2. IsFiniteSet(OpenStreams) /\ Cardinality(OpenStreams) \in Nat
  BY FS_Subset, FS_CardinalityType DEF GitCalls, OpenStreams
<1>3. IsFiniteSet(OpenStreams') /\ Cardinality(OpenStreams') = Cardinality(OpenStreams) - 1
  BY <1>1, <1>2, FS_RemoveElement
<1>4. poller # None /\ poller.subscribers = Cardinality(OpenStreams)
  BY <1>1, SameCardinality DEF Git!PollerIsHeld, OpenStreams
<1>5. CASE poller.subscribers = 1
  <2>1. OpenStreams' = {}
    BY <1>3, <1>4, <1>5, FS_EmptySet
  <2> QED  BY <1>5, <2>1 DEF Git!Release, Git!PollerIsHeld, OpenStreams
<1>6. CASE poller.subscribers # 1
  <2>1. OpenStreams' # {}
    BY <1>2, <1>3, <1>4, <1>6, FS_EmptySet
  <2>2. poller' # None /\ poller'.subscribers = Cardinality(OpenStreams')
    BY <1>2, <1>3, <1>4, <1>6 DEF Git!Release, GitCalls, GitTyped, PollerState, PollerRecord
  <2> QED  BY <2>1, <2>2, SameCardinality DEF Git!PollerIsHeld, OpenStreams
<1> QED  BY <1>5, <1>6

LEMMA SameAreOpen ==
  ASSUME GitTyped, Git!PollerIsHeld, OpenStreams' = OpenStreams,
         UNCHANGED poller \/ /\ poller # None /\ poller' # None
                             /\ poller'.subscribers = poller.subscribers
  PROVE  Git!PollerIsHeld'
<1>1. IF OpenStreams = {} THEN poller = None
      ELSE poller # None /\ poller.subscribers = Cardinality(OpenStreams)
  BY SameCardinality DEF Git!PollerIsHeld, OpenStreams
<1>2. IF OpenStreams' = {} THEN poller' = None
      ELSE poller' # None /\ poller'.subscribers = Cardinality(OpenStreams')
  BY <1>1
<1> QED  BY <1>2, SameCardinality DEF Git!PollerIsHeld, OpenStreams

LEMMA GitPoller ==
  ASSUME GitCalls, GitTypesInv, GitTypesInv', Git!PollerIsHeld, [Git!Next]_<<primed, Git!vars>>
  PROVE  Git!PollerIsHeld'
<1>a. GitTyped /\ ReadsAreStatuses
  BY DEF GitTypesInv
<1>b. poller \in PollerState /\ cache \in Cached /\ "remote" \in Git!Part
  BY <1>a DEF GitTyped, Git!Part
<1>c. DOMAIN stream = Streams /\ \A s \in Streams : stream[s] \in StreamState
  BY <1>a DEF GitTyped
<1>d. repository["remote"] \in Git!Status
  BY <1>a, <1>b DEF GitTyped
<1>1. CASE UNCHANGED <<stream, poller>>
  BY <1>1, <1>a, SameAreOpen DEF OpenStreams, Git!Open
<1>2. ASSUME NEW s \in Streams, Git!Subscribe(s)  PROVE Git!PollerIsHeld'
  <2>1. \A x \in Streams \ {s} : stream'[x] = stream[x]
    BY <1>2, <1>c DEF Git!Subscribe
  <2>2. CASE cache["local"] # None
    <3>1. Git!Retain /\ stream'[s].pc = "open" /\ stream[s].pc = "new"
      BY <1>2, <1>c, <2>2 DEF Git!Subscribe, StreamState
    <3> QED  BY <1>a, <2>1, <3>1, OpenedAndRetained DEF Git!Open
  <2>3. CASE cache["local"] = None
    <3>1. UNCHANGED poller /\ stream'[s].pc = "reading" /\ stream[s].pc = "new"
      BY <1>2, <1>c, <2>3 DEF Git!Subscribe, StreamState
    <3>2. OpenStreams' = OpenStreams
      BY <2>1, <3>1 DEF OpenStreams, Git!Open
    <3> QED  BY <1>a, <3>1, <3>2, SameAreOpen
  <2> QED  BY <2>2, <2>3
<1>3. ASSUME NEW s \in Streams, Git!Load(s)  PROVE Git!PollerIsHeld'
  <2>1. /\ \A x \in Streams \ {s} : stream'[x] = stream[x]
        /\ UNCHANGED poller /\ stream'[s].pc = "loaded" /\ stream[s].pc = "reading"
    BY <1>3, <1>c DEF Git!Load, StreamState
  <2>2. OpenStreams' = OpenStreams
    BY <2>1 DEF OpenStreams, Git!Open
  <2> QED  BY <1>a, <2>1, <2>2, SameAreOpen
<1>4. ASSUME NEW s \in Streams, Git!Loaded(s)  PROVE Git!PollerIsHeld'
  <2>1. /\ \A x \in Streams \ {s} : stream'[x] = stream[x]
        /\ Git!Retain /\ stream'[s].pc = "open" /\ stream[s].pc = "loaded"
    BY <1>4, <1>c DEF Git!Loaded, StreamState
  <2> QED  BY <1>a, <2>1, OpenedAndRetained DEF Git!Open
<1>5. ASSUME NEW s \in Streams, Git!Deliver(s)  PROVE Git!PollerIsHeld'
  <2>1. /\ \A x \in Streams \ {s} : stream'[x] = stream[x]
        /\ UNCHANGED poller /\ stream'[s].pc = stream[s].pc
    BY <1>5, <1>c DEF Git!Deliver, StreamState
  <2>2. OpenStreams' = OpenStreams
    BY <2>1 DEF OpenStreams, Git!Open
  <2> QED  BY <1>a, <2>1, <2>2, SameAreOpen
<1>6. ASSUME NEW s \in Streams, Git!Close(s)  PROVE Git!PollerIsHeld'
  <2>1. /\ \A x \in Streams \ {s} : stream'[x] = stream[x]
        /\ stream'[s].pc = "closed"
    BY <1>6, <1>c DEF Git!Close, StreamState
  <2>2. CASE Git!Open(s)
    BY <1>6, <1>a, <2>1, <2>2, ClosedAndReleased DEF Git!Close, Git!Open
  <2>3. CASE ~Git!Open(s)
    <3>1. OpenStreams' = OpenStreams
      BY <2>1, <2>3 DEF OpenStreams, Git!Open
    <3> QED  BY <1>6, <1>a, <2>3, <3>1, SameAreOpen DEF Git!Close
  <2> QED  BY <2>2, <2>3
<1>7. ASSUME NEW part \in Git!Part, NEW latest \in Git!Status, Git!UpdateAndPublish(part, latest)
      PROVE  OpenStreams' = OpenStreams
  <2>1. \A s \in Streams : stream'[s].pc = stream[s].pc
    BY <1>7, <1>a, UpdateLeaves
  <2> QED  BY <2>1 DEF OpenStreams, Git!Open
<1>8. ASSUME NEW r \in Refreshes, Git!UpdateStatus(r)  PROVE Git!PollerIsHeld'
  <2>1. refresh[r].part \in Git!Part /\ refresh[r].value \in Git!Status
    BY <1>8, <1>a DEF Git!UpdateStatus, GitTyped, RefreshState, ReadsAreStatuses
  <2> QED  BY <1>7, <1>8, <1>a, <2>1, SameAreOpen DEF Git!UpdateStatus
<1>9. CASE Git!PollUpdates
  <2>1. poller.value \in Git!Status
    BY <1>9, <1>a DEF Git!PollUpdates, ReadsAreStatuses
  <2>2. poller # None /\ poller' # None /\ poller'.subscribers = poller.subscribers
    BY <1>9, <1>b DEF Git!PollUpdates, PollerState, PollerRecord, GitCalls
  <2> QED  BY <1>7, <1>9, <1>a, <1>b, <2>1, <2>2, SameAreOpen DEF Git!PollUpdates
<1>10. CASE Git!PollReads \/ Git!PollWakes
  <2>a. poller # None /\ poller \in PollerRecord
    BY <1>10, <1>b DEF Git!PollReads, Git!PollWakes, PollerState
  <2>b. poller' \in PollerState /\ poller'.subscribers = poller.subscribers
    BY <1>10, <2>a DEF Git!PollReads, Git!PollWakes, GitTypesInv, GitTyped, PollerRecord
  <2>c. poller' \in PollerRecord
    BY <1>10, <1>b, <1>d, <2>a DEF Git!PollReads, Git!PollWakes, PollerRecord
  <2>1. poller # None /\ poller' # None /\ poller'.subscribers = poller.subscribers
    BY <2>a, <2>b, <2>c DEF GitCalls
  <2>2. OpenStreams' = OpenStreams
    BY <1>10 DEF Git!PollReads, Git!PollWakes, OpenStreams, Git!Open
  <2> QED  BY <1>a, <2>1, <2>2, SameAreOpen
<1> QED
  BY <1>1, <1>2, <1>3, <1>4, <1>5, <1>6, <1>8, <1>9, <1>10
  DEF Git!Next, Git!vars, Git!Change, Git!StartRefresh, Git!ReadStatus
-----------------------------------------------------------------------------
(* What a stream has been told of a part is level with the cache. *)
LEMMA SameAreTold ==
  ASSUME NEW part, AllAreTold(part), cache'[part] = cache[part],
         \A s \in Streams : stream'[s].pc = stream[s].pc /\ stream'[s].queue = stream[s].queue
                            /\ stream'[s].seen = stream[s].seen
  PROVE  AllAreTold(part)'
<1> SUFFICES ASSUME NEW s \in Streams, Git!Subscribed(s)'  PROVE IsTold(s, part)'
  BY DEF AllAreTold
<1>1. Git!Subscribed(s) /\ (Git!Open(s)' <=> Git!Open(s))
  BY DEF Git!Subscribed, Git!Open
<1>2. IsTold(s, part)
  BY <1>1 DEF AllAreTold
<1> QED  BY <1>1, <1>2 DEF IsTold

LEMMA UpdateTells ==
  ASSUME GitTyped, NEW part \in Git!Part, NEW latest \in Git!Status,
         Git!UpdateAndPublish(part, latest), NEW other \in Git!Part, AllAreTold(other)
  PROVE  AllAreTold(other)'
<1> DEFINE event == [part |-> part, status |-> latest]
<1>1. event \in Event /\ event.part = part /\ event.status = latest
  BY DEF Event
<1> HIDE DEF event
<1>2. cache' = [cache EXCEPT ![part] = latest] /\ cache \in Cached
  BY UpdateLeaves DEF GitTyped
<1>3. cache'[other] = IF other = part THEN latest ELSE cache[other]
  BY <1>2 DEF Cached
<1> SUFFICES ASSUME NEW s \in Streams, Git!Subscribed(s)'  PROVE IsTold(s, other)'
  BY DEF AllAreTold
<1>4. /\ stream'[s].pc = stream[s].pc /\ stream'[s].seen = stream[s].seen
      /\ IF Git!Subscribed(s) /\ cache[part] # latest
         THEN stream'[s].queue = Append(stream[s].queue, event) ELSE stream'[s] = stream[s]
  BY UpdateLeaves DEF event
<1>5. Git!Subscribed(s) /\ (Git!Open(s)' <=> Git!Open(s))
  BY <1>4 DEF Git!Subscribed, Git!Open
<1>6. IsTold(s, other)
  BY <1>5 DEF AllAreTold
<1>7. stream[s].queue \in Seq(Event)
  BY DEF GitTyped, StreamState
<1>8. CASE cache[part] # latest
  <2>1. stream'[s].queue = Append(stream[s].queue, event)
    BY <1>4, <1>5, <1>8
  <2>2. LastIn(Append(stream[s].queue, event), other, cache'[other])
    BY <1>1, <1>3, <1>6, <1>7, PublishedIsLast DEF IsTold
  <2>3. ASSUME Git!Open(s)', NoneIn(Append(stream[s].queue, event), other)
        PROVE  stream'[s].seen[other] = cache'[other]
    <3>1. NoneIn(stream[s].queue, other) /\ other # part
      BY <1>1, <1>7, <2>3, PublishedIsThere
    <3> QED  BY <1>3, <1>4, <1>5, <1>6, <2>3, <3>1 DEF IsTold
  <2> QED  BY <2>1, <2>2, <2>3 DEF IsTold
<1>9. CASE cache[part] = latest
  <2>1. stream'[s] = stream[s] /\ cache'[other] = cache[other]
    BY <1>3, <1>4, <1>5, <1>9
  <2> QED  BY <1>5, <1>6, <2>1 DEF IsTold
<1> QED  BY <1>8, <1>9

(* A stream that a step takes on is told, and the others still are. *)
LEMMA OneStreamTold ==
  ASSUME NEW part, AllAreTold(part), cache'[part] = cache[part], NEW s \in Streams,
         \A x \in Streams \ {s} : stream'[x] = stream[x],
         Git!Subscribed(s)' => IsTold(s, part)'
  PROVE  AllAreTold(part)'
<1> SUFFICES ASSUME NEW x \in Streams, Git!Subscribed(x)'  PROVE IsTold(x, part)'
  BY DEF AllAreTold
<1>1. CASE x = s
  BY <1>1
<1>2. CASE x # s
  <2>1. stream'[x] = stream[x] /\ Git!Subscribed(x) /\ (Git!Open(x)' <=> Git!Open(x))
    BY <1>2 DEF Git!Subscribed, Git!Open
  <2>2. IsTold(x, part)
    BY <2>1 DEF AllAreTold
  <2> QED  BY <2>1, <2>2 DEF IsTold
<1> QED  BY <1>1, <1>2

LEMMA EmptyIsTold ==
  ASSUME NEW part, NEW latest
  PROVE  LastIn(<<>>, part, latest) /\ NoneIn(<<>>, part)
BY DEF LastIn, NoneIn

LEMMA GitTold ==
  ASSUME GitCalls, GitTypesInv, [Git!Next]_<<primed, Git!vars>>, NEW part \in Git!Part, AllAreTold(part),
         part = "local" => NoneLoads
  PROVE  AllAreTold(part)'
<1>a. GitTyped /\ ReadsAreStatuses /\ NothingWaits
  BY DEF GitTypesInv
<1>b. DOMAIN stream = Streams /\ \A s \in Streams : stream[s] \in StreamState
  BY <1>a DEF GitTyped
<1>c. cache \in Cached /\ "remote" \in Git!Part
  BY <1>a DEF GitTyped, Git!Part
<1>1. CASE UNCHANGED <<cache, stream>>
  BY <1>1, SameAreTold
<1>2. ASSUME NEW s \in Streams, Git!Subscribe(s)  PROVE AllAreTold(part)'
  <2>1. \A x \in Streams \ {s} : stream'[x] = stream[x]
    BY <1>2, <1>b DEF Git!Subscribe
  <2>2. stream[s].queue = <<>>
    BY <1>2, <1>a DEF Git!Subscribe, NothingWaits, Git!Subscribed
  <2>3. stream'[s].queue = <<>> /\ UNCHANGED cache
    BY <1>2, <1>b, <2>2 DEF Git!Subscribe, StreamState
  <2>4. stream'[s].pc = "open" => stream'[s].seen = cache
    BY <1>2, <1>b DEF Git!Subscribe, StreamState
  <2>5. IsTold(s, part)'
    BY <2>3, <2>4, EmptyIsTold DEF IsTold, Git!Open
  <2> QED  BY <2>1, <2>3, <2>5, OneStreamTold
<1>3. ASSUME NEW s \in Streams, Git!Load(s)  PROVE AllAreTold(part)'
  <2>1. /\ \A x \in Streams \ {s} : stream'[x] = stream[x]
        /\ stream[s].pc = "reading" /\ stream'[s].pc = "loaded"
        /\ stream'[s].queue = stream[s].queue /\ UNCHANGED cache
    BY <1>3, <1>b DEF Git!Load, StreamState
  <2>2. IsTold(s, part)
    BY <2>1 DEF AllAreTold, Git!Subscribed
  <2>3. IsTold(s, part)'
    BY <2>1, <2>2 DEF IsTold, Git!Open
  <2> QED  BY <2>1, <2>3, OneStreamTold
<1>4. ASSUME NEW s \in Streams, Git!Loaded(s)  PROVE AllAreTold(part)'
  <2>1. /\ \A x \in Streams \ {s} : stream'[x] = stream[x]
        /\ stream[s].pc = "loaded" /\ stream'[s].pc = "open"
        /\ stream'[s].queue = stream[s].queue /\ stream'[s].seen = cache'
    BY <1>4, <1>b DEF Git!Loaded, StreamState
  <2>2. part # "local"
    BY <1>4 DEF Git!Loaded, NoneLoads
  <2>3. cache'[part] = cache[part]
    BY <1>4, <1>c, <2>2 DEF Git!Loaded, Cached
  <2>4. IsTold(s, part)
    BY <2>1 DEF AllAreTold, Git!Subscribed
  <2>5. IsTold(s, part)'
    BY <2>1, <2>3, <2>4 DEF IsTold
  <2> QED  BY <2>1, <2>3, <2>5, OneStreamTold
<1>5. ASSUME NEW s \in Streams, Git!Deliver(s)  PROVE AllAreTold(part)'
  <2> DEFINE event == Head(stream[s].queue)
  <2>1. stream[s].queue \in Seq(Event) /\ stream[s].queue # <<>> /\ stream[s].pc = "open"
    BY <1>5, <1>b DEF Git!Deliver, Git!Open, StreamState
  <2>2. stream' = [stream EXCEPT ![s].queue = Tail(@), ![s].seen[event.part] = event.status]
        /\ UNCHANGED cache
    BY <1>5 DEF Git!Deliver
  <2>3. event \in Event
    BY <2>1, HeadTailProperties
  <2>4. stream[s].seen \in Cached /\ event.part \in Git!Part
    BY <1>b, <2>3 DEF StreamState, Event
  <2> HIDE DEF event
  <2>5. /\ \A x \in Streams \ {s} : stream'[x] = stream[x]
        /\ stream'[s].pc = "open" /\ stream'[s].queue = Tail(stream[s].queue)
        /\ stream'[s].seen[part] = IF event.part = part THEN event.status ELSE stream[s].seen[part]
    BY <1>b, <2>1, <2>2, <2>4 DEF StreamState, Cached
  <2>6. IsTold(s, part)
    BY <2>1 DEF AllAreTold, Git!Subscribed
  <2>7. /\ LastIn(Tail(stream[s].queue), part, cache[part])
        /\ NoneIn(Tail(stream[s].queue), part) =>
             IF event.part = part THEN event.status = cache[part] ELSE NoneIn(stream[s].queue, part)
    BY <2>1, <2>6, DeliveredInOrder DEF IsTold, event
  <2>8. IsTold(s, part)'
    BY <2>1, <2>2, <2>5, <2>6, <2>7 DEF IsTold, Git!Open
  <2> QED  BY <2>2, <2>5, <2>8, OneStreamTold
<1>6. ASSUME NEW s \in Streams, Git!Close(s)  PROVE AllAreTold(part)'
  <2>1. /\ \A x \in Streams \ {s} : stream'[x] = stream[x]
        /\ stream'[s].pc = "closed" /\ UNCHANGED cache
    BY <1>6, <1>b DEF Git!Close, StreamState
  <2> QED  BY <2>1, OneStreamTold DEF Git!Subscribed
<1>7. ASSUME NEW r \in Refreshes, Git!UpdateStatus(r)  PROVE AllAreTold(part)'
  <2>1. refresh[r].part \in Git!Part /\ refresh[r].value \in Git!Status
    BY <1>7, <1>a DEF Git!UpdateStatus, GitTyped, RefreshState, ReadsAreStatuses
  <2> QED  BY <1>7, <1>a, <2>1, UpdateTells DEF Git!UpdateStatus
<1>8. CASE Git!PollUpdates
  <2>1. poller.value \in Git!Status
    BY <1>8, <1>a DEF Git!PollUpdates, ReadsAreStatuses
  <2> QED  BY <1>8, <1>a, <1>c, <2>1, UpdateTells DEF Git!PollUpdates
<1> QED
  BY <1>1, <1>2, <1>3, <1>4, <1>5, <1>6, <1>7, <1>8
  DEF Git!Next, Git!vars, Git!Change, Git!StartRefresh, Git!ReadStatus, Git!PollReads, Git!PollWakes

(* Once the local status is known it stays known. *)
LEMMA GitNoneLoads ==
  ASSUME GitCalls, GitTypesInv, [Git!Next]_<<primed, Git!vars>>, NoneLoads
  PROVE  NoneLoads'
<1>a. GitTyped /\ ReadsAreStatuses
  BY DEF GitTypesInv
<1>b. DOMAIN stream = Streams /\ \A s \in Streams : stream[s] \in StreamState
  BY <1>a DEF GitTyped
<1>1. ASSUME NEW part \in Git!Part, NEW latest \in Git!Status, Git!UpdateAndPublish(part, latest)
      PROVE  NoneLoads'
  <2>1. cache' = [cache EXCEPT ![part] = latest] /\ cache \in Cached
        /\ \A s \in Streams : stream'[s].pc = stream[s].pc
    BY <1>1, <1>a, UpdateLeaves DEF GitTyped
  <2>2. latest # None
    BY DEF GitCalls, Git!Status
  <2> QED  BY <2>1, <2>2 DEF NoneLoads, Cached, Git!Part
<1>2. ASSUME NEW s \in Streams, Git!Subscribe(s)  PROVE NoneLoads'
  <2>1. \A x \in Streams : stream'[x].pc \in {stream[x].pc, "open"}
    BY <1>2, <1>b DEF Git!Subscribe, NoneLoads, StreamState
  <2> QED  BY <1>2, <2>1 DEF Git!Subscribe, NoneLoads
<1>3. ASSUME NEW s \in Streams, Git!Load(s) \/ Git!Loaded(s)  PROVE FALSE
  BY <1>3 DEF Git!Load, Git!Loaded, NoneLoads
<1>4. ASSUME NEW s \in Streams, Git!Deliver(s)  PROVE NoneLoads'
  <2>1. \A x \in Streams : stream'[x].pc = stream[x].pc
    BY <1>4, <1>b DEF Git!Deliver, StreamState
  <2> QED  BY <1>4, <2>1 DEF Git!Deliver, NoneLoads
<1>5. ASSUME NEW s \in Streams, Git!Close(s)  PROVE NoneLoads'
  <2>1. \A x \in Streams : stream'[x].pc \in {stream[x].pc, "closed"}
    BY <1>5, <1>b DEF Git!Close, StreamState
  <2> QED  BY <1>5, <2>1 DEF Git!Close, NoneLoads
<1>6. ASSUME NEW r \in Refreshes, Git!UpdateStatus(r)  PROVE NoneLoads'
  <2>1. refresh[r].part \in Git!Part /\ refresh[r].value \in Git!Status
    BY <1>6, <1>a DEF Git!UpdateStatus, GitTyped, RefreshState, ReadsAreStatuses
  <2> QED  BY <1>1, <1>6, <2>1 DEF Git!UpdateStatus
<1>7. CASE Git!PollUpdates
  BY <1>1, <1>7, <1>a DEF Git!PollUpdates, ReadsAreStatuses, Git!Part
<1>8. CASE UNCHANGED <<cache, stream>>
  BY <1>8 DEF NoneLoads
<1> QED
  BY <1>2, <1>3, <1>4, <1>5, <1>6, <1>7, <1>8
  DEF Git!Next, Git!vars, Git!Change, Git!StartRefresh, Git!ReadStatus, Git!PollReads, Git!PollWakes

LEMMA GitStep == GitCalls /\ GitInv /\ [Git!Next]_<<primed, Git!vars>> => GitInv'
<1> SUFFICES ASSUME GitCalls, GitInv, [Git!Next]_<<primed, Git!vars>>  PROVE GitInv'
  OBVIOUS
<1>1. GitTypesInv /\ Git!PollerIsHeld /\ AllAreTold("remote")
  BY GitTypedIs DEF GitInv, GitTypesInv
<1>2. GitTypesInv'
  BY <1>1, GitTypes
<1>3. (GitTyped <=> Git!TypeOK)'
  BY GitTypedIs, PTL
<1>4. Git!PollerIsHeld'
  BY <1>1, <1>2, GitPoller
<1>5. AllAreTold("remote")'
  BY <1>1, GitTold DEF Git!Part
<1>6. primed => NoneLoads' /\ AllAreTold("local")'
  BY <1>1, GitTold, GitNoneLoads DEF GitInv, Git!Part
<1>7. UNCHANGED primed
  BY DEF Git!Next
<1> QED  BY <1>2, <1>3, <1>4, <1>5, <1>6, <1>7 DEF GitInv, GitTypesInv

LEMMA GitFromInv == GitInv => Git!StatusIsShown
<1> SUFFICES ASSUME GitInv  PROVE Git!StatusIsShown
  OBVIOUS
<1>1. ASSUME NEW part, AllAreTold(part), Git!Quiet, NEW s \in Streams, Git!Open(s)
      PROVE  stream[s].seen[part] = cache[part]
  <2>1. stream[s].queue = <<>> /\ Git!Subscribed(s)
    BY <1>1 DEF Git!Quiet, Git!Open, Git!Subscribed
  <2> QED  BY <1>1, <2>1, EmptyIsTold DEF AllAreTold, IsTold
<1>2. Git!StreamsAgreeOnRemote
  BY <1>1 DEF GitInv, Git!StreamsAgreeOnRemote
<1>3. ASSUME primed  PROVE Git!StreamsAgree
  <2> SUFFICES ASSUME Git!Quiet, NEW s \in Streams, Git!Open(s)
               PROVE  stream[s].seen = cache
    BY DEF Git!StreamsAgree
  <2>1. stream[s].seen["local"] = cache["local"] /\ stream[s].seen["remote"] = cache["remote"]
    BY <1>1, <1>3 DEF GitInv
  <2>2. stream[s].seen \in Cached /\ cache \in Cached
    BY GitTypedIs DEF GitInv, GitTyped, StreamState
  <2> QED  BY <2>1, <2>2 DEF Cached, Git!Part
<1> QED  BY <1>2, <1>3 DEF GitInv, Git!StatusIsShown

(* The poller of a repository runs as long as a stream is open, and, when  *)
(* all is delivered, every open stream shows the cached status, however    *)
(* streams, refreshes and the poller overlap (streamStatus, refreshStatus, *)
(* retainRemotePoller).                                                    *)
THEOREM GitStatusIsShown ==
  ASSUME GitCalls PROVE MCSpec => []StatusIsShown
<1>1. MCInit => GitInv
  BY GitInit DEF MCInit
<1>2. GitInv /\ [MCNext]_<<scenario, vars, terminalVars, sessionVars, gitVars>> => GitInv'
  <2> SUFFICES ASSUME GitInv, [MCNext]_<<scenario, vars, terminalVars, sessionVars, gitVars>>
               PROVE  GitInv'
    OBVIOUS
  <2>1. [Git!Next]_<<primed, Git!vars>>
    BY DEF MCNext, gitVars, Git!vars
  <2> QED  BY <2>1, GitStep
<1>3. GitInv => StatusIsShown
  BY GitFromInv DEF StatusIsShown
<1> QED  BY <1>1, <1>2, <1>3, PTL DEF MCSpec

-----------------------------------------------------------------------------
(* The output of a terminal.                                               *)
TerminalBounds == MaxChunks \in Nat /\ MaxOps \in Nat

Transcript == Seq(1..MaxChunks)
Events == Seq(0..MaxChunks)
FiberState == [pid : 0..(MaxOps + 1), at : {"idle", "loop", "publish"}, event : 0..MaxChunks]

Works(f) == fiber[f].at # "idle"
Publishes(f) == fiber[f].at = "publish" /\ fiber[f].event # Terminal!Exit
TellsExit(f) == fiber[f].at = "publish" /\ fiber[f].event = Terminal!Exit

(* What waits has a fiber of this process that will look at it.            *)
HasFiber ==
  /\ \A f \in Fibers : ~Works(f) => fiber[f] = Terminal!Idle
  /\ pending # <<>> => draining
  /\ draining => status = "running" /\ \E f \in Fibers : Terminal!Drains(f)

(* The exit of a process that has ended waits or was dropped, or is in the *)
(* session, and then it is told or about to be.                            *)
ExitWaits == \E i \in 1..Len(pending) : pending[i] = Terminal!Exit

ExitComes ==
  /\ alive => status = "running"
  /\ alive => ~ExitWaits
  /\ op = "restarting" => status = "exited" /\ history = <<>>
  /\ ~alive /\ status = "running" => dropped \/ ExitWaits
  /\ status = "exited" => op = "restarting" \/ told \/ \E f \in Fibers : TellsExit(f)

(* The queue is in order, and an exit comes last in it; what was taken     *)
(* from it comes before what waits.                                        *)
Increasing(s) == \A i, j \in 1..Len(s) : i < j => s[i] < s[j]
Distinct(s) == \A i, j \in 1..Len(s) : s[i] = s[j] => i = j
InQueueOrder(waiting, count) ==
  \A i \in 1..Len(waiting) :
    /\ waiting[i] <= count
    /\ \A j \in 1..Len(waiting) :
         i < j => waiting[i] # 0 /\ (waiting[j] # 0 => waiting[i] < waiting[j])
Past(chunk, waiting, count) ==
  chunk <= count /\ \A i \in 1..Len(waiting) : waiting[i] # 0 => chunk < waiting[i]

(* Each chunk is taken once: what fibers publish is of different chunks,   *)
(* which the subscriber has not got.                                       *)
Ordered ==
  /\ InQueueOrder(pending, chunks) /\ Increasing(history) /\ Distinct(view)
  /\ \A i \in 1..Len(history) : Past(history[i], pending, chunks)
  /\ \A i \in 1..Len(view) : Past(view[i], pending, chunks)
  /\ \A f \in Fibers : Publishes(f) =>
       /\ Past(fiber[f].event, pending, chunks)
       /\ \A i \in 1..Len(view) : view[i] # fiber[f].event
       /\ \A g \in Fibers : Publishes(g) /\ fiber[g].event = fiber[f].event => g = f

(* If operations and output wait for one another: at most one fiber is     *)
(* busy, with the process of the session and while no operation is.        *)
OneFiber ==
  /\ \A f \in Fibers : ~Works(f) => fiber[f] = Terminal!Idle
  /\ \A f, g \in Fibers : Works(f) /\ Works(g) => f = g
  /\ \A f \in Fibers : Works(f) => fiber[f].pid = pid /\ op = "none"
  /\ \A f \in Fibers : fiber[f].at = "loop" \/ Publishes(f) => status = "running" /\ draining
  /\ \A f \in Fibers : TellsExit(f) => status = "exited"
  /\ draining => \E f \in Fibers : fiber[f].at = "loop" \/ Publishes(f)
  /\ pending # <<>> => draining

(* ... and the subscriber lacks only what is being published to it.        *)
ViewFollows ==
  /\ ~dropped /\ Increasing(view)
  /\ op = "none" =>
       /\ \A f \in Fibers : Publishes(f) => history = Append(view, fiber[f].event)
       /\ (\A f \in Fibers : ~Publishes(f)) => history = view
  /\ op = "clearing" => history = <<>>

TerminalTyped ==
  /\ pid \in 1..(MaxOps + 1) /\ alive \in BOOLEAN
  /\ status \in {"running", "exited"}
  /\ history \in Transcript /\ view \in Transcript /\ pending \in Events
  /\ draining \in BOOLEAN /\ told \in BOOLEAN
  /\ fiber \in [Fibers -> FiberState]
  /\ op \in {"none", "clearing", "restarting"}
  /\ chunks \in 0..MaxChunks /\ ops \in 0..MaxOps
  /\ sequential \in BOOLEAN /\ dropped \in BOOLEAN

LEMMA TerminalTypedIs == TerminalTyped <=> Terminal!TypeOK
  BY DEF TerminalTyped, Terminal!TypeOK, Transcript, Events, FiberState

(* A process is started by an operation: there is one more than those      *)
(* that have restarted it.                                                 *)
ProcessBound == pid <= ops + (IF op = "restarting" THEN 0 ELSE 1)

TerminalInv ==
  /\ TerminalTyped /\ ProcessBound
  /\ HasFiber /\ ExitComes /\ Ordered
  /\ sequential => OneFiber /\ ViewFollows

LEMMA TerminalInit == TerminalBounds /\ Terminal!Init => TerminalInv
<1> SUFFICES ASSUME TerminalBounds, Terminal!Init  PROVE TerminalInv
  OBVIOUS
<1>1. \A f \in Fibers : fiber[f] = Terminal!Idle
  BY DEF Terminal!Init
<1>2. Terminal!Idle \in FiberState /\ <<>> \in Transcript /\ <<>> \in Events
  BY EmptySeq DEF TerminalBounds, Terminal!Idle, FiberState, Transcript, Events
<1>a. fiber = [f \in Fibers |-> Terminal!Idle] /\ history = <<>> /\ view = <<>> /\ pending = <<>>
  BY DEF Terminal!Init
<1>b. fiber \in [Fibers -> FiberState]
  BY <1>a, <1>2
<1>c. 1 \in 1..(MaxOps + 1) /\ 0 \in 0..MaxChunks /\ 0 \in 0..MaxOps
  BY DEF TerminalBounds
<1>d. pid = 1 /\ chunks = 0 /\ ops = 0 /\ status = "running" /\ op = "none"
  BY DEF Terminal!Init
<1>e. /\ alive \in BOOLEAN /\ draining \in BOOLEAN /\ told \in BOOLEAN
      /\ sequential \in BOOLEAN /\ dropped \in BOOLEAN
  BY DEF Terminal!Init
<1>3. TerminalTyped
  BY <1>a, <1>b, <1>c, <1>d, <1>e, <1>2 DEF TerminalTyped
<1>f. \A f \in Fibers : ~Publishes(f)
  BY <1>1 DEF Publishes, Terminal!Idle
<1>4. HasFiber /\ OneFiber
  BY <1>1 DEF Terminal!Init, HasFiber, OneFiber, Works, Publishes, TellsExit, Terminal!Idle
<1>5. ProcessBound /\ ExitComes
  BY DEF Terminal!Init, ProcessBound, ExitComes, ExitWaits
<1>6. Ordered
  BY <1>a, <1>f DEF Ordered, InQueueOrder, Increasing, Distinct
<1>7. ViewFollows
  BY <1>a, <1>d, <1>f DEF Terminal!Init, ViewFollows, Increasing
<1> QED  BY <1>3, <1>4, <1>5, <1>6, <1>7 DEF TerminalInv
(* An event that comes: it is dropped, or waits for the fiber that drains. *)
LEMMA EnqueueTypes ==
  ASSUME TerminalBounds, TerminalTyped, NEW event \in 0..MaxChunks, Terminal!Enqueue(event)
  PROVE  /\ pending' \in Events /\ draining' \in BOOLEAN /\ fiber' \in [Fibers -> FiberState]
         /\ \/ status # "running" /\ UNCHANGED <<pending, draining, fiber>>
            \/ /\ status = "running" /\ pending' = Append(pending, event) /\ draining' = TRUE
               /\ \/ draining /\ UNCHANGED fiber
                  \/ /\ ~draining
                     /\ \E f \in Fibers :
                          /\ fiber[f] = Terminal!Idle
                          /\ fiber'[f] = [pid |-> pid, at |-> "loop", event |-> 0]
                          /\ \A g \in Fibers \ {f} : fiber'[g] = fiber[g]
<1>1. CASE status # "running"
  BY <1>1 DEF Terminal!Enqueue, TerminalTyped
<1>2. CASE status = "running" /\ draining
  <2>1. pending' = Append(pending, event) /\ draining' = TRUE /\ UNCHANGED fiber
    BY <1>2 DEF Terminal!Enqueue
  <2>2. Append(pending, event) \in Events
    BY AppendProperties DEF TerminalTyped, Events
  <2> QED  BY <1>2, <2>1, <2>2 DEF TerminalTyped
<1>3. CASE status = "running" /\ ~draining
  <2>1. pending' = Append(pending, event) /\ draining' = TRUE
    BY <1>3 DEF Terminal!Enqueue
  <2>2. PICK f \in Fibers :
          /\ fiber[f] = Terminal!Idle
          /\ fiber' = [fiber EXCEPT ![f] = [pid |-> pid, at |-> "loop", event |-> 0]]
    BY <1>3 DEF Terminal!Enqueue
  <2>3. [pid |-> pid, at |-> "loop", event |-> 0] \in FiberState
    BY DEF TerminalBounds, TerminalTyped, FiberState
  <2>4. fiber \in [Fibers -> FiberState]
    BY DEF TerminalTyped
  <2>5. /\ fiber' \in [Fibers -> FiberState]
        /\ fiber'[f] = [pid |-> pid, at |-> "loop", event |-> 0]
        /\ \A g \in Fibers \ {f} : fiber'[g] = fiber[g]
    BY <2>2, <2>3, <2>4
  <2>6. Append(pending, event) \in Events
    BY AppendProperties DEF TerminalTyped, Events
  <2> QED  BY <1>3, <2>1, <2>2, <2>5, <2>6
<1> QED  BY <1>1, <1>2, <1>3 DEF TerminalTyped

(* A step of a busy fiber, event by event. *)
LEMMA DrainTakes ==
  ASSUME TerminalBounds, TerminalTyped, NEW f \in Fibers, Terminal!Drain(f)
  PROVE  /\ fiber' \in [Fibers -> FiberState] /\ fiber'[f].pid = fiber[f].pid
         /\ fiber'[f].at = "publish" /\ fiber'[f].event = Head(pending)
         /\ \A g \in Fibers \ {f} : fiber'[g] = fiber[g]
         /\ Head(pending) \in 0..MaxChunks
         /\ pending' \in Events /\ history' \in Transcript
         /\ \/ /\ Head(pending) = Terminal!Exit
               /\ status' = "exited" /\ pending' = <<>> /\ draining' = FALSE /\ UNCHANGED history
            \/ /\ Head(pending) # Terminal!Exit
               /\ history' = Append(history, Head(pending)) /\ pending' = Tail(pending)
               /\ UNCHANGED <<status, draining>>
<1> DEFINE event == Head(pending)
<1>1. pending \in Seq(0..MaxChunks) /\ pending # <<>>
  BY DEF Terminal!Drain, TerminalTyped, Events
<1>2. event \in 0..MaxChunks /\ Tail(pending) \in Events
  BY <1>1, HeadTailProperties DEF Events
<1>3. fiber' = [fiber EXCEPT ![f].at = "publish", ![f].event = event]
  BY DEF Terminal!Drain
<1>4. fiber \in [Fibers -> FiberState]
  BY DEF TerminalTyped
<1> HIDE DEF event
<1>5. /\ fiber' \in [Fibers -> FiberState] /\ fiber'[f].pid = fiber[f].pid
      /\ fiber'[f].at = "publish" /\ fiber'[f].event = event
      /\ \A g \in Fibers \ {f} : fiber'[g] = fiber[g]
  BY <1>2, <1>3, <1>4 DEF FiberState
<1>6. CASE event = Terminal!Exit
  <2>1. <<>> \in Events  BY EmptySeq DEF Events
  <2>2. status' = "exited" /\ pending' = <<>> /\ draining' = FALSE /\ UNCHANGED history
    BY <1>6 DEF Terminal!Drain, event
  <2> QED  BY <1>2, <1>5, <1>6, <2>1, <2>2 DEF event, TerminalTyped
<1>7. CASE event # Terminal!Exit
  <2>1. history' = Append(history, event) /\ pending' = Tail(pending) /\ UNCHANGED <<status, draining>>
    BY <1>7 DEF Terminal!Drain, event
  <2>2. event \in 1..MaxChunks
    BY <1>2, <1>7 DEF Terminal!Exit, TerminalBounds
  <2>3. Append(history, event) \in Transcript
    BY <2>2, AppendProperties DEF TerminalTyped, Transcript
  <2> QED  BY <1>2, <1>5, <1>7, <2>1, <2>3 DEF event
<1> QED  BY <1>6, <1>7

LEMMA FiberStops ==
  ASSUME TerminalBounds, TerminalTyped, NEW f \in Fibers,
         fiber' = [fiber EXCEPT ![f] = Terminal!Idle] \/ fiber' = [fiber EXCEPT ![f].at = "loop"]
  PROVE  /\ fiber' \in [Fibers -> FiberState]
         /\ \A g \in Fibers \ {f} : fiber'[g] = fiber[g]
         /\ fiber' = [fiber EXCEPT ![f] = Terminal!Idle] => fiber'[f] = Terminal!Idle
         /\ fiber' = [fiber EXCEPT ![f].at = "loop"] =>
              fiber'[f].at = "loop" /\ fiber'[f].pid = fiber[f].pid
<1>1. Terminal!Idle \in FiberState
  BY DEF TerminalBounds, Terminal!Idle, FiberState
<1>2. fiber \in [Fibers -> FiberState]
  BY DEF TerminalTyped
<1>3. CASE fiber' = [fiber EXCEPT ![f] = Terminal!Idle]
  <2>1. fiber'[f] = Terminal!Idle  BY <1>2, <1>3
  <2>2. Terminal!Idle.at = "idle"  BY DEF Terminal!Idle
  <2>3. ASSUME fiber' = [fiber EXCEPT ![f].at = "loop"]  PROVE FALSE
    BY <1>2, <2>1, <2>2, <2>3 DEF FiberState
  <2> QED  BY <1>1, <1>2, <1>3, <2>1, <2>3
<1>4. CASE fiber' = [fiber EXCEPT ![f].at = "loop"]
  <2>1. fiber'[f].at = "loop" /\ fiber'[f].pid = fiber[f].pid
    BY <1>2, <1>4 DEF FiberState
  <2>2. fiber' \in [Fibers -> FiberState] /\ \A g \in Fibers \ {f} : fiber'[g] = fiber[g]
    BY <1>2, <1>4 DEF FiberState
  <2>3. fiber'[f] # Terminal!Idle
    BY <2>1 DEF Terminal!Idle
  <2> QED  BY <1>2, <2>1, <2>2, <2>3
<1> QED  BY <1>3, <1>4
LEMMA TerminalTypes ==
  ASSUME TerminalBounds, TerminalTyped, ProcessBound, [Terminal!Next]_(Terminal!vars)
  PROVE  TerminalTyped' /\ ProcessBound'
<1>a. <<>> \in Events /\ <<>> \in Transcript
  BY EmptySeq DEF Events, Transcript
<1>1. CASE Terminal!Output
  <2>1. chunks' = chunks + 1 /\ chunks' \in 0..MaxChunks /\ Terminal!Enqueue(chunks')
    BY <1>1 DEF Terminal!Output, TerminalBounds, TerminalTyped
  <2>2. pending' \in Events /\ draining' \in BOOLEAN /\ fiber' \in [Fibers -> FiberState]
    BY <2>1, EnqueueTypes
  <2> QED  BY <1>1, <2>1, <2>2 DEF Terminal!Output, TerminalTyped, ProcessBound
<1>2. CASE Terminal!Die
  <2>1. Terminal!Exit \in 0..MaxChunks
    BY DEF Terminal!Exit, TerminalBounds
  <2>2. pending' \in Events /\ draining' \in BOOLEAN /\ fiber' \in [Fibers -> FiberState]
    BY <1>2, <2>1, EnqueueTypes DEF Terminal!Die
  <2> QED  BY <1>2, <2>2 DEF Terminal!Die, TerminalTyped, ProcessBound
<1>3. ASSUME NEW f \in Fibers, Terminal!Drain(f)  PROVE TerminalTyped' /\ ProcessBound'
  <2>1. /\ fiber' \in [Fibers -> FiberState] /\ pending' \in Events /\ history' \in Transcript
        /\ \/ status' = "exited" /\ draining' = FALSE
           \/ UNCHANGED <<status, draining>>
    BY <1>3, DrainTakes
  <2>2. status' \in {"running", "exited"} /\ draining' \in BOOLEAN
    BY <2>1 DEF TerminalTyped
  <2> QED  BY <1>3, <2>1, <2>2 DEF Terminal!Drain, TerminalTyped, ProcessBound
<1>4. ASSUME NEW f \in Fibers, Terminal!DrainEnds(f)  PROVE TerminalTyped' /\ ProcessBound'
  <2>1. fiber' \in [Fibers -> FiberState]
    BY <1>4, FiberStops DEF Terminal!DrainEnds
  <2>2. dropped' \in BOOLEAN
    BY <1>4, Zenon DEF Terminal!DrainEnds, Terminal!Drops
  <2> QED  BY <1>4, <1>a, <2>1, <2>2 DEF Terminal!DrainEnds, TerminalTyped, ProcessBound
<1>5. ASSUME NEW f \in Fibers, Terminal!Publish(f)  PROVE TerminalTyped' /\ ProcessBound'
  <2>1. fiber' \in [Fibers -> FiberState]
    BY <1>5, FiberStops DEF Terminal!Publish
  <2>2. view' \in Transcript /\ told' \in BOOLEAN
    <3>1. CASE fiber[f].event = Terminal!Exit
      BY <1>5, <3>1 DEF Terminal!Publish, TerminalTyped
    <3>2. CASE fiber[f].event # Terminal!Exit
      <4>1. fiber[f].event \in 1..MaxChunks
        BY <3>2 DEF TerminalBounds, TerminalTyped, FiberState, Terminal!Exit
      <4>2. Append(view, fiber[f].event) \in Transcript
        BY <4>1, AppendProperties DEF TerminalTyped, Transcript
      <4> QED  BY <1>5, <3>2, <4>2 DEF Terminal!Publish, TerminalTyped
    <3> QED  BY <3>1, <3>2
  <2> QED  BY <1>5, <2>1, <2>2 DEF Terminal!Publish, TerminalTyped, ProcessBound
<1>6. CASE Terminal!Clear
  <2>1. ops' = ops + 1 /\ ops' \in 0..MaxOps /\ op = "none"
    BY <1>6 DEF Terminal!Clear, Terminal!Begins, TerminalBounds, TerminalTyped
  <2>a. dropped' \in BOOLEAN
    BY <1>6, Zenon DEF Terminal!Clear, Terminal!Drops
  <2>2. TerminalTyped'
    BY <1>6, <1>a, <2>1, <2>a DEF Terminal!Clear, TerminalTyped
  <2>3. ProcessBound'
    BY <1>6, <2>1 DEF Terminal!Clear, TerminalBounds, TerminalTyped, ProcessBound
  <2> QED  BY <2>2, <2>3
<1>7. CASE Terminal!Cleared
  <2>1. TerminalTyped'
    BY <1>7, <1>a DEF Terminal!Cleared, TerminalTyped
  <2>2. ProcessBound'
    BY <1>7 DEF Terminal!Cleared, ProcessBound
  <2> QED  BY <2>1, <2>2
<1>8. CASE Terminal!Restart
  <2>1. ops' = ops + 1 /\ ops' \in 0..MaxOps /\ op = "none"
    BY <1>8 DEF Terminal!Restart, Terminal!Begins, TerminalBounds, TerminalTyped
  <2>2. TerminalTyped'
    BY <1>8, <1>a, <2>1 DEF Terminal!Restart, TerminalTyped
  <2>3. ProcessBound'
    BY <1>8, <2>1 DEF Terminal!Restart, TerminalBounds, TerminalTyped, ProcessBound
  <2> QED  BY <2>2, <2>3
<1>9. CASE Terminal!Spawned
  <2>1. pid' = pid + 1 /\ pid <= ops
    BY <1>9 DEF Terminal!Spawned, ProcessBound, TerminalTyped, TerminalBounds
  <2>2. pid' \in 1..(MaxOps + 1)
    BY <2>1 DEF TerminalBounds, TerminalTyped
  <2>3. TerminalTyped'
    BY <1>9, <1>a, <2>2 DEF Terminal!Spawned, TerminalTyped
  <2>4. ProcessBound'
    BY <1>9, <2>1 DEF Terminal!Spawned, TerminalBounds, TerminalTyped, ProcessBound
  <2> QED  BY <2>3, <2>4
<1>10. CASE UNCHANGED Terminal!vars
  BY <1>10 DEF Terminal!vars, TerminalTyped, ProcessBound
<1> QED
  BY <1>1, <1>2, <1>3, <1>4, <1>5, <1>6, <1>7, <1>8, <1>9, <1>10 DEF Terminal!Next

(* Operations begin when no fiber is busy and nothing waits. *)
LEMMA BeginsAtRest ==
  ASSUME TerminalBounds, sequential = TRUE, OneFiber, Terminal!Begins
  PROVE  op = "none" /\ (\A f \in Fibers : ~Works(f)) /\ ~draining /\ pending = <<>>
<1>1. op = "none" /\ \A f \in Fibers : fiber[f] = Terminal!Idle
  BY DEF TerminalBounds, Terminal!Begins, Terminal!Resting
<1>2. \A f \in Fibers : fiber[f].at = "idle"
  BY <1>1 DEF Terminal!Idle
<1> QED  BY <1>1, <1>2 DEF OneFiber, Works, Publishes

LEMMA NoneBusy ==
  ASSUME \A f \in Fibers : ~Works(f)'
  PROVE  \A f \in Fibers : fiber'[f].at = "idle" /\ ~Publishes(f)' /\ ~TellsExit(f)'
BY DEF Works, Publishes, TellsExit

(* The only fiber that may be busy when a step takes one.                  *)
LEMMA OnlyOne ==
  ASSUME OneFiber, NEW f \in Fibers, Works(f)
  PROVE  /\ op = "none" /\ fiber[f].pid = pid
         /\ \A g \in Fibers \ {f} : fiber[g] = Terminal!Idle /\ fiber[g].at = "idle"
BY DEF OneFiber, Terminal!Idle

LEMMA ComesToFiber ==
  ASSUME TerminalBounds, TerminalTyped, OneFiber, NEW event \in 0..MaxChunks,
         Terminal!Enqueue(event), UNCHANGED <<pid, status, op>>, op = "none"
  PROVE  /\ OneFiber'
         /\ \A f \in Fibers : (Publishes(f)' <=> Publishes(f)) /\ (TellsExit(f)' <=> TellsExit(f))
         /\ \A f \in Fibers : Publishes(f) => fiber'[f] = fiber[f]
<1>1. CASE status # "running"
  <2>1. UNCHANGED <<pending, draining, fiber>>
    BY <1>1, EnqueueTypes
  <2> QED  BY <2>1 DEF OneFiber, Works, Publishes, TellsExit
<1>2. CASE status = "running" /\ draining
  <2>1. draining' = TRUE /\ UNCHANGED fiber
    BY <1>2, EnqueueTypes
  <2> QED  BY <1>2, <2>1 DEF OneFiber, Works, Publishes, TellsExit
<1>3. CASE status = "running" /\ ~draining
  <2>1. draining' = TRUE
    BY <1>3, EnqueueTypes
  <2>2. PICK f \in Fibers : /\ fiber[f] = Terminal!Idle
                            /\ fiber'[f] = [pid |-> pid, at |-> "loop", event |-> 0]
                            /\ \A g \in Fibers \ {f} : fiber'[g] = fiber[g]
    BY <1>3, EnqueueTypes
  <2>3. \A g \in Fibers : ~Works(g)
    <3> SUFFICES ASSUME NEW g \in Fibers, Works(g)  PROVE FALSE
      OBVIOUS
    <3>1. fiber[g].at \in {"loop", "publish"}
      BY DEF Works, TerminalTyped, FiberState
    <3>2. ~(fiber[g].at = "loop" \/ Publishes(g))
      BY <1>3 DEF OneFiber
    <3>3. TellsExit(g)
      BY <3>1, <3>2 DEF TellsExit, Publishes
    <3> QED  BY <1>3, <3>3 DEF OneFiber
  <2>4. \A g \in Fibers \ {f} : fiber'[g] = fiber[g] /\ fiber[g].at = "idle"
    BY <2>2, <2>3 DEF Works
  <2>5. fiber'[f].at = "loop" /\ fiber'[f].pid = pid /\ fiber[f].at = "idle"
    BY <2>2 DEF Terminal!Idle
  <2>6. OneFiber'
    BY <1>3, <2>1, <2>4, <2>5 DEF OneFiber, Works, Publishes, TellsExit
  <2>7. \A g \in Fibers : ~Publishes(g) /\ ~TellsExit(g) /\ ~Publishes(g)' /\ ~TellsExit(g)'
    BY <2>4, <2>5 DEF Publishes, TellsExit
  <2> QED  BY <2>6, <2>7
<1> QED  BY <1>1, <1>2, <1>3 DEF TerminalTyped

LEMMA OneFiberStep ==
  ASSUME TerminalBounds, sequential = TRUE, TerminalTyped, OneFiber, [Terminal!Next]_(Terminal!vars)
  PROVE  OneFiber'
<1>1. CASE Terminal!Output
  <2>1. chunks' \in 0..MaxChunks /\ Terminal!Enqueue(chunks') /\ op = "none"
    BY <1>1 DEF Terminal!Output, TerminalBounds, TerminalTyped
  <2> QED  BY <1>1, <2>1, ComesToFiber DEF Terminal!Output
<1>2. CASE Terminal!Die
  <2>1. Terminal!Exit \in 0..MaxChunks /\ op = "none"
    BY <1>2 DEF Terminal!Exit, Terminal!Die, TerminalBounds
  <2> QED  BY <1>2, <2>1, ComesToFiber DEF Terminal!Die
<1>3. ASSUME NEW f \in Fibers, Terminal!Drain(f)  PROVE OneFiber'
  <2>1. Works(f) /\ fiber[f].at = "loop" /\ UNCHANGED <<pid, op>> /\ status = "running"
    BY <1>3 DEF Terminal!Drain, Works
  <2>2. /\ op = "none" /\ fiber[f].pid = pid /\ draining
        /\ \A g \in Fibers \ {f} : fiber[g] = Terminal!Idle /\ fiber[g].at = "idle"
    BY <2>1, OnlyOne DEF OneFiber
  <2>3. /\ fiber'[f].pid = fiber[f].pid
        /\ fiber'[f].at = "publish" /\ fiber'[f].event = Head(pending)
        /\ \A g \in Fibers \ {f} : fiber'[g] = fiber[g]
        /\ \/ /\ Head(pending) = Terminal!Exit
              /\ status' = "exited" /\ pending' = <<>> /\ draining' = FALSE
           \/ Head(pending) # Terminal!Exit /\ UNCHANGED <<status, draining>>
    BY <1>3, DrainTakes
  <2>4. \A g \in Fibers \ {f} : fiber'[g] = Terminal!Idle /\ fiber'[g].at = "idle"
    BY <2>2, <2>3
  <2>5. CASE Head(pending) = Terminal!Exit
    <3>1. status' = "exited" /\ pending' = <<>> /\ draining' = FALSE
      BY <2>3, <2>5
    <3>2. TellsExit(f)' /\ ~Publishes(f)'
      BY <2>3, <2>5 DEF TellsExit, Publishes
    <3> QED  BY <2>1, <2>2, <2>3, <2>4, <3>1, <3>2 DEF OneFiber, Works, Publishes, TellsExit
  <2>6. CASE Head(pending) # Terminal!Exit
    <3>1. UNCHANGED <<status, draining>>
      BY <2>3, <2>6
    <3>2. ~TellsExit(f)' /\ Publishes(f)'
      BY <2>3, <2>6 DEF TellsExit, Publishes
    <3> QED  BY <2>1, <2>2, <2>3, <2>4, <3>1, <3>2 DEF OneFiber, Works, Publishes, TellsExit
  <2> QED  BY <2>5, <2>6
<1>4. ASSUME NEW f \in Fibers, Terminal!DrainEnds(f)  PROVE OneFiber'
  <2>1. Works(f) /\ pending' = <<>> /\ draining' = FALSE
    BY <1>4 DEF Terminal!DrainEnds, Works
  <2>2. \A g \in Fibers : fiber'[g] = Terminal!Idle
    BY <1>4, <2>1, OnlyOne, FiberStops DEF Terminal!DrainEnds
  <2>3. \A g \in Fibers : fiber'[g].at = "idle"
    BY <2>2 DEF Terminal!Idle
  <2> QED  BY <2>1, <2>2, <2>3 DEF OneFiber, Works, Publishes, TellsExit
<1>5. ASSUME NEW f \in Fibers, Terminal!Publish(f)  PROVE OneFiber'
  <2>1. /\ Works(f) /\ fiber[f].at = "publish"
        /\ UNCHANGED <<pid, status, pending, draining, op>>
    BY <1>5 DEF Terminal!Publish, Works
  <2>2. \A g \in Fibers \ {f} : fiber[g] = Terminal!Idle /\ fiber[g].at = "idle"
    BY <2>1, OnlyOne
  <2>3. CASE fiber[f].event = Terminal!Exit
    <3>1. \A g \in Fibers : fiber'[g] = Terminal!Idle
      BY <1>5, <2>2, <2>3, FiberStops DEF Terminal!Publish
    <3>2. \A g \in Fibers : fiber'[g].at = "idle"
      BY <3>1 DEF Terminal!Idle
    <3>3. ~draining /\ pending = <<>>
      BY <2>1, <2>2, <2>3 DEF OneFiber, Publishes
    <3> QED  BY <2>1, <3>1, <3>2, <3>3 DEF OneFiber, Works, Publishes, TellsExit
  <2>4. CASE fiber[f].event # Terminal!Exit
    <3>1. /\ fiber'[f].at = "loop" /\ fiber'[f].pid = fiber[f].pid
          /\ \A g \in Fibers \ {f} : fiber'[g] = fiber[g]
      BY <1>5, <2>4, FiberStops DEF Terminal!Publish
    <3>2. status = "running" /\ draining /\ fiber[f].pid = pid /\ op = "none"
      BY <2>1, <2>4 DEF OneFiber, Publishes
    <3>3. \A g \in Fibers \ {f} : fiber'[g] = Terminal!Idle /\ fiber'[g].at = "idle"
      BY <2>2, <3>1
    <3> QED  BY <2>1, <3>1, <3>2, <3>3 DEF OneFiber, Works, Publishes, TellsExit
  <2> QED  BY <2>3, <2>4
<1>6. CASE Terminal!Clear \/ Terminal!Restart
  <2>1. \A f \in Fibers : ~Works(f)
    BY <1>6, BeginsAtRest DEF Terminal!Clear, Terminal!Restart
  <2>2. UNCHANGED fiber /\ pending' = <<>> /\ draining' = FALSE
    BY <1>6 DEF Terminal!Clear, Terminal!Restart
  <2> QED  BY <2>1, <2>2 DEF OneFiber, Works, Publishes, TellsExit
<1>7. CASE Terminal!Cleared \/ Terminal!Spawned
  <2>1. op # "none" /\ UNCHANGED fiber
    BY <1>7 DEF Terminal!Cleared, Terminal!Spawned
  <2>2. \A f \in Fibers : ~Works(f)
    BY <2>1 DEF OneFiber
  <2>3. pending' = <<>> /\ draining' = FALSE
    BY <1>7, <2>2 DEF Terminal!Cleared, Terminal!Spawned, OneFiber, Works, Publishes, TerminalTyped
  <2> QED  BY <2>1, <2>2, <2>3 DEF OneFiber, Works, Publishes, TellsExit
<1>8. CASE UNCHANGED Terminal!vars
  BY <1>8 DEF Terminal!vars, OneFiber, Works, Publishes, TellsExit
<1> QED
  BY <1>1, <1>2, <1>3, <1>4, <1>5, <1>6, <1>7, <1>8 DEF Terminal!Next
(* An event that comes changes no fiber but an idle one.                   *)
LEMMA BusyStay ==
  ASSUME TerminalBounds, TerminalTyped, NEW event \in 0..MaxChunks, Terminal!Enqueue(event)
  PROVE  \A f \in Fibers : /\ Publishes(f)' <=> Publishes(f)
                           /\ TellsExit(f)' <=> TellsExit(f)
                           /\ Publishes(f) => fiber'[f].event = fiber[f].event
<1>1. CASE UNCHANGED fiber
  BY <1>1 DEF Publishes, TellsExit
<1>2. CASE ~(UNCHANGED fiber)
  <2>1. PICK f \in Fibers : /\ fiber[f] = Terminal!Idle
                            /\ fiber'[f] = [pid |-> pid, at |-> "loop", event |-> 0]
                            /\ \A g \in Fibers \ {f} : fiber'[g] = fiber[g]
    BY <1>2, EnqueueTypes
  <2>2. fiber[f].at = "idle" /\ fiber'[f].at = "loop"
    BY <2>1 DEF Terminal!Idle
  <2> QED  BY <2>1, <2>2 DEF Publishes, TellsExit
<1> QED  BY <1>1, <1>2

LEMMA HasFiberStep ==
  ASSUME TerminalBounds, TerminalTyped, HasFiber, [Terminal!Next]_(Terminal!vars)
  PROVE  HasFiber'
<1>1. ASSUME NEW event \in 0..MaxChunks, Terminal!Enqueue(event), UNCHANGED <<pid, status>>
      PROVE  HasFiber'
  <2>1. CASE UNCHANGED <<pending, draining, fiber>>
    BY <1>1, <2>1 DEF HasFiber, Works, Terminal!Drains
  <2>2. CASE status = "running" /\ draining' = TRUE /\ draining /\ UNCHANGED fiber
    BY <1>1, <2>2 DEF HasFiber, Works, Terminal!Drains
  <2>3. CASE /\ status = "running" /\ draining' = TRUE
             /\ \E f \in Fibers :
                  /\ fiber'[f] = [pid |-> pid, at |-> "loop", event |-> 0]
                  /\ \A g \in Fibers \ {f} : fiber'[g] = fiber[g]
    <3>1. PICK f \in Fibers : /\ fiber'[f] = [pid |-> pid, at |-> "loop", event |-> 0]
                              /\ \A g \in Fibers \ {f} : fiber'[g] = fiber[g]
      BY <2>3
    <3>2. fiber'[f].at = "loop" /\ fiber'[f].pid = pid
      BY <3>1
    <3> QED  BY <1>1, <2>3, <3>1, <3>2 DEF HasFiber, Works, Terminal!Drains
  <2> QED  BY <1>1, <2>1, <2>2, <2>3, EnqueueTypes
<1>2. CASE Terminal!Output
  <2>1. chunks' \in 0..MaxChunks
    BY <1>2 DEF Terminal!Output, TerminalBounds, TerminalTyped
  <2> QED  BY <1>1, <1>2, <2>1 DEF Terminal!Output
<1>3. CASE Terminal!Die
  <2>1. Terminal!Exit \in 0..MaxChunks
    BY DEF Terminal!Exit, TerminalBounds
  <2> QED  BY <1>1, <1>3, <2>1 DEF Terminal!Die
<1>4. ASSUME NEW f \in Fibers, Terminal!Drain(f)  PROVE HasFiber'
  <2>1. /\ status = "running" /\ fiber[f].pid = pid /\ UNCHANGED pid
    BY <1>4 DEF Terminal!Drain
  <2>2. /\ fiber'[f].pid = fiber[f].pid /\ fiber'[f].at = "publish"
        /\ fiber'[f].event = Head(pending)
        /\ \A g \in Fibers \ {f} : fiber'[g] = fiber[g]
        /\ \/ pending' = <<>> /\ draining' = FALSE
           \/ /\ Head(pending) # Terminal!Exit /\ pending # <<>>
              /\ UNCHANGED <<status, draining>>
    BY <1>4, DrainTakes DEF Terminal!Drain
  <2>3. Works(f)' /\ \A g \in Fibers : ~Works(g)' => fiber'[g] = Terminal!Idle
    BY <2>2 DEF HasFiber, Works
  <2> QED  BY <2>1, <2>2, <2>3 DEF HasFiber, Terminal!Drains
<1>5. ASSUME NEW f \in Fibers, Terminal!DrainEnds(f)  PROVE HasFiber'
  <2>1. pending' = <<>> /\ draining' = FALSE
    BY <1>5 DEF Terminal!DrainEnds
  <2>2. fiber'[f] = Terminal!Idle /\ \A g \in Fibers \ {f} : fiber'[g] = fiber[g]
    BY <1>5, FiberStops DEF Terminal!DrainEnds
  <2> QED  BY <2>1, <2>2 DEF HasFiber, Works
<1>6. ASSUME NEW f \in Fibers, Terminal!Publish(f)  PROVE HasFiber'
  <2>1. fiber[f].at = "publish" /\ UNCHANGED <<pid, status, pending, draining>>
    BY <1>6 DEF Terminal!Publish
  <2>2. CASE fiber[f].event = Terminal!Exit
    <3>1. fiber'[f] = Terminal!Idle /\ \A g \in Fibers \ {f} : fiber'[g] = fiber[g]
      BY <1>6, <2>2, FiberStops DEF Terminal!Publish
    <3>2. ~Terminal!Drains(f)
      BY <2>1, <2>2 DEF Terminal!Drains
    <3> QED  BY <2>1, <3>1, <3>2 DEF HasFiber, Works, Terminal!Drains
  <2>3. CASE fiber[f].event # Terminal!Exit
    <3>1. /\ fiber'[f].at = "loop" /\ fiber'[f].pid = fiber[f].pid
          /\ \A g \in Fibers \ {f} : fiber'[g] = fiber[g]
      BY <1>6, <2>3, FiberStops DEF Terminal!Publish
    <3> QED  BY <2>1, <3>1 DEF HasFiber, Works, Terminal!Drains
  <2> QED  BY <2>2, <2>3
<1>7. CASE Terminal!Clear \/ Terminal!Restart \/ Terminal!Spawned
  <2>1. pending' = <<>> /\ draining' = FALSE /\ UNCHANGED fiber
    BY <1>7 DEF Terminal!Clear, Terminal!Restart, Terminal!Spawned
  <2> QED  BY <2>1 DEF HasFiber, Works
<1>8. CASE Terminal!Cleared \/ UNCHANGED Terminal!vars
  BY <1>8 DEF Terminal!Cleared, Terminal!vars, HasFiber, Works, Terminal!Drains
<1> QED
  BY <1>2, <1>3, <1>4, <1>5, <1>6, <1>7, <1>8 DEF Terminal!Next

LEMMA ExitComesStep ==
  ASSUME TerminalBounds, TerminalTyped, ExitComes, Ordered, [Terminal!Next]_(Terminal!vars)
  PROVE  ExitComes'
<1>a. pending \in Seq(0..MaxChunks) /\ Len(pending) \in Nat /\ DOMAIN pending = 1..Len(pending)
  BY LenProperties DEF TerminalTyped, Events
<1>b. pending' = <<>> => ~ExitWaits'
  BY DEF ExitWaits
<1>c. Terminal!Drops => dropped' = (dropped \/ ExitWaits)
  BY <1>a DEF Terminal!Drops, ExitWaits
<1>d. ASSUME NEW event \in 0..MaxChunks, pending' = Append(pending, event)
      PROVE  ExitWaits' <=> ExitWaits \/ event = Terminal!Exit
  <2>1. /\ Len(pending') = Len(pending) + 1 /\ pending'[Len(pending) + 1] = event
        /\ \A i \in 1..Len(pending) : pending'[i] = pending[i]
    BY <1>a, <1>d, AppendProperties
  <2> QED  BY <1>a, <2>1 DEF ExitWaits
<1>1. CASE Terminal!Output
  <2>1. /\ chunks' = chunks + 1 /\ chunks' \in 0..MaxChunks /\ Terminal!Enqueue(chunks')
        /\ alive /\ UNCHANGED <<alive, status>>
    BY <1>1 DEF Terminal!Output, TerminalBounds, TerminalTyped
  <2>2. pending' = Append(pending, chunks') /\ status = "running" /\ op # "restarting"
    BY <2>1, EnqueueTypes DEF ExitComes
  <2>3. chunks' # Terminal!Exit
    BY <2>1 DEF Terminal!Exit, TerminalTyped, TerminalBounds
  <2>4. ~ExitWaits'
    BY <1>d, <2>1, <2>2, <2>3 DEF ExitComes
  <2>5. UNCHANGED op
    BY <1>1 DEF Terminal!Output
  <2> QED  BY <2>1, <2>2, <2>4, <2>5 DEF ExitComes
<1>2. CASE Terminal!Die
  <2>1. /\ Terminal!Exit \in 0..MaxChunks /\ Terminal!Enqueue(Terminal!Exit)
        /\ alive /\ ~alive' /\ UNCHANGED <<status, op>>
    BY <1>2 DEF Terminal!Exit, Terminal!Die, TerminalBounds
  <2>2. pending' = Append(pending, Terminal!Exit) /\ status = "running" /\ op # "restarting"
    BY <2>1, EnqueueTypes DEF ExitComes
  <2>3. ExitWaits'
    BY <1>d, <2>1, <2>2
  <2> QED  BY <2>1, <2>2, <2>3 DEF ExitComes
<1>3. ASSUME NEW f \in Fibers, Terminal!Drain(f)  PROVE ExitComes'
  <2>1. /\ status = "running" /\ pending # <<>> /\ op # "restarting"
        /\ UNCHANGED <<alive, op, told, dropped>>
    BY <1>3 DEF Terminal!Drain, ExitComes
  <2>2. Len(pending) > 0 /\ Head(pending) = pending[1] /\ 1 \in 1..Len(pending)
    BY <1>a, <2>1, EmptySeq, HeadTailProperties
  <2>3. CASE Head(pending) = Terminal!Exit
    <3>1. status' = "exited" /\ TellsExit(f)' /\ pending' = <<>>
      BY <1>3, <2>3, DrainTakes DEF TellsExit
    <3>2. ~alive
      BY <2>2, <2>3 DEF ExitComes, ExitWaits
    <3> QED  BY <1>b, <2>1, <3>1, <3>2 DEF ExitComes
  <2>4. CASE Head(pending) # Terminal!Exit
    <3>1. status' = "running" /\ pending' = Tail(pending)
      BY <1>3, <2>1, <2>4, DrainTakes
    <3>2. /\ Len(pending') = Len(pending) - 1
          /\ \A k \in 1..Len(pending') : pending'[k] = pending[k+1]
      BY <2>1, <3>1, <1>a, HeadTailProperties
    <3>3. ASSUME ExitWaits  PROVE ExitWaits'
      <4>1. PICK i \in 1..Len(pending) : pending[i] = Terminal!Exit
        BY <3>3 DEF ExitWaits
      <4>2. i # 1
        BY <2>2, <2>4, <4>1
      <4>3. i - 1 \in 1..Len(pending') /\ (i - 1) + 1 = i
        BY <1>a, <3>2, <4>2
      <4> QED  BY <3>2, <4>1, <4>3 DEF ExitWaits
    <3>4. ASSUME ExitWaits'  PROVE ExitWaits
      <4>1. PICK i \in 1..Len(pending') : pending'[i] = Terminal!Exit
        BY <3>4 DEF ExitWaits
      <4>2. i + 1 \in 1..Len(pending)
        BY <1>a, <3>2
      <4> QED  BY <3>2, <4>1, <4>2 DEF ExitWaits
    <3> QED  BY <2>1, <3>1, <3>3, <3>4 DEF ExitComes
  <2> QED  BY <2>3, <2>4
<1>4. ASSUME NEW f \in Fibers, Terminal!DrainEnds(f)  PROVE ExitComes'
  <2>1. /\ fiber[f].at = "loop" /\ pending' = <<>> /\ dropped' = (dropped \/ ExitWaits)
        /\ UNCHANGED <<alive, status, op, told, history>>
    BY <1>4, <1>c DEF Terminal!DrainEnds
  <2>2. \A g \in Fibers : TellsExit(g) => TellsExit(g)'
    <3>1. \A g \in Fibers \ {f} : fiber'[g] = fiber[g]
      BY <1>4, FiberStops DEF Terminal!DrainEnds
    <3>2. ~TellsExit(f)
      BY <2>1 DEF TellsExit
    <3> QED  BY <3>1, <3>2 DEF TellsExit
  <2> QED  BY <1>b, <2>1, <2>2 DEF ExitComes
<1>5. ASSUME NEW f \in Fibers, Terminal!Publish(f)  PROVE ExitComes'
  <2>1. /\ fiber[f].at = "publish" /\ UNCHANGED <<alive, status, pending, op, history, dropped>>
    BY <1>5 DEF Terminal!Publish
  <2>2. ExitWaits' = ExitWaits
    BY <2>1 DEF ExitWaits
  <2>3. status = "exited" => op = "restarting" \/ told' \/ \E g \in Fibers : TellsExit(g)'
    <3>1. CASE fiber[f].event = Terminal!Exit
      BY <1>5, <3>1 DEF Terminal!Publish
    <3>2. CASE fiber[f].event # Terminal!Exit
      <4>1. UNCHANGED told /\ \A g \in Fibers \ {f} : fiber'[g] = fiber[g]
        BY <1>5, <3>2, FiberStops DEF Terminal!Publish
      <4>2. ~TellsExit(f)
        BY <3>2 DEF TellsExit
      <4> QED  BY <4>1, <4>2 DEF ExitComes, TellsExit
    <3> QED  BY <3>1, <3>2
  <2> QED  BY <2>1, <2>2, <2>3 DEF ExitComes
<1>6. CASE Terminal!Clear
  <2>1. /\ pending' = <<>> /\ op = "none" /\ op' = "clearing" /\ history' = <<>>
        /\ dropped' = (dropped \/ ExitWaits) /\ UNCHANGED <<fiber, alive, status, told>>
    BY <1>6, <1>c DEF Terminal!Clear, Terminal!Begins
  <2> QED  BY <1>b, <2>1 DEF ExitComes, TellsExit
<1>7. CASE Terminal!Cleared
  BY <1>7 DEF Terminal!Cleared, ExitComes, ExitWaits, TellsExit
<1>8. CASE Terminal!Restart \/ Terminal!Spawned
  BY <1>b, <1>8 DEF Terminal!Restart, Terminal!Spawned, ExitComes
<1>9. CASE UNCHANGED Terminal!vars
  BY <1>9 DEF Terminal!vars, ExitComes, ExitWaits, TellsExit
<1> QED
  BY <1>1, <1>2, <1>3, <1>4, <1>5, <1>6, <1>7, <1>8, <1>9 DEF Terminal!Next

(* A transcript that a chunk is appended to, and events of which the first *)
(* is taken.                                                               *)
LEMMA IncreasingAppend ==
  ASSUME NEW s \in Seq(Nat), NEW x \in Nat, Increasing(s), \A i \in 1..Len(s) : s[i] < x
  PROVE  Increasing(Append(s, x))
<1>1. /\ Len(s) \in Nat /\ Len(Append(s, x)) = Len(s) + 1
      /\ Append(s, x)[Len(s) + 1] = x
      /\ \A i \in 1..Len(s) : Append(s, x)[i] = s[i]
  BY AppendProperties, LenProperties
<1> QED  BY <1>1 DEF Increasing

LEMMA DistinctAppend ==
  ASSUME NEW s \in Seq(Nat), NEW x \in Nat, Distinct(s), \A i \in 1..Len(s) : s[i] # x
  PROVE  Distinct(Append(s, x))
<1>1. /\ Len(s) \in Nat /\ Len(Append(s, x)) = Len(s) + 1
      /\ Append(s, x)[Len(s) + 1] = x
      /\ \A i \in 1..Len(s) : Append(s, x)[i] = s[i]
  BY AppendProperties, LenProperties
<1> QED  BY <1>1 DEF Distinct

LEMMA IncreasingIsDistinct ==
  ASSUME NEW s \in Seq(Nat), Increasing(s)
  PROVE  Distinct(s)
<1> SUFFICES ASSUME NEW i \in 1..Len(s), NEW j \in 1..Len(s), s[i] = s[j], i # j  PROVE FALSE
  BY DEF Distinct
<1>1. Len(s) \in Nat /\ s[i] \in Nat /\ s[j] \in Nat
  BY LenProperties, ElementOfSeq
<1>2. s[i] < s[j] \/ s[j] < s[i]
  BY <1>1 DEF Increasing
<1> QED  BY <1>1, <1>2

(* An event that comes into a queue without an exit: the next chunk, or    *)
(* the exit.                                                               *)
LEMMA QueueAppend ==
  ASSUME NEW waiting \in Seq(Nat), NEW count \in Nat, NEW event \in Nat, NEW next \in Nat,
         InQueueOrder(waiting, count), \A i \in 1..Len(waiting) : waiting[i] # 0,
         (event = 0 /\ next = count) \/ (event = count + 1 /\ next = count + 1)
  PROVE  /\ InQueueOrder(Append(waiting, event), next)
         /\ \A x \in Nat : Past(x, waiting, count) => Past(x, Append(waiting, event), next)
<1>a. /\ Len(waiting) \in Nat /\ Len(Append(waiting, event)) = Len(waiting) + 1
      /\ Append(waiting, event)[Len(waiting) + 1] = event
      /\ \A i \in 1..Len(waiting) : Append(waiting, event)[i] = waiting[i]
  BY AppendProperties, LenProperties
<1>b. \A i \in 1..Len(waiting) : waiting[i] \in Nat /\ waiting[i] <= count
  BY ElementOfSeq DEF InQueueOrder
<1>c. PICK longer : longer = Append(waiting, event)
  OBVIOUS
<1>d. /\ Len(longer) = Len(waiting) + 1 /\ longer[Len(waiting) + 1] = event
      /\ \A i \in 1..Len(waiting) : longer[i] = waiting[i]
  BY <1>a, <1>c
<1>e. \A i \in 1..Len(longer) : i \in 1..Len(waiting) \/ i = Len(waiting) + 1
  BY <1>a, <1>d
<1>1. InQueueOrder(longer, next)
  <2> SUFFICES ASSUME NEW i \in 1..Len(longer)
               PROVE  /\ longer[i] <= next
                      /\ \A j \in 1..Len(longer) :
                           i < j => longer[i] # 0 /\ (longer[j] # 0 => longer[i] < longer[j])
    BY DEF InQueueOrder
  <2>1. longer[i] <= next
    <3>1. CASE i = Len(waiting) + 1  BY <1>d, <3>1
    <3>2. CASE i \in 1..Len(waiting)
      <4>1. longer[i] = waiting[i] /\ waiting[i] \in Nat /\ waiting[i] <= count
        BY <1>b, <1>d, <3>2
      <4> QED  BY <4>1
    <3> QED  BY <1>e, <3>1, <3>2
  <2>2. ASSUME NEW j \in 1..Len(longer), i < j
        PROVE  longer[i] # 0 /\ (longer[j] # 0 => longer[i] < longer[j])
    <3>1. i \in 1..Len(waiting)
      BY <1>a, <1>d, <2>2
    <3>2. longer[i] = waiting[i] /\ waiting[i] # 0 /\ waiting[i] \in Nat /\ waiting[i] <= count
      BY <1>b, <1>d, <3>1
    <3>3. CASE j = Len(waiting) + 1
      BY <1>d, <3>2, <3>3
    <3>4. CASE j \in 1..Len(waiting)
      BY <1>d, <2>2, <3>1, <3>2, <3>4 DEF InQueueOrder
    <3> QED  BY <1>e, <3>3, <3>4
  <2> QED  BY <2>1, <2>2
<1>2. ASSUME NEW x \in Nat, Past(x, waiting, count)  PROVE Past(x, longer, next)
  <2>1. x <= next
    BY <1>2 DEF Past
  <2>2. ASSUME NEW i \in 1..Len(longer), longer[i] # 0  PROVE x < longer[i]
    <3>1. CASE i = Len(waiting) + 1  BY <1>2, <1>d, <2>2, <3>1 DEF Past
    <3>2. CASE i \in 1..Len(waiting)  BY <1>2, <1>d, <2>2, <3>2 DEF Past
    <3> QED  BY <1>e, <3>1, <3>2
  <2> QED  BY <2>1, <2>2 DEF Past
<1> QED  BY <1>1, <1>2, <1>c

(* The next event is taken from a queue: what was past stays so, and comes *)
(* before it.                                                              *)
LEMMA QueueTail ==
  ASSUME NEW waiting \in Seq(Nat), NEW count \in Nat, waiting # <<>>, InQueueOrder(waiting, count)
  PROVE  /\ InQueueOrder(Tail(waiting), count)
         /\ Head(waiting) \in Nat
         /\ Head(waiting) # 0 => Past(Head(waiting), Tail(waiting), count)
         /\ \A x \in Nat : Past(x, waiting, count) =>
              /\ Past(x, Tail(waiting), count)
              /\ Head(waiting) # 0 => x < Head(waiting)
<1>a. /\ Len(waiting) \in Nat /\ Len(waiting) > 0 /\ Head(waiting) = waiting[1]
      /\ Len(Tail(waiting)) = Len(waiting) - 1
      /\ \A i \in 1..Len(Tail(waiting)) : Tail(waiting)[i] = waiting[i+1]
  BY LenProperties, EmptySeq, HeadTailProperties
<1>b. PICK rest : rest = Tail(waiting)
  OBVIOUS
<1>c. /\ Len(rest) = Len(waiting) - 1 /\ \A i \in 1..Len(rest) : rest[i] = waiting[i+1]
      /\ \A i \in 1..Len(rest) : i + 1 \in 1..Len(waiting) /\ 1 < i + 1
      /\ 1 \in 1..Len(waiting)
  BY <1>a, <1>b
<1>1. InQueueOrder(rest, count)
  <2> SUFFICES ASSUME NEW i \in 1..Len(rest)
               PROVE  /\ rest[i] <= count
                      /\ \A j \in 1..Len(rest) :
                           i < j => rest[i] # 0 /\ (rest[j] # 0 => rest[i] < rest[j])
    BY DEF InQueueOrder
  <2>1. rest[i] <= count
    BY <1>c DEF InQueueOrder
  <2>2. ASSUME NEW j \in 1..Len(rest), i < j
        PROVE  rest[i] # 0 /\ (rest[j] # 0 => rest[i] < rest[j])
    <3>1. i + 1 < j + 1
      BY <1>a, <1>c, <2>2
    <3>2. i + 1 \in 1..Len(waiting) /\ j + 1 \in 1..Len(waiting)
      BY <1>c
    <3>3. waiting[i+1] # 0 /\ (waiting[j+1] # 0 => waiting[i+1] < waiting[j+1])
      BY <3>1, <3>2 DEF InQueueOrder
    <3> QED  BY <1>c, <3>3
  <2> QED  BY <2>1, <2>2
<1>2. waiting[1] \in Nat
  BY <1>c, ElementOfSeq
<1>3. waiting[1] # 0 => Past(waiting[1], rest, count)
  BY <1>c DEF InQueueOrder, Past
<1>4. ASSUME NEW x \in Nat, Past(x, waiting, count)
      PROVE  Past(x, rest, count) /\ (waiting[1] # 0 => x < waiting[1])
  BY <1>4, <1>c DEF Past
<1> QED  BY <1>1, <1>2, <1>3, <1>4, <1>a, <1>b

LEMMA QueueEmpty ==
  ASSUME NEW waiting, NEW count
  PROVE  /\ InQueueOrder(<<>>, count)
         /\ \A x \in Nat : Past(x, waiting, count) => Past(x, <<>>, count)
BY DEF InQueueOrder, Past

LEMMA OrderedTypes ==
  ASSUME TerminalBounds, TerminalTyped
  PROVE  /\ pending \in Seq(Nat) /\ history \in Seq(Nat) /\ view \in Seq(Nat) /\ chunks \in Nat
         /\ Len(pending) \in Nat /\ Len(history) \in Nat /\ Len(view) \in Nat
         /\ \A i \in 1..Len(history) : history[i] \in Nat
         /\ \A i \in 1..Len(view) : view[i] \in Nat
         /\ \A f \in Fibers : fiber[f].event \in Nat
<1>1. history \in Seq(1..MaxChunks) /\ view \in Seq(1..MaxChunks) /\ pending \in Seq(0..MaxChunks)
      /\ 1..MaxChunks \subseteq Nat /\ 0..MaxChunks \subseteq Nat
  BY DEF TerminalTyped, Transcript, Events, TerminalBounds
<1>2. history \in Seq(Nat) /\ view \in Seq(Nat) /\ pending \in Seq(Nat)
  BY <1>1, SeqMonotonic
<1>3. \A f \in Fibers : fiber[f].event \in Nat
  BY <1>1 DEF TerminalTyped, FiberState
<1> QED  BY <1>2, <1>3, LenProperties, ElementOfSeq DEF TerminalTyped, TerminalBounds

LEMMA OrderedStep ==
  ASSUME TerminalBounds, TerminalTyped, TerminalTyped', ExitComes, Ordered,
         [Terminal!Next]_(Terminal!vars)
  PROVE  Ordered'
<1>a. /\ pending \in Seq(Nat) /\ history \in Seq(Nat) /\ view \in Seq(Nat) /\ chunks \in Nat
      /\ Len(pending) \in Nat /\ Len(history) \in Nat /\ Len(view) \in Nat
      /\ \A i \in 1..Len(history) : history[i] \in Nat
      /\ \A i \in 1..Len(view) : view[i] \in Nat
      /\ \A f \in Fibers : fiber[f].event \in Nat
  BY OrderedTypes
<1>b. InQueueOrder(pending, chunks) /\ Increasing(history) /\ Distinct(view)
  BY DEF Ordered
<1>c. ASSUME NEW event \in Nat, pending' = Append(pending, event), alive,
             (event = 0 /\ chunks' = chunks) \/ (event = chunks + 1 /\ chunks' = chunks + 1),
             UNCHANGED <<history, view>>,
             \A f \in Fibers : /\ Publishes(f)' <=> Publishes(f)
                               /\ Publishes(f) => fiber'[f].event = fiber[f].event
      PROVE  Ordered'
  <2>1. \A i \in 1..Len(pending) : pending[i] # 0
    BY <1>c DEF ExitComes, ExitWaits, Terminal!Exit
  <2>2. chunks' \in Nat
    BY <1>a, <1>c
  <2>3. /\ InQueueOrder(pending', chunks')
        /\ \A x \in Nat : Past(x, pending, chunks) => Past(x, pending', chunks')
    BY <1>a, <1>b, <1>c, <2>1, <2>2, QueueAppend
  <2>4. /\ \A i \in 1..Len(history) : Past(history[i], pending', chunks')
        /\ \A i \in 1..Len(view) : Past(view[i], pending', chunks')
        /\ \A f \in Fibers : Publishes(f) => Past(fiber[f].event, pending', chunks')
    BY <1>a, <2>3 DEF Ordered
  <2> QED  BY <1>b, <1>c, <2>3, <2>4 DEF Ordered
<1>d. ASSUME pending' = <<>>, UNCHANGED <<history, view, chunks>>,
             \A f \in Fibers : Publishes(f)' => Publishes(f) /\ fiber'[f].event = fiber[f].event
      PROVE  Ordered'
  <2>1. /\ InQueueOrder(pending', chunks)
        /\ \A x \in Nat : Past(x, pending, chunks) => Past(x, pending', chunks)
    BY <1>d, QueueEmpty
  <2>2. /\ \A i \in 1..Len(history) : Past(history[i], pending', chunks)
        /\ \A i \in 1..Len(view) : Past(view[i], pending', chunks)
        /\ \A f \in Fibers : Publishes(f) => Past(fiber[f].event, pending', chunks)
    BY <1>a, <2>1 DEF Ordered
  <2> QED  BY <1>b, <1>d, <2>1, <2>2 DEF Ordered
<1>1. CASE Terminal!Output
  <2>1. /\ chunks' = chunks + 1 /\ chunks' \in 0..MaxChunks /\ Terminal!Enqueue(chunks') /\ alive
        /\ UNCHANGED <<history, view>>
    BY <1>1 DEF Terminal!Output, TerminalBounds, TerminalTyped
  <2>2. pending' = Append(pending, chunks')
    BY <2>1, EnqueueTypes DEF ExitComes
  <2>3. chunks' \in Nat
    BY <1>a, <2>1
  <2>4. \A f \in Fibers : /\ Publishes(f)' <=> Publishes(f)
                          /\ Publishes(f) => fiber'[f].event = fiber[f].event
    BY <2>1, BusyStay
  <2> QED  BY <1>c, <2>1, <2>2, <2>3, <2>4
<1>2. CASE Terminal!Die
  <2>1. /\ Terminal!Exit \in 0..MaxChunks /\ Terminal!Enqueue(Terminal!Exit) /\ alive
        /\ UNCHANGED <<history, view, chunks>> /\ Terminal!Exit = 0
    BY <1>2 DEF Terminal!Die, Terminal!Exit, TerminalBounds
  <2>2. pending' = Append(pending, 0)
    BY <2>1, EnqueueTypes DEF ExitComes
  <2>3. \A f \in Fibers : /\ Publishes(f)' <=> Publishes(f)
                          /\ Publishes(f) => fiber'[f].event = fiber[f].event
    BY <2>1, BusyStay
  <2> QED  BY <1>c, <2>1, <2>2, <2>3
<1>3. ASSUME NEW f \in Fibers, Terminal!Drain(f)  PROVE Ordered'
  <2>1. pending # <<>> /\ UNCHANGED <<view, chunks>> /\ fiber[f].at = "loop"
    BY <1>3 DEF Terminal!Drain
  <2>2. /\ fiber'[f].at = "publish" /\ fiber'[f].event = Head(pending)
        /\ \A g \in Fibers \ {f} : fiber'[g] = fiber[g]
    BY <1>3, DrainTakes
  <2>3. \A g \in Fibers \ {f} : Publishes(g)' <=> Publishes(g)
    BY <2>2 DEF Publishes
  <2>4. CASE Head(pending) = Terminal!Exit
    <3>1. pending' = <<>> /\ UNCHANGED history
      BY <1>3, <2>4, DrainTakes
    <3>2. ~Publishes(f)'
      BY <2>2, <2>4 DEF Publishes
    <3> QED  BY <1>d, <2>1, <2>2, <2>3, <3>1, <3>2
  <2>5. CASE Head(pending) # Terminal!Exit
    <3>1. history' = Append(history, Head(pending)) /\ pending' = Tail(pending)
      BY <1>3, <2>5, DrainTakes
    <3>2. PICK taken : taken = Head(pending)
      OBVIOUS
    <3>3. taken # 0
      BY <2>5, <3>2 DEF Terminal!Exit
    <3>4. /\ InQueueOrder(pending', chunks) /\ taken \in Nat /\ Past(taken, pending', chunks)
          /\ \A x \in Nat : Past(x, pending, chunks) => Past(x, pending', chunks) /\ x < taken
      BY <1>a, <1>b, <2>1, <3>1, <3>2, <3>3, QueueTail
    <3>5. \A i \in 1..Len(history) : Past(history[i], pending', chunks) /\ history[i] < taken
      BY <1>a, <3>4 DEF Ordered
    <3>6. \A i \in 1..Len(view) : Past(view[i], pending', chunks) /\ view[i] # taken
      BY <1>a, <3>4 DEF Ordered
    <3>7. \A g \in Fibers : Publishes(g) =>
             Past(fiber[g].event, pending', chunks) /\ fiber[g].event # taken
      BY <1>a, <3>4 DEF Ordered
    <3>8. Increasing(history') /\ \A i \in 1..Len(history') : Past(history'[i], pending', chunks)
      <4>1. /\ Len(history') = Len(history) + 1 /\ history'[Len(history) + 1] = taken
            /\ \A i \in 1..Len(history) : history'[i] = history[i]
        BY <1>a, <3>1, <3>2, <3>4, AppendProperties
      <4>2. \A i \in 1..Len(history') : i \in 1..Len(history) \/ i = Len(history) + 1
        BY <1>a, <4>1
      <4>3. Increasing(history')
        BY <1>a, <1>b, <3>1, <3>2, <3>4, <3>5, IncreasingAppend
      <4> QED  BY <3>4, <3>5, <4>1, <4>2, <4>3
    <3>9. \A g \in Fibers : Publishes(g)' =>
             \/ g = f /\ fiber'[g].event = taken
             \/ g # f /\ Publishes(g) /\ fiber'[g] = fiber[g]
      BY <2>2, <2>3, <3>2
    <3>10. \A g \in Fibers : Publishes(g)' =>
              /\ Past(fiber'[g].event, pending', chunks)
              /\ \A i \in 1..Len(view) : view[i] # fiber'[g].event
      BY <3>4, <3>6, <3>7, <3>9 DEF Ordered
    <3>11. \A g, h \in Fibers :
              Publishes(g)' /\ Publishes(h)' /\ fiber'[h].event = fiber'[g].event => h = g
      BY <3>7, <3>9 DEF Ordered
    <3> QED  BY <1>b, <2>1, <3>4, <3>6, <3>8, <3>10, <3>11 DEF Ordered
  <2> QED  BY <2>4, <2>5
<1>4. ASSUME NEW f \in Fibers, Terminal!DrainEnds(f)  PROVE Ordered'
  <2>1. pending' = <<>> /\ UNCHANGED <<history, view, chunks>>
    BY <1>4 DEF Terminal!DrainEnds
  <2>2. fiber'[f].at = "idle" /\ \A g \in Fibers \ {f} : fiber'[g] = fiber[g]
    BY <1>4, FiberStops DEF Terminal!DrainEnds, Terminal!Idle
  <2>3. \A g \in Fibers : Publishes(g)' => Publishes(g) /\ fiber'[g].event = fiber[g].event
    BY <2>2 DEF Publishes
  <2> QED  BY <1>d, <2>1, <2>3
<1>5. ASSUME NEW f \in Fibers, Terminal!Publish(f)  PROVE Ordered'
  <2>1. fiber[f].at = "publish" /\ UNCHANGED <<history, pending, chunks>>
    BY <1>5 DEF Terminal!Publish
  <2>2. fiber'[f].at # "publish" /\ \A g \in Fibers \ {f} : fiber'[g] = fiber[g]
    BY <1>5, FiberStops DEF Terminal!Publish, Terminal!Idle
  <2>3. \A g \in Fibers : Publishes(g)' => g # f /\ Publishes(g) /\ fiber'[g] = fiber[g]
    BY <2>2 DEF Publishes
  <2>4. CASE fiber[f].event = Terminal!Exit
    <3>1. UNCHANGED view
      BY <1>5, <2>4 DEF Terminal!Publish
    <3> QED  BY <2>1, <2>3, <3>1 DEF Ordered
  <2>5. CASE fiber[f].event # Terminal!Exit
    <3>1. PICK shown : shown = fiber[f].event
      OBVIOUS
    <3>2. /\ view' = Append(view, shown) /\ Publishes(f) /\ shown \in Nat
          /\ Past(shown, pending, chunks) /\ \A i \in 1..Len(view) : view[i] # shown
      BY <1>5, <1>a, <2>1, <2>5, <3>1 DEF Terminal!Publish, Publishes, Ordered
    <3>3. /\ Len(view') = Len(view) + 1 /\ view'[Len(view) + 1] = shown
          /\ \A i \in 1..Len(view) : view'[i] = view[i]
      BY <1>a, <3>2, AppendProperties
    <3>4. \A i \in 1..Len(view') : i \in 1..Len(view) \/ i = Len(view) + 1
      <4>1. Len(view) \in Nat /\ Len(view') = Len(view) + 1
        BY <1>a, <3>3
      <4> QED  BY <4>1
    <3>5. Distinct(view')
      BY <1>a, <1>b, <3>2, DistinctAppend
    <3>6. \A i \in 1..Len(view') : Past(view'[i], pending, chunks)
      BY <3>2, <3>3, <3>4 DEF Ordered
    <3>7. ASSUME NEW g \in Fibers, Publishes(g)'
          PROVE  /\ Past(fiber'[g].event, pending, chunks)
                 /\ \A i \in 1..Len(view') : view'[i] # fiber'[g].event
      <4>1. g # f /\ Publishes(g) /\ fiber'[g] = fiber[g]
        BY <2>3, <3>7
      <4>2. fiber[g].event # shown
        BY <3>1, <3>2, <4>1 DEF Ordered
      <4> QED  BY <3>3, <3>4, <4>1, <4>2 DEF Ordered
    <3> QED  BY <1>b, <2>1, <2>3, <3>5, <3>6, <3>7 DEF Ordered
  <2> QED  BY <2>4, <2>5
<1>6. CASE Terminal!Clear \/ Terminal!Restart
  <2>1. history' = <<>> /\ pending' = <<>> /\ UNCHANGED <<view, chunks, fiber>>
    BY <1>6 DEF Terminal!Clear, Terminal!Restart
  <2>2. Increasing(history') /\ InQueueOrder(pending', chunks)
        /\ \A x \in Nat : Past(x, pending, chunks) => Past(x, pending', chunks)
    BY <2>1, QueueEmpty DEF Increasing
  <2>3. /\ \A i \in 1..Len(view) : Past(view[i], pending', chunks)
        /\ \A f \in Fibers : Publishes(f) => Past(fiber[f].event, pending', chunks)
    BY <1>a, <2>2 DEF Ordered
  <2> QED  BY <1>b, <2>1, <2>2, <2>3 DEF Ordered, Publishes
<1>7. CASE Terminal!Cleared
  <2>1. view' = <<>> /\ UNCHANGED <<history, pending, chunks, fiber>>
    BY <1>7 DEF Terminal!Cleared
  <2>2. Distinct(view') /\ \A i \in 1..Len(view') : FALSE
    BY <2>1 DEF Distinct
  <2> QED  BY <1>b, <2>1, <2>2 DEF Ordered, Publishes
<1>8. CASE Terminal!Spawned
  <2>1. view' = history /\ history = <<>> /\ pending' = <<>> /\ UNCHANGED <<history, chunks, fiber>>
    BY <1>8 DEF Terminal!Spawned, ExitComes
  <2>2. Distinct(view') /\ \A i \in 1..Len(view') : FALSE
    BY <2>1 DEF Distinct
  <2>3. InQueueOrder(pending', chunks)
        /\ \A x \in Nat : Past(x, pending, chunks) => Past(x, pending', chunks)
    BY <2>1, QueueEmpty
  <2>4. \A f \in Fibers : Publishes(f) => Past(fiber[f].event, pending', chunks)
    BY <1>a, <2>3 DEF Ordered
  <2> QED  BY <1>b, <2>1, <2>2, <2>3, <2>4 DEF Ordered, Publishes
<1>9. CASE UNCHANGED Terminal!vars
  BY <1>9 DEF Terminal!vars, Ordered, Publishes
<1> QED
  BY <1>1, <1>2, <1>3, <1>4, <1>5, <1>6, <1>7, <1>8, <1>9 DEF Terminal!Next

LEMMA ViewFollowsStep ==
  ASSUME TerminalBounds, sequential = TRUE, TerminalTyped, OneFiber, Ordered, ViewFollows,
         [Terminal!Next]_(Terminal!vars)
  PROVE  ViewFollows'
<1>a. Increasing(history)
  BY DEF Ordered
<1>1. ASSUME NEW event \in 0..MaxChunks, Terminal!Enqueue(event), op = "none",
             UNCHANGED <<pid, status, op, history, view, dropped>>
      PROVE  ViewFollows'
  <2>1. /\ \A f \in Fibers : Publishes(f)' <=> Publishes(f)
        /\ \A f \in Fibers : Publishes(f) => fiber'[f] = fiber[f]
    BY <1>1, ComesToFiber
  <2> QED  BY <1>1, <2>1 DEF ViewFollows
<1>2. CASE Terminal!Output
  <2>1. chunks' \in 0..MaxChunks /\ op = "none"
    BY <1>2 DEF Terminal!Output, TerminalBounds, TerminalTyped
  <2> QED  BY <1>1, <1>2, <2>1 DEF Terminal!Output
<1>3. CASE Terminal!Die
  <2>1. Terminal!Exit \in 0..MaxChunks /\ op = "none"
    BY <1>3 DEF Terminal!Die, Terminal!Exit, TerminalBounds
  <2> QED  BY <1>1, <1>3, <2>1 DEF Terminal!Die
<1>4. ASSUME NEW f \in Fibers, Terminal!Drain(f)  PROVE ViewFollows'
  <2>1. Works(f) /\ fiber[f].at = "loop" /\ UNCHANGED <<op, view, dropped>>
    BY <1>4 DEF Terminal!Drain, Works
  <2>2. op = "none" /\ \A g \in Fibers \ {f} : fiber[g].at = "idle"
    BY <2>1, OnlyOne
  <2>3. history = view
    BY <2>1, <2>2 DEF ViewFollows, Publishes
  <2>4. /\ fiber'[f].at = "publish" /\ fiber'[f].event = Head(pending)
        /\ \A g \in Fibers \ {f} : fiber'[g] = fiber[g]
    BY <1>4, DrainTakes
  <2>5. IF Head(pending) = Terminal!Exit THEN UNCHANGED history
        ELSE history' = Append(history, Head(pending))
    BY <1>4, DrainTakes
  <2>6. \A g \in Fibers \ {f} : ~Publishes(g)'
    BY <2>2, <2>4 DEF Publishes
  <2>7. Publishes(f)' <=> Head(pending) # Terminal!Exit
    BY <2>4 DEF Publishes
  <2> QED  BY <2>1, <2>2, <2>3, <2>4, <2>5, <2>6, <2>7 DEF ViewFollows
<1>5. ASSUME NEW f \in Fibers, Terminal!DrainEnds(f)  PROVE ViewFollows'
  <2>1. Works(f) /\ fiber[f].at = "loop" /\ UNCHANGED <<op, view, history>>
    BY <1>5 DEF Terminal!DrainEnds, Works
  <2>2. op = "none" /\ \A g \in Fibers \ {f} : fiber[g].at = "idle"
    BY <2>1, OnlyOne
  <2>3. history = view
    BY <2>1, <2>2 DEF ViewFollows, Publishes
  <2>4. fiber'[f].at = "idle" /\ \A g \in Fibers \ {f} : fiber'[g] = fiber[g]
    BY <1>5, FiberStops DEF Terminal!DrainEnds, Terminal!Idle
  <2>5. \A g \in Fibers : ~Publishes(g)'
    BY <2>2, <2>4 DEF Publishes
  <2>6. pending = <<>>
    BY <1>5, <2>1 DEF Terminal!DrainEnds, OneFiber
  <2>7. ~dropped'
    <3>1. ~ \E i \in DOMAIN pending : pending[i] = Terminal!Exit
      BY <2>6
    <3> QED  BY <1>5, <3>1, Zenon DEF Terminal!DrainEnds, Terminal!Drops, ViewFollows
  <2> QED  BY <2>1, <2>2, <2>3, <2>5, <2>7 DEF ViewFollows
<1>6. ASSUME NEW f \in Fibers, Terminal!Publish(f)  PROVE ViewFollows'
  <2>1. Works(f) /\ fiber[f].at = "publish" /\ UNCHANGED <<op, history, dropped>>
    BY <1>6 DEF Terminal!Publish, Works
  <2>2. op = "none" /\ \A g \in Fibers \ {f} : fiber[g].at = "idle"
    BY <2>1, OnlyOne
  <2>3. view' = history
    <3>1. CASE fiber[f].event = Terminal!Exit
      <4>1. \A g \in Fibers : ~Publishes(g)
        BY <2>2, <3>1 DEF Publishes
      <4> QED  BY <1>6, <2>2, <3>1, <4>1 DEF Terminal!Publish, ViewFollows
    <3>2. CASE fiber[f].event # Terminal!Exit
      BY <1>6, <2>1, <2>2, <3>2 DEF Terminal!Publish, ViewFollows, Publishes
    <3> QED  BY <3>1, <3>2
  <2>4. fiber'[f].at \in {"idle", "loop"} /\ \A g \in Fibers \ {f} : fiber'[g] = fiber[g]
    BY <1>6, FiberStops DEF Terminal!Publish, Terminal!Idle
  <2>5. \A g \in Fibers : ~Publishes(g)'
    BY <2>2, <2>4 DEF Publishes
  <2> QED  BY <1>a, <2>1, <2>2, <2>3, <2>5 DEF ViewFollows
<1>7. CASE Terminal!Clear \/ Terminal!Restart
  <2>1. pending = <<>>
    BY <1>7, BeginsAtRest DEF Terminal!Clear, Terminal!Restart
  <2>2. ~dropped'
    <3>1. ~ \E i \in DOMAIN pending : pending[i] = Terminal!Exit
      BY <2>1
    <3> QED  BY <1>7, <3>1, Zenon DEF Terminal!Clear, Terminal!Restart, Terminal!Drops, ViewFollows
  <2>3. UNCHANGED view /\ op' # "none" /\ history' = <<>>
    BY <1>7 DEF Terminal!Clear, Terminal!Restart
  <2> QED  BY <2>2, <2>3 DEF ViewFollows
<1>8. CASE Terminal!Cleared \/ Terminal!Spawned
  <2>1. op # "none" /\ UNCHANGED <<fiber, history>> /\ op' = "none"
    BY <1>8 DEF Terminal!Cleared, Terminal!Spawned
  <2>2. \A f \in Fibers : ~Publishes(f)'
    BY <2>1 DEF OneFiber, Works, Publishes
  <2>3. view' = history
    BY <1>8 DEF Terminal!Cleared, Terminal!Spawned, ViewFollows
  <2>4. ~dropped'
    BY <1>8 DEF Terminal!Cleared, Terminal!Spawned, ViewFollows
  <2> QED  BY <1>a, <2>1, <2>2, <2>3, <2>4 DEF ViewFollows
<1>9. CASE UNCHANGED Terminal!vars
  BY <1>9 DEF Terminal!vars, ViewFollows, Publishes
<1> QED
  BY <1>2, <1>3, <1>4, <1>5, <1>6, <1>7, <1>8, <1>9 DEF Terminal!Next

LEMMA TerminalStep ==
  TerminalBounds /\ TerminalInv /\ [Terminal!Next]_(Terminal!vars) => TerminalInv'
<1> SUFFICES ASSUME TerminalBounds, TerminalInv, [Terminal!Next]_(Terminal!vars)
             PROVE  TerminalInv'
  OBVIOUS
<1>1. TerminalTyped /\ TerminalTyped' /\ ProcessBound'
  BY TerminalTypes DEF TerminalInv
<1>2. HasFiber' /\ ExitComes' /\ Ordered'
  BY <1>1, HasFiberStep, ExitComesStep, OrderedStep DEF TerminalInv
<1>3. UNCHANGED sequential
  BY DEF Terminal!Next, Terminal!vars, Terminal!Output, Terminal!Die, Terminal!Drain,
         Terminal!DrainEnds, Terminal!Publish, Terminal!Clear, Terminal!Cleared,
         Terminal!Restart, Terminal!Spawned
<1>4. ASSUME sequential = TRUE  PROVE OneFiber' /\ ViewFollows'
  BY <1>1, <1>4, OneFiberStep, ViewFollowsStep DEF TerminalInv
<1>5. sequential = TRUE \/ sequential = FALSE
  BY <1>1 DEF TerminalTyped
<1> QED  BY <1>1, <1>2, <1>3, <1>4, <1>5 DEF TerminalInv

LEMMA TerminalFromInv == TerminalBounds /\ TerminalInv => Terminal!TerminalAgrees
<1> SUFFICES ASSUME TerminalBounds, TerminalInv  PROVE Terminal!TerminalAgrees
  OBVIOUS
<1>a. TerminalTyped /\ HasFiber /\ ExitComes /\ Ordered
  BY DEF TerminalInv
<1>b. /\ DOMAIN view = 1..Len(view) /\ DOMAIN history = 1..Len(history)
      /\ DOMAIN pending = 1..Len(pending)
  BY <1>a, LenProperties DEF TerminalTyped, Transcript, Events
<1>1. ASSUME Terminal!Resting
      PROVE  /\ op = "none" /\ ~ExitWaits
             /\ \A f \in Fibers : ~Publishes(f) /\ ~TellsExit(f)
  <2>1. op = "none" /\ \A f \in Fibers : fiber[f].at = "idle"
    BY <1>1 DEF Terminal!Resting, Terminal!Idle
  <2>2. pending = <<>>
    BY <1>a, <2>1 DEF HasFiber, Terminal!Drains
  <2> QED  BY <2>1, <2>2 DEF ExitWaits, Publishes, TellsExit
<1>2. Terminal!TypeOK
  BY <1>a, TerminalTypedIs
<1>3. Terminal!QueueIsDrained
  BY <1>a DEF HasFiber, Terminal!QueueIsDrained
<1>4. Terminal!LiveIsRunning
  BY <1>a DEF ExitComes, Terminal!LiveIsRunning
<1>5. Terminal!ExitIsNoticed /\ Terminal!ExitIsTold
  BY <1>1, <1>a DEF ExitComes, Terminal!ExitIsNoticed, Terminal!ExitIsTold
<1>6. Terminal!InOrder(history) /\ Terminal!NothingTwice
  BY <1>a, <1>b DEF Ordered, Increasing, Distinct, Terminal!InOrder, Terminal!NothingTwice
<1>7. ASSUME sequential = TRUE  PROVE ~dropped /\ Terminal!InOrder(view) /\ Terminal!ViewIsHistory
  <2>1. ViewFollows
    BY <1>7 DEF TerminalInv
  <2>2. Terminal!InOrder(view)
    BY <2>1, <1>b DEF ViewFollows, Increasing, Terminal!InOrder
  <2>3. Terminal!ViewIsHistory
    BY <1>1, <2>1 DEF ViewFollows, Terminal!ViewIsHistory
  <2> QED  BY <2>1, <2>2, <2>3 DEF ViewFollows
<1>8. sequential = TRUE \/ sequential = FALSE
  BY <1>a DEF TerminalTyped
<1> QED  BY <1>2, <1>3, <1>4, <1>5, <1>6, <1>7, <1>8 DEF Terminal!TerminalAgrees

(* Whatever overlaps (clears and restarts with output, exits and fibers    *)
(* that drain): nothing queued is stranded, the transcript is in order,    *)
(* the subscriber gets nothing twice, the session of a live process is     *)
(* running, and an exit is noticed and told unless it was dropped from the *)
(* queue; and if operations wait until all is drained, no exit is dropped  *)
(* and what the subscriber shows is the transcript (enqueueProcessEvent,   *)
(* drainProcessEvents, clear, restart).                                    *)
THEOREM TerminalOutputAgrees ==
  ASSUME TerminalBounds PROVE MCSpec => []TerminalAgrees
<1>1. MCInit => TerminalInv
  BY TerminalInit DEF MCInit
<1>2. TerminalInv /\ [MCNext]_<<scenario, vars, terminalVars, sessionVars, gitVars>> => TerminalInv'
  <2> SUFFICES ASSUME TerminalInv, [MCNext]_<<scenario, vars, terminalVars, sessionVars, gitVars>>
               PROVE  TerminalInv'
    OBVIOUS
  <2>1. [Terminal!Next]_(Terminal!vars)
    BY DEF MCNext, terminalVars, Terminal!vars
  <2> QED  BY <2>1, TerminalStep
<1>3. TerminalInv => TerminalAgrees
  BY TerminalFromInv DEF TerminalAgrees
<1> QED  BY <1>1, <1>2, <1>3, PTL DEF MCSpec
=============================================================================
