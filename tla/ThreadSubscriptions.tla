------------------------ MODULE ThreadSubscriptions ------------------------
(***************************************************************************)
(* The cache of thread detail subscriptions of the client                  *)
(* (apps/web/src/environments/runtime/service.ts, from                     *)
(* attachThreadDetailSubscription to retainThreadDetailSubscription).      *)
(*                                                                         *)
(* A view retains the subscription of its thread and releases it when it   *)
(* goes away.  What nobody retains stays for a time, unless its thread is  *)
(* at work, and at most so many stay.  Entries are numbered objects: a     *)
(* view keeps the object it was given, also when the cache has dropped it, *)
(* and so does a timer.                                                    *)
(*                                                                         *)
(* One environment, whose connection comes and goes.                       *)
(***************************************************************************)
EXTENDS Integers, Sequences, FiniteSets

CONSTANTS
  Thread,
  View,       \* the components that retain: ChatView, the sidebar's prewarming
  Ttl,        \* THREAD_DETAIL_SUBSCRIPTION_IDLE_EVICTION_MS, in ticks
  MaxCached,  \* MAX_CACHED_THREAD_DETAIL_SUBSCRIPTIONS
  MaxEntries  \* bound: entries ever made

Entry == 1..MaxEntries
NoTimer == -1

VARIABLES
  cache,         \* threadDetailSubscriptions, with the entries it has dropped
  connected,     \* whether environmentConnections has the environment
  known,         \* the threads of the client's store
  nonIdle,       \* those at work or waiting for the user
  holds,         \* view -> the entry it retains, 0 for none
  unreconciled   \* (history) threads that changed with no look at their entry

store == << known, nonIdle >>
vars == << cache, connected, store, holds, unreconciled >>

Init ==
  /\ cache = [current  |-> [t \in Thread |-> 0],     \* thread -> its entry
              of       |-> << >>,                    \* entry -> its thread
              attached |-> {},                       \* unsubscribe # NOOP
              watching |-> {},                       \* has a registry listener
              refs     |-> [e \in Entry |-> 0],
              timer    |-> [e \in Entry |-> NoTimer],  \* ticks left
              lost     |-> {},                       \* timers without a handle
              older    |-> {}]               \* pairs of entries, by lastAccessedAt
  /\ connected \in BOOLEAN
  /\ known = Thread
  /\ nonIdle = {}
  /\ holds = [v \in View |-> 0]
  /\ unreconciled = {}

-----------------------------------------------------------------------------
(* Operations on the cache C.                                              *)

Cached(C) == {C.current[t] : t \in Thread} \ {0}

shouldEvict(C, e, busy) == C.refs[e] = 0 /\ C.of[e] \notin busy

ClearEviction(C, e) == [C EXCEPT !.timer[e] = NoTimer]

\* es become the last that were used; those of one moment are told apart by
\* their place in the map, which is the order in which they were made.
Used(C, es) ==
  [C EXCEPT !.older = {p \in @ : p[1] \notin es /\ p[2] \notin es}
                      \cup ((Cached(C) \ es) \X es) \cup {p \in es \X es : p[1] < p[2]}]

Touch(C, e) == Used(C, {e})

\* attachThreadDetailSubscription: the listener goes first.
Attach(C, e, up) ==
  [C EXCEPT !.watching = @ \ {e}, !.attached = IF up THEN @ \cup {e} ELSE @]

\* watchThreadDetailSubscriptionConnection
Watch(C, e, up) == Attach([C EXCEPT !.watching = @ \cup {e}], e, up)

AttachOrWatch(C, e, up) ==
  IF up \/ e \in C.attached THEN Attach(C, e, up) ELSE Watch(Attach(C, e, up), e, up)

\* disposeThreadDetailSubscriptionByKey, for each of the entries.
Dispose(C, es) ==
  [C EXCEPT !.current  = [t \in Thread |-> IF @[t] \in es THEN 0 ELSE @[t]],
            !.attached = @ \ es,
            !.watching = @ \ es,
            !.timer    = [e \in Entry |-> IF e \in es THEN NoTimer ELSE @[e]],
            !.older    = {p \in @ : p[1] \notin es /\ p[2] \notin es}]

\* For a mutation: timers are cleared and not set again.
ReconcileClears(C, es, busy) ==
  [C EXCEPT !.timer = [e \in Entry |-> IF e \in es THEN NoTimer ELSE @[e]]]
\* reconcileThreadDetailSubscriptionEvictionState and the timer it schedules.
Reconcile(C, es, busy) ==
  [C EXCEPT !.timer = [e \in Entry |->
     IF e \notin es THEN @[e] ELSE IF shouldEvict(C, e, busy) THEN Ttl ELSE NoTimer]]

\* The n least recently used of es.
Oldest(C, es, n) == {e \in es : Cardinality({f \in es : <<f, e>> \in C.older}) < n}

\* For a mutation: the oldest go, in use or not.
EvictOldest(C, busy) ==
  Dispose(C, Oldest(C, Cached(C), Cardinality(Cached(C)) - MaxCached))
\* evictIdleThreadDetailSubscriptionsToCapacity: the idle ones, oldest first.
EvictToCapacity(C, busy) ==
  Dispose(C, Oldest(C, {e \in Cached(C) : shouldEvict(C, e, busy)},
                    Cardinality(Cached(C)) - MaxCached))

-----------------------------------------------------------------------------
(* The views.                                                              *)

RetainExisting(v, t) ==
  LET e == cache.current[t]
      C == Touch([ClearEviction(cache, e) EXCEPT !.refs[e] = @ + 1], e)
  IN  /\ e # 0
      /\ cache' = AttachOrWatch(C, e, connected)
      /\ holds' = [holds EXCEPT ![v] = e]

RetainNew(v, t) ==
  LET e == Len(cache.of) + 1
      C == [cache EXCEPT !.current[t] = e, !.of = Append(@, t), !.refs[e] = 1]
  IN  /\ cache.current[t] = 0
      /\ e \in Entry
      /\ cache' = EvictToCapacity(AttachOrWatch(Touch(C, e), e, connected), nonIdle)
      /\ holds' = [holds EXCEPT ![v] = e]

retainThreadDetailSubscription(v, t) ==
  /\ holds[v] = 0
  /\ t \in known
  /\ RetainExisting(v, t) \/ RetainNew(v, t)
  /\ UNCHANGED << connected, store, unreconciled >>

\* The function that retain returned; its entry may no longer be in the cache.
release(v) ==
  LET e == holds[v]
      C == [cache EXCEPT !.refs[e] = @ - 1]
      T == IF e \in Cached(C) THEN Touch(C, e) ELSE C
  IN  /\ e # 0
      /\ holds' = [holds EXCEPT ![v] = 0]
      /\ cache' = IF C.refs[e] = 0 THEN EvictToCapacity(Reconcile(T, {e}, nonIdle), nonIdle)
                                   ELSE T
      /\ UNCHANGED << connected, store, unreconciled >>

-----------------------------------------------------------------------------
(* Time.                                                                   *)

Tick ==
  /\ cache' = [cache EXCEPT
       !.timer = [e \in Entry |-> IF @[e] > 0 THEN @[e] - 1 ELSE @[e]],
       !.lost = {IF x.left > 0 THEN [x EXCEPT !.left = @ - 1] ELSE x : x \in @}]
  /\ UNCHANGED << connected, store, holds, unreconciled >>

\* What a timer does to the entry that the cache now has for its thread.
EvictCurrent(C, t) ==
  LET e == C.current[t]
  IN  CASE e = 0 -> C
        [] e # 0 /\ shouldEvict(C, e, nonIdle) -> Dispose(C, {e})
        [] OTHER -> [C EXCEPT !.lost = IF C.timer[e] = NoTimer THEN @
                                       ELSE @ \cup {[thread |-> t, left |-> C.timer[e]]},
                              !.timer[e] = NoTimer]

TimerFires(e) ==
  /\ e <= Len(cache.of)
  /\ cache.timer[e] = 0
  /\ cache' = EvictCurrent(ClearEviction(cache, e), cache.of[e])
  /\ UNCHANGED << connected, store, holds, unreconciled >>

LostTimerFires(x) ==
  /\ x.left = 0
  /\ cache' = EvictCurrent([cache EXCEPT !.lost = @ \ {x}], x.thread)
  /\ UNCHANGED << connected, store, holds, unreconciled >>

-----------------------------------------------------------------------------
(* The connection and what it brings.                                      *)

\* registerConnection: the listeners are called.
Connect ==
  /\ ~connected
  /\ connected' = TRUE
  /\ cache' = Used([cache EXCEPT !.attached = @ \cup cache.watching, !.watching = {}],
                   cache.watching)
  /\ UNCHANGED << store, holds, unreconciled >>

\* removeConnection; the store keeps what it knows of the environment.
Disconnect ==
  /\ connected
  /\ connected' = FALSE
  /\ cache' = Dispose(cache, Cached(cache))
  /\ UNCHANGED << store, holds, unreconciled >>

SetBusy(t, busy) == nonIdle' = IF busy THEN nonIdle \cup {t} ELSE nonIdle \ {t}

\* applyShellEvent, thread-upserted
ThreadUpserted(t, busy) ==
  /\ connected
  /\ known' = known \cup {t}
  /\ SetBusy(t, busy)
  /\ cache' = EvictToCapacity(Reconcile(cache, {cache.current[t]} \ {0}, nonIdle'), nonIdle')
  /\ unreconciled' = unreconciled \ {t}
  /\ UNCHANGED << connected, holds >>

\* applyShellEvent, thread-removed
ThreadRemoved(t) ==
  /\ connected
  /\ t \in known
  /\ known' = known \ {t}
  /\ nonIdle' = nonIdle \ {t}
  /\ cache' = Dispose(cache, {cache.current[t]} \ {0})
  /\ unreconciled' = unreconciled \ {t}
  /\ UNCHANGED << connected, holds >>

\* syncShellSnapshot
ShellSnapshot(ts, busy) ==
  /\ connected
  /\ busy \subseteq ts
  /\ known' = ts
  /\ nonIdle' = busy
  /\ LET C == Dispose(cache, {cache.current[t] : t \in Thread \ ts} \ {0})
     IN  cache' = EvictToCapacity(Reconcile(C, Cached(C), busy), busy)
  /\ unreconciled' = {}
  /\ UNCHANGED << connected, holds >>

\* applyRecoveredEventBatch, for an event of the open thread.
ThreadDetailEvent(t, busy) ==
  /\ cache.current[t] \in cache.attached
  /\ t \in known
  /\ SetBusy(t, busy)
  /\ cache' = EvictToCapacity(Reconcile(cache, Cached(cache), nonIdle'), nonIdle')
  /\ unreconciled' = {}
  /\ UNCHANGED << connected, known, holds >>

\* syncServerThreadDetail: the store alone.
ThreadDetailSnapshot(t, busy) ==
  /\ cache.current[t] \in cache.attached
  /\ known' = known \cup {t}
  /\ SetBusy(t, busy)
  /\ unreconciled' = unreconciled \cup {t}
  /\ UNCHANGED << cache, connected, holds >>

Next ==
  \/ \E v \in View, t \in Thread : retainThreadDetailSubscription(v, t)
  \/ \E v \in View : release(v)
  \/ Tick
  \/ \E e \in Entry : TimerFires(e)
  \/ \E x \in cache.lost : LostTimerFires(x)
  \/ Connect \/ Disconnect
  \/ \E t \in Thread, busy \in BOOLEAN :
       ThreadUpserted(t, busy) \/ ThreadDetailEvent(t, busy) \/ ThreadDetailSnapshot(t, busy)
  \/ \E t \in Thread : ThreadRemoved(t)
  \/ \E ts, busy \in SUBSET Thread : ShellSnapshot(ts, busy)

Spec == Init /\ [][Next]_vars
-----------------------------------------------------------------------------
\* Types of the state, and: a subscription is open only for an entry in the
\* cache, which is the one of its thread.
TypeOK ==
  /\ cache.current \in [Thread -> 0..Len(cache.of)]
  /\ cache.of \in Seq(Thread) /\ Len(cache.of) <= MaxEntries
  /\ cache.attached \cup cache.watching \subseteq Cached(cache)
  /\ \A t \in Thread : cache.current[t] # 0 => cache.of[cache.current[t]] = t
  /\ cache.refs \in [Entry -> 0..Cardinality(View)]
  /\ cache.timer \in [Entry -> NoTimer..Ttl]
  /\ cache.lost \subseteq [thread : Thread, left : 0..Ttl]
  /\ cache.older \subseteq Cached(cache) \X Cached(cache)
  /\ \A e, f \in Cached(cache) : e # f => (<<e, f>> \in cache.older <=> <<f, e>> \notin cache.older)
  /\ \A e \in Cached(cache) : <<e, e>> \notin cache.older
  /\ \A e, f, g \in Cached(cache) :
       <<e, f>> \in cache.older /\ <<f, g>> \in cache.older => <<e, g>> \in cache.older
  /\ nonIdle \subseteq known /\ known \subseteq Thread
  /\ holds \in [View -> 0..Len(cache.of)]
  /\ unreconciled \subseteq Thread

\* What a view retains, and the entry of a thread at work, is dropped only when
\* the connection or the thread goes, whatever timers run and however full the
\* cache is (the policy above THREAD_DETAIL_SUBSCRIPTION_IDLE_EVICTION_MS).
InUseKept ==
  [][\A t \in known \cap known' :
       LET e == cache.current[t]
       IN  e # 0 /\ cache'.current[t] # e /\ connected' =>
             cache'.refs[e] = 0 /\ t \notin nonIdle']_vars

\* Nothing stays for ever: an entry that may go has a timer, unless the thread
\* became idle by a snapshot of its details.
IdleHasTimer ==
  \A e \in Cached(cache) :
    shouldEvict(cache, e, nonIdle) /\ cache.of[e] \notin unreconciled => cache.timer[e] # NoTimer

\* The cache is larger than its capacity only with entries that may not go.
WithinCapacity ==
  Cardinality(Cached(cache)) > MaxCached =>
    \A e \in Cached(cache) : shouldEvict(cache, e, nonIdle) => cache.of[e] \in unreconciled

CacheIsBounded == TypeOK /\ IdleHasTimer /\ WithinCapacity
=============================================================================
