--------------------------- MODULE Connections_proofs ---------------------------
(***************************************************************************)
(* Proofs about the connections of the web client: the saved environments  *)
(* (SavedEnvironment), for any calls of a user and of the store, the cache *)
(* of thread subscriptions (ThreadSubscriptions), for any threads, views   *)
(* and capacity, and the connection itself (EnvironmentConnection), for    *)
(* any callers.                                                            *)
(***************************************************************************)
EXTENDS MCConnections, Sequences, FiniteSets, FiniteSetTheorems, WellFoundedInduction, TLAPS

(* Each call is of one kind, a client is not None, and the store starts    *)
(* with a sync.                                                            *)
SavedCalls ==
  /\ Ensures \cap Adds = {} /\ Ensures \cap Removes = {} /\ Adds \cap Removes = {}
  /\ None \notin Ensures \cup Adds
  /\ Ensures # {}
  /\ Listed \in BOOLEAN

-----------------------------------------------------------------------------
Active(c) == call[c] \notin {"new", "failed", "done"}

(* A user who waits has one call under way, which finds what it left.      *)
OneAtATime ==
  /\ \A c, d \in Saved!Calls : Active(c) /\ Active(d) => c = d
  /\ \A e \in Ensures :
       /\ call[e] \in {"new", "reading", "token", "no token", "refreshing", "failed", "done"}
       /\ call[e] \in {"reading", "token", "no token"} => connection = None
       /\ Active(e) => listed
  /\ \A r \in Removes :
       /\ call[r] \in {"new", "removing", "failed", "done"}
       /\ call[r] = "removing" => connection = None /\ ~listed
  /\ \A a \in Adds :
       /\ call[a] \in {"new", "fetching", "pairing", "writing", "refreshing", "failed", "done"}
       /\ call[a] \in {"pairing", "writing"} => connection = None
       /\ call[a] = "refreshing" => token
  /\ \A c \in Saved!Clients : call[c] = "refreshing" => connection = c

(* What is registered although it is not listed, stored although it is not *)
(* listed, or on disk although it is not in the store, belongs to a call   *)
(* that is under way.                                                      *)
ConnectedOrAdding ==
  connection # None /\ ~listed => \E a \in Adds : call[a] = "refreshing"
TokenOrUnderWay ==
  (\A a \in Adds : call[a] # "failed") =>
    \/ token = listed
    \/ \E a \in Adds : call[a] = "refreshing"
    \/ \E r \in Removes : call[r] = "removing"
PersistedOrUnderWay ==
  (\A a \in Adds : call[a] = "failed" => client[a] = "none") =>
    \/ persisted = listed
    \/ \E a \in Adds : call[a] \in {"writing", "refreshing"}

(* What holds however calls and changes of the store overlap.              *)
Safe == Saved!RegisteredIsOpen /\ Saved!OnlyRefusedStay

SavedInv ==
  /\ Saved!TypeOK
  /\ Safe
  /\ patient => /\ Saved!OneClient /\ OneAtATime
                /\ ConnectedOrAdding /\ TokenOrUnderWay /\ PersistedOrUnderWay

-----------------------------------------------------------------------------
LEMMA SavedInit == SavedCalls /\ Saved!Init => SavedInv
<1> SUFFICES ASSUME SavedCalls, Saved!Init  PROVE SavedInv
  OBVIOUS
<1> DEFINE first == CHOOSE e \in Ensures : TRUE
<1>1. first \in Ensures  BY DEF SavedCalls
<1>2. call = [c \in Saved!Calls |-> IF c = first /\ Listed THEN "reading" ELSE "new"]
  BY DEF Saved!Init
<1> HIDE DEF first
<1>3. \A c \in Saved!Calls : /\ call[c] \in {"new", "reading"}
                              /\ call[c] = "reading" => c = first /\ Listed
  BY <1>2
<1>4. Saved!TypeOK /\ Safe
  BY <1>2 DEF SavedCalls, Saved!Init, Saved!TypeOK, Safe, Saved!RegisteredIsOpen, Saved!OnlyRefusedStay
<1>5. Saved!OneClient  BY DEF Saved!Init, Saved!OneClient
<1>6. OneAtATime
  BY <1>1, <1>3 DEF SavedCalls, Saved!Init, OneAtATime, Active, Saved!Calls, Saved!Clients
<1>7. ConnectedOrAdding /\ TokenOrUnderWay /\ PersistedOrUnderWay
  BY DEF Saved!Init, ConnectedOrAdding, TokenOrUnderWay, PersistedOrUnderWay
<1> QED  BY <1>4, <1>5, <1>6, <1>7 DEF SavedInv

LEMMA SavedTypes ==
  ASSUME SavedCalls, Saved!TypeOK, Safe, [Saved!Next]_(Saved!vars)
  PROVE  Saved!TypeOK' /\ Safe'
<1> USE DEF SavedCalls, Saved!TypeOK, Safe, Saved!RegisteredIsOpen, Saved!OnlyRefusedStay, Saved!Calls, Saved!Clients
<1>0. UNCHANGED patient
  BY DEF Saved!Next, Saved!vars
<1> USE <1>0
<1>1. ASSUME Saved!StoreChanges  PROVE Saved!TypeOK' /\ Safe'
  BY <1>1 DEF Saved!StoreChanges, Saved!Sync, Saved!Disconnect
<1>2. ASSUME NEW e \in Ensures, Saved!Reconnect(e)  PROVE Saved!TypeOK' /\ Safe'
  BY <1>2 DEF Saved!Reconnect, Saved!Begins
<1>3. ASSUME NEW e \in Ensures, Saved!ReadToken(e)  PROVE Saved!TypeOK' /\ Safe'
  BY <1>3 DEF Saved!ReadToken
<1>4. ASSUME NEW e \in Ensures, Saved!NoToken(e)  PROVE Saved!TypeOK' /\ Safe'
  BY <1>4 DEF Saved!NoToken
<1>5. ASSUME NEW e \in Ensures, Saved!HasToken(e)  PROVE Saved!TypeOK' /\ Safe'
  BY <1>5 DEF Saved!HasToken, Saved!Connect
<1>6. ASSUME NEW c \in Saved!Clients, Saved!Refreshed(c)  PROVE Saved!TypeOK' /\ Safe'
  BY <1>6 DEF Saved!Refreshed, Saved!Sync
<1>7. ASSUME NEW c \in Saved!Clients, Saved!RefreshFails(c)  PROVE Saved!TypeOK' /\ Safe'
  BY <1>7 DEF Saved!RefreshFails, Saved!Disconnect
<1>8. ASSUME NEW r \in Removes, Saved!Remove(r)  PROVE Saved!TypeOK' /\ Safe'
  BY <1>8 DEF Saved!Remove, Saved!Disconnect, Saved!Begins
<1>9. ASSUME NEW r \in Removes, Saved!RemoveToken(r)  PROVE Saved!TypeOK' /\ Safe'
  BY <1>9 DEF Saved!RemoveToken, Saved!Disconnect
<1>10. ASSUME NEW a \in Adds, Saved!Add(a)  PROVE Saved!TypeOK' /\ Safe'
  BY <1>10 DEF Saved!Add, Saved!Begins
<1>11. ASSUME NEW a \in Adds, Saved!Fetched(a)  PROVE Saved!TypeOK' /\ Safe'
  BY <1>11 DEF Saved!Fetched
<1>12. ASSUME NEW a \in Adds, Saved!Paired(a)  PROVE Saved!TypeOK' /\ Safe'
  BY <1>12 DEF Saved!Paired
<1>13. ASSUME NEW a \in Adds, Saved!TokenNotWritten(a)  PROVE Saved!TypeOK' /\ Safe'
  BY <1>13 DEF Saved!TokenNotWritten
<1>14. ASSUME NEW a \in Adds, Saved!TokenWritten(a)  PROVE Saved!TypeOK' /\ Safe'
  BY <1>14 DEF Saved!TokenWritten, Saved!Connect
<1>15. CASE UNCHANGED Saved!vars
  BY <1>15 DEF Saved!vars
<1> QED
  BY <1>1, <1>2, <1>3, <1>4, <1>5, <1>6, <1>7, <1>8, <1>9, <1>10, <1>11, <1>12,
     <1>13, <1>14, <1>15 DEF Saved!Next

(* What a connection that is registered for the only call under way leaves.*)
LEMMA ConnectsAlone ==
  ASSUME SavedCalls, Saved!TypeOK, Saved!OneClient, OneAtATime,
         NEW c \in Saved!Clients, Active(c), connection = None,
         c \in Ensures => listed, c \in Adds => token',
         connection' = c, UNCHANGED listed,
         call' = [call EXCEPT ![c] = "refreshing"], client' = [client EXCEPT ![c] = "open"]
  PROVE  Saved!OneClient' /\ OneAtATime'
<1> USE DEF SavedCalls, Saved!TypeOK, Saved!Calls, Saved!Clients
<1>1. \A d \in Saved!Calls : d # c => call[d] \in {"new", "failed", "done"} /\ call'[d] = call[d]
  BY DEF OneAtATime, Active
<1>2. call'[c] = "refreshing"  OBVIOUS
<1>3. Saved!OneClient'
  BY DEF Saved!OneClient
<1>4. \A d \in Saved!Calls : Active(d)' => d = c
  BY <1>1 DEF Active
<1>5. \A d \in Saved!Calls : d # c => call'[d] \in {"new", "failed", "done"}
  BY <1>1
<1>6. OneAtATime'
  BY <1>2, <1>4, <1>5 DEF OneAtATime, Active
<1> QED  BY <1>3, <1>6

(* A refresh that ends starts no sync while its connection is registered.  *)
LEMMA RefreshedAlone ==
  ASSUME SavedCalls, NEW c \in Saved!Clients, Saved!Refreshed(c), connection = c
  PROVE  /\ call' = [call EXCEPT ![c] = "done"]
         /\ c \in Adds => listed' = TRUE /\ persisted' = TRUE
         /\ c \notin Adds => UNCHANGED <<listed, persisted>>
<1>1. connection' # None
  BY DEF Saved!Refreshed, SavedCalls, Saved!Clients
<1>2. CASE c \in Adds
  BY <1>1, <1>2 DEF Saved!Refreshed, Saved!Sync
<1>3. CASE c \notin Adds
  BY <1>3 DEF Saved!Refreshed
<1> QED  BY <1>2, <1>3

(* A call under way is the only one, so that each action that begins one   *)
(* or goes on with it finds the others at rest.                            *)
LEMMA OneAtATimeStep ==
  ASSUME SavedCalls, patient, Saved!TypeOK, Saved!OneClient, OneAtATime,
         [Saved!Next]_(Saved!vars)
  PROVE  Saved!OneClient' /\ OneAtATime'
<1> USE DEF SavedCalls, Saved!TypeOK, Saved!OneClient, OneAtATime, Saved!Calls, Saved!Clients,
            Active, Saved!AtRest, Saved!Resting
<1>1. ASSUME Saved!StoreChanges  PROVE Saved!OneClient' /\ OneAtATime'
  BY ZenonT(40), <1>1 DEF Saved!StoreChanges, Saved!Sync, Saved!Disconnect
<1>2. ASSUME NEW e \in Ensures, Saved!Reconnect(e)  PROVE Saved!OneClient' /\ OneAtATime'
  BY <1>2 DEF Saved!Reconnect, Saved!Begins
<1>3. ASSUME NEW e \in Ensures, Saved!ReadToken(e)  PROVE Saved!OneClient' /\ OneAtATime'
  BY <1>3 DEF Saved!ReadToken
<1>4. ASSUME NEW e \in Ensures, Saved!NoToken(e)  PROVE Saved!OneClient' /\ OneAtATime'
  BY <1>4 DEF Saved!NoToken
<1>5. ASSUME NEW e \in Ensures, Saved!HasToken(e)  PROVE Saved!OneClient' /\ OneAtATime'
  BY <1>5, ConnectsAlone DEF Saved!HasToken, Saved!Connect
<1>6. ASSUME NEW c \in Saved!Clients, Saved!Refreshed(c)  PROVE Saved!OneClient' /\ OneAtATime'
  <2>1. /\ Active(c) /\ connection = c
        /\ UNCHANGED <<token, connection, client>>
    BY <1>6 DEF Saved!Refreshed
  <2>2. /\ call' = [call EXCEPT ![c] = "done"]
        /\ c \notin Adds => UNCHANGED listed
    BY <1>6, <2>1, RefreshedAlone
  <2>3. \A d \in Saved!Calls : d # c => call'[d] = call[d] /\ ~Active(d)
    BY <2>1, <2>2
  <2>4. \A d \in Saved!Calls : ~Active(d)'
    BY <2>2, <2>3
  <2> QED  BY ZenonT(40), <2>1, <2>2, <2>3, <2>4
<1>7. ASSUME NEW c \in Saved!Clients, Saved!RefreshFails(c)  PROVE Saved!OneClient' /\ OneAtATime'
  BY <1>7 DEF Saved!RefreshFails, Saved!Disconnect
<1>8. ASSUME NEW r \in Removes, Saved!Remove(r)  PROVE Saved!OneClient' /\ OneAtATime'
  BY ZenonT(40), <1>8 DEF Saved!Remove, Saved!Disconnect, Saved!Begins
<1>9. ASSUME NEW r \in Removes, Saved!RemoveToken(r)  PROVE Saved!OneClient' /\ OneAtATime'
  BY <1>9 DEF Saved!RemoveToken, Saved!Disconnect
<1>10. ASSUME NEW a \in Adds, Saved!Add(a)  PROVE Saved!OneClient' /\ OneAtATime'
  BY <1>10 DEF Saved!Add, Saved!Begins
<1>11. ASSUME NEW a \in Adds, Saved!Fetched(a)  PROVE Saved!OneClient' /\ OneAtATime'
  BY ZenonT(40), <1>11 DEF Saved!Fetched
<1>12. ASSUME NEW a \in Adds, Saved!Paired(a)  PROVE Saved!OneClient' /\ OneAtATime'
  BY ZenonT(40), <1>12 DEF Saved!Paired
<1>13. ASSUME NEW a \in Adds, Saved!TokenNotWritten(a)  PROVE Saved!OneClient' /\ OneAtATime'
  BY <1>13 DEF Saved!TokenNotWritten
<1>14. ASSUME NEW a \in Adds, Saved!TokenWritten(a)  PROVE Saved!OneClient' /\ OneAtATime'
  BY <1>14, ConnectsAlone DEF Saved!TokenWritten, Saved!Connect
<1>15. CASE UNCHANGED Saved!vars
  BY <1>15 DEF Saved!vars
<1> QED
  BY <1>1, <1>2, <1>3, <1>4, <1>5, <1>6, <1>7, <1>8, <1>9, <1>10, <1>11, <1>12,
     <1>13, <1>14, <1>15 DEF Saved!Next

LEMMA UnderWayStep ==
  ASSUME SavedCalls, patient, Saved!TypeOK, OneAtATime,
         ConnectedOrAdding, TokenOrUnderWay, PersistedOrUnderWay, [Saved!Next]_(Saved!vars)
  PROVE  ConnectedOrAdding' /\ TokenOrUnderWay' /\ PersistedOrUnderWay'
<1> USE DEF SavedCalls, Saved!TypeOK, OneAtATime, Saved!Calls, Saved!Clients, Active,
            ConnectedOrAdding, TokenOrUnderWay, PersistedOrUnderWay,
            Saved!AtRest, Saved!Resting
<1>1. ASSUME Saved!StoreChanges
      PROVE  ConnectedOrAdding' /\ TokenOrUnderWay' /\ PersistedOrUnderWay'
  BY <1>1 DEF Saved!StoreChanges, Saved!Sync, Saved!Disconnect
<1>2. ASSUME NEW e \in Ensures, Saved!Reconnect(e)
      PROVE  ConnectedOrAdding' /\ TokenOrUnderWay' /\ PersistedOrUnderWay'
  BY <1>2 DEF Saved!Reconnect, Saved!Begins
<1>3. ASSUME NEW e \in Ensures, Saved!ReadToken(e)
      PROVE  ConnectedOrAdding' /\ TokenOrUnderWay' /\ PersistedOrUnderWay'
  BY <1>3 DEF Saved!ReadToken
<1>4. ASSUME NEW e \in Ensures, Saved!NoToken(e)
      PROVE  ConnectedOrAdding' /\ TokenOrUnderWay' /\ PersistedOrUnderWay'
  BY <1>4 DEF Saved!NoToken
<1>5. ASSUME NEW e \in Ensures, Saved!HasToken(e)
      PROVE  ConnectedOrAdding' /\ TokenOrUnderWay' /\ PersistedOrUnderWay'
  BY ZenonT(40), <1>5 DEF Saved!HasToken, Saved!Connect
<1>6. ASSUME NEW c \in Saved!Clients, Saved!Refreshed(c)
      PROVE  ConnectedOrAdding' /\ TokenOrUnderWay' /\ PersistedOrUnderWay'
  <2>1. /\ call[c] = "refreshing" /\ connection = c
        /\ UNCHANGED <<token, connection, client>>
    BY <1>6 DEF Saved!Refreshed
  <2>2. call' = [call EXCEPT ![c] = "done"]
    BY <1>6, <2>1, RefreshedAlone
  <2>3. \A d \in Saved!Calls : d # c => call'[d] = call[d] /\ ~Active(d)
    BY <2>1, <2>2
  <2>4. CASE c \in Adds
    <3>1. listed' = TRUE /\ persisted' = TRUE
      BY <1>6, <2>1, <2>4, RefreshedAlone
    <3>2. token' = TRUE
      BY <2>1, <2>4
    <3> QED  BY <3>1, <3>2
  <2>5. CASE c \notin Adds
    <3>1. UNCHANGED <<listed, persisted>> /\ listed
      BY <1>6, <2>1, <2>5 DEF Saved!Refreshed
    <3> QED  BY <2>1, <2>2, <2>3, <2>5, <3>1
  <2> QED  BY <2>4, <2>5
<1>7. ASSUME NEW c \in Saved!Clients, Saved!RefreshFails(c)
      PROVE  ConnectedOrAdding' /\ TokenOrUnderWay' /\ PersistedOrUnderWay'
  BY <1>7 DEF Saved!RefreshFails, Saved!Disconnect
<1>8. ASSUME NEW r \in Removes, Saved!Remove(r)
      PROVE  ConnectedOrAdding' /\ TokenOrUnderWay' /\ PersistedOrUnderWay'
  BY <1>8 DEF Saved!Remove, Saved!Disconnect, Saved!Begins
<1>9. ASSUME NEW r \in Removes, Saved!RemoveToken(r)
      PROVE  ConnectedOrAdding' /\ TokenOrUnderWay' /\ PersistedOrUnderWay'
  BY <1>9 DEF Saved!RemoveToken, Saved!Disconnect
<1>10. ASSUME NEW a \in Adds, Saved!Add(a)
      PROVE  ConnectedOrAdding' /\ TokenOrUnderWay' /\ PersistedOrUnderWay'
  BY <1>10 DEF Saved!Add, Saved!Begins
<1>11. ASSUME NEW a \in Adds, Saved!Fetched(a)
      PROVE  ConnectedOrAdding' /\ TokenOrUnderWay' /\ PersistedOrUnderWay'
  <2>1. /\ call[a] = "fetching"
        /\ \E x \in {"failed", "pairing"} : call' = [call EXCEPT ![a] = x]
        /\ UNCHANGED <<listed, persisted, token, connection, client>>
    BY <1>11 DEF Saved!Fetched
  <2>2. \A d \in Saved!Calls : d # a => call'[d] = call[d] /\ ~Active(d)
    BY ZenonT(40), <2>1
  <2>3. ConnectedOrAdding'
    BY <2>1, <2>2
  <2>4. TokenOrUnderWay'
    BY <2>1, <2>2
  <2>5. PersistedOrUnderWay'
    BY <2>1, <2>2
  <2> QED  BY <2>3, <2>4, <2>5
<1>12. ASSUME NEW a \in Adds, Saved!Paired(a)
      PROVE  ConnectedOrAdding' /\ TokenOrUnderWay' /\ PersistedOrUnderWay'
  BY ZenonT(40), <1>12 DEF Saved!Paired
<1>13. ASSUME NEW a \in Adds, Saved!TokenNotWritten(a)
      PROVE  ConnectedOrAdding' /\ TokenOrUnderWay' /\ PersistedOrUnderWay'
  BY <1>13 DEF Saved!TokenNotWritten
<1>14. ASSUME NEW a \in Adds, Saved!TokenWritten(a)
      PROVE  ConnectedOrAdding' /\ TokenOrUnderWay' /\ PersistedOrUnderWay'
  <2>1. /\ connection = None /\ token' = TRUE /\ connection' = a
        /\ call' = [call EXCEPT ![a] = "refreshing"]
    BY <1>14 DEF Saved!TokenWritten, Saved!Connect
  <2> QED  BY <2>1
<1>15. CASE UNCHANGED Saved!vars
  BY <1>15 DEF Saved!vars
<1> QED
  BY <1>1, <1>2, <1>3, <1>4, <1>5, <1>6, <1>7, <1>8, <1>9, <1>10, <1>11, <1>12,
     <1>13, <1>14, <1>15 DEF Saved!Next

LEMMA SavedStep == SavedCalls /\ SavedInv /\ [Saved!Next]_(Saved!vars) => SavedInv'
BY SavedTypes, OneAtATimeStep, UnderWayStep DEF SavedInv, Saved!Next, Saved!vars

LEMMA SavedFromInv == SavedInv => Saved!SavedAgrees
BY DEF SavedInv, Safe, Saved!SavedAgrees, Saved!TypeOK, Saved!Calls, Saved!Clients, Saved!OneClient,
       OneAtATime, ConnectedOrAdding, TokenOrUnderWay, PersistedOrUnderWay, Active,
       Saved!RemovedIsGone, Saved!TokenIsListed, Saved!FailedAddIsRolledBack, Saved!AtRest,
       Saved!Resting

(* However calls overlap, the registered connection is that of an open     *)
(* client, and a client is disposed when it is no longer registered; with  *)
(* calls and changes that wait, there is one open client at most, and      *)
(* connection, token, record and disk agree at rest, for any calls.        *)
THEOREM SavedEnvironmentAgrees ==
  ASSUME SavedCalls PROVE MCSpec => []SavedAgrees
<1>1. MCInit => SavedInv
  BY SavedInit DEF MCInit, NoCalls
<1>2. SavedInv /\ [MCNext]_<<scenario, vars, cacheVars, savedVars>> => SavedInv'
  BY SavedStep DEF MCNext, savedVars, Saved!vars
<1>3. SavedInv => SavedAgrees
  BY SavedFromInv DEF SavedAgrees
<1> QED  BY <1>1, <1>2, <1>3, PTL DEF MCSpec

-----------------------------------------------------------------------------
(* The cache of thread subscriptions: its entries, their timers and the    *)
(* order in which they were used.                                          *)
(* Finitely many views; the numbers of the source are natural.             *)
CacheBounds ==
  IsFiniteSet(View) /\ Ttl \in Nat /\ MaxCached \in Nat /\ MaxEntries \in Nat

CacheState ==
  [current : [Thread -> Nat], of : Seq(Thread), attached : SUBSET Nat, watching : SUBSET Nat,
   refs : [Cache!Entry -> Int], timer : [Cache!Entry -> Int],
   lost : SUBSET [thread : Thread, left : 0..Ttl], older : SUBSET (Nat \X Nat)]

(* A set of numbers has a least one.                                       *)
LEMMA NatMin == ASSUME NEW T \in SUBSET Nat, T # {} PROVE \E m \in T : \A n \in T : m <= n
<1> DEFINE R == {ss \in Nat \X Nat : ss[1] < ss[2]}
<1>1. IsWellFoundedOn(R, Nat)
  BY NatLessThanWellFounded DEF OpToRel
<1>2. PICK m \in T : \A n \in T : ~(<<n, m>> \in R)
  BY <1>1, WFMin
<1>3. \A n \in T : ~(n < m)
  BY <1>2
<1> QED BY <1>3

(* Cardinality is the same operator in the instance.                       *)
LEMMA CacheCardinality == ASSUME NEW S PROVE Cache!Cardinality(S) = Cardinality(S)
BY DEF Cache!Cardinality, Cardinality

-----------------------------------------------------------------------------
(* What the operations do to the fields.                                   *)
LEMMA DisposeIs ==
  ASSUME NEW C \in CacheState, NEW es
  PROVE  LET D == Cache!Dispose(C, es) IN
         /\ D \in CacheState
         /\ \A t \in Thread : D.current[t] = IF C.current[t] \in es THEN 0 ELSE C.current[t]
         /\ D.of = C.of /\ D.refs = C.refs /\ D.lost = C.lost
         /\ D.attached = C.attached \ es /\ D.watching = C.watching \ es
         /\ \A e \in Cache!Entry : D.timer[e] = IF e \in es THEN -1 ELSE C.timer[e]
         /\ D.older = {p \in C.older : p[1] \notin es /\ p[2] \notin es}
<1> DEFINE current == [t \in Thread |-> IF C.current[t] \in es THEN 0 ELSE C.current[t]]
           timer == [e \in Cache!Entry |-> IF e \in es THEN -1 ELSE C.timer[e]]
           older == {p \in C.older : p[1] \notin es /\ p[2] \notin es}
<1>1. C.current \in [Thread -> Nat] /\ C.timer \in [Cache!Entry -> Int] /\ C.older \in SUBSET (Nat \X Nat)
  BY DEF CacheState
<1>2. current \in [Thread -> Nat] /\ timer \in [Cache!Entry -> Int] /\ older \in SUBSET (Nat \X Nat)
  BY <1>1
<1>3. Cache!Dispose(C, es) = [C EXCEPT !.current = current, !.attached = @ \ es, !.watching = @ \ es,
                                       !.timer = timer, !.older = older]
  BY DEF Cache!Dispose, Cache!NoTimer, CacheState
<1>4. /\ \A t \in Thread : current[t] = IF C.current[t] \in es THEN 0 ELSE C.current[t]
      /\ \A e \in Cache!Entry : timer[e] = IF e \in es THEN -1 ELSE C.timer[e]
  OBVIOUS
<1>5. older = {p \in C.older : p[1] \notin es /\ p[2] \notin es}
  OBVIOUS
<1> HIDE DEF current, timer, older
<1>6. LET D == Cache!Dispose(C, es) IN
      /\ D \in CacheState
      /\ D.current = current /\ D.of = C.of /\ D.refs = C.refs /\ D.lost = C.lost
      /\ D.attached = C.attached \ es /\ D.watching = C.watching \ es
      /\ D.timer = timer /\ D.older = older
  BY ZenonT(40), <1>2, <1>3 DEF CacheState
<1> QED BY <1>4, <1>5, <1>6

LEMMA DisposeCached ==
  ASSUME NEW C \in CacheState, NEW es
  PROVE  Cache!Cached(Cache!Dispose(C, es)) = Cache!Cached(C) \ es
BY DisposeIs DEF Cache!Cached

LEMMA UsedIs ==
  ASSUME NEW C \in CacheState, NEW es \in SUBSET Nat
  PROVE  LET D == Cache!Used(C, es) IN
         /\ D \in CacheState
         /\ D.current = C.current /\ D.of = C.of /\ D.refs = C.refs /\ D.lost = C.lost
         /\ D.attached = C.attached /\ D.watching = C.watching /\ D.timer = C.timer
         /\ D.older = {p \in C.older : p[1] \notin es /\ p[2] \notin es}
                      \cup ((Cache!Cached(C) \ es) \X es) \cup {p \in es \X es : p[1] < p[2]}
         /\ Cache!Cached(D) = Cache!Cached(C)
<1>1. Cache!Cached(C) \in SUBSET Nat
  BY DEF CacheState, Cache!Cached
<1>2. {p \in C.older : p[1] \notin es /\ p[2] \notin es}
        \cup ((Cache!Cached(C) \ es) \X es) \cup {p \in es \X es : p[1] < p[2]} \in SUBSET (Nat \X Nat)
  <2>1. C.older \in SUBSET (Nat \X Nat)
    BY DEF CacheState
  <2> QED BY <1>1, <2>1
<1> QED BY <1>2 DEF CacheState, Cache!Used, Cache!Cached

LEMMA AttachOrWatchIs ==
  ASSUME NEW C \in CacheState, NEW e \in Nat, NEW up
  PROVE  LET D == Cache!AttachOrWatch(C, e, up) IN
         /\ D \in CacheState
         /\ D.current = C.current /\ D.of = C.of /\ D.refs = C.refs /\ D.lost = C.lost
         /\ D.timer = C.timer /\ D.older = C.older
         /\ D.attached \subseteq C.attached \cup {e}
         /\ D.watching \subseteq C.watching \cup {e}
         /\ Cache!Cached(D) = Cache!Cached(C)
BY DEF CacheState, Cache!AttachOrWatch, Cache!Attach, Cache!Watch, Cache!Cached

LEMMA ReconcileIs ==
  ASSUME NEW C \in CacheState, NEW es, NEW busy, CacheBounds
  PROVE  LET D == Cache!Reconcile(C, es, busy) IN
         /\ D \in CacheState
         /\ D.current = C.current /\ D.of = C.of /\ D.refs = C.refs /\ D.lost = C.lost
         /\ D.attached = C.attached /\ D.watching = C.watching /\ D.older = C.older
         /\ \A e \in Cache!Entry :
              D.timer[e] = IF e \notin es THEN C.timer[e]
                           ELSE IF Cache!shouldEvict(C, e, busy) THEN Ttl ELSE -1
         /\ Cache!Cached(D) = Cache!Cached(C)
<1> DEFINE timer == [e \in Cache!Entry |->
                     IF e \notin es THEN C.timer[e]
                     ELSE IF Cache!shouldEvict(C, e, busy) THEN Ttl ELSE -1]
<1>1. timer \in [Cache!Entry -> Int]
  BY DEF CacheState, CacheBounds
<1>2. Cache!Reconcile(C, es, busy) = [C EXCEPT !.timer = timer]
  BY DEF Cache!Reconcile, Cache!NoTimer, CacheState
<1>3. \A e \in Cache!Entry : timer[e] = IF e \notin es THEN C.timer[e]
                                       ELSE IF Cache!shouldEvict(C, e, busy) THEN Ttl ELSE -1
  OBVIOUS
<1> HIDE DEF timer
<1>4. LET D == Cache!Reconcile(C, es, busy) IN
      /\ D \in CacheState
      /\ D.current = C.current /\ D.of = C.of /\ D.refs = C.refs /\ D.lost = C.lost
      /\ D.attached = C.attached /\ D.watching = C.watching /\ D.older = C.older
      /\ D.timer = timer
  BY <1>1, <1>2 DEF CacheState
<1>5. Cache!Cached(Cache!Reconcile(C, es, busy)) = Cache!Cached(C)
  BY <1>4 DEF Cache!Cached
<1> QED BY <1>3, <1>4, <1>5

LEMMA ClearIs ==
  ASSUME NEW C \in CacheState, NEW e \in Cache!Entry
  PROVE  LET D == Cache!ClearEviction(C, e) IN
         /\ D \in CacheState
         /\ D.current = C.current /\ D.of = C.of /\ D.refs = C.refs /\ D.lost = C.lost
         /\ D.attached = C.attached /\ D.watching = C.watching /\ D.older = C.older
         /\ D.timer = [C.timer EXCEPT ![e] = -1]
         /\ Cache!Cached(D) = Cache!Cached(C)
<1>1. [C.timer EXCEPT ![e] = -1] \in [Cache!Entry -> Int]
  BY DEF CacheState
<1>2. Cache!ClearEviction(C, e) = [C EXCEPT !.timer = [C.timer EXCEPT ![e] = -1]]
  BY DEF Cache!ClearEviction, Cache!NoTimer, CacheState
<1>3. LET D == Cache!ClearEviction(C, e) IN
      /\ D \in CacheState
      /\ D.current = C.current /\ D.of = C.of /\ D.refs = C.refs /\ D.lost = C.lost
      /\ D.attached = C.attached /\ D.watching = C.watching /\ D.older = C.older
      /\ D.timer = [C.timer EXCEPT ![e] = -1]
  BY <1>1, <1>2 DEF CacheState
<1>4. Cache!Cached(Cache!ClearEviction(C, e)) = Cache!Cached(C)
  BY <1>3 DEF Cache!Cached
<1> QED BY <1>3, <1>4

LEMMA RefsIs ==
  ASSUME NEW C \in CacheState, NEW e \in Cache!Entry, NEW n \in Int
  PROVE  LET D == [C EXCEPT !.refs[e] = n] IN
         /\ D \in CacheState
         /\ D.current = C.current /\ D.of = C.of /\ D.timer = C.timer /\ D.lost = C.lost
         /\ D.attached = C.attached /\ D.watching = C.watching /\ D.older = C.older
         /\ D.refs = [C.refs EXCEPT ![e] = n]
         /\ Cache!Cached(D) = Cache!Cached(C)
BY DEF CacheState, Cache!Cached

-----------------------------------------------------------------------------
(* The order of use is a strict order; the oldest of a set are enough.     *)
Strict(C) ==
  /\ \A e \in Cache!Cached(C) : <<e, e>> \notin C.older
  /\ \A e, f, g \in Cache!Cached(C) :
       <<e, f>> \in C.older /\ <<f, g>> \in C.older => <<e, g>> \in C.older

LEMMA OldestAreEnough ==
  ASSUME NEW C, Strict(C), NEW S \in SUBSET Cache!Cached(C), IsFiniteSet(S), NEW n \in Int,
         NEW e \in S, e \notin Cache!Oldest(C, S, n)
  PROVE  Cardinality(Cache!Oldest(C, S, n)) >= n
<1> DEFINE Pred(x) == {f \in S : <<f, x>> \in C.older}
           D == Cache!Oldest(C, S, n)
           T == {Cardinality(Pred(x)) : x \in S \ D}
<1>1. \A x \in S : Pred(x) \subseteq S /\ IsFiniteSet(Pred(x)) /\ Cardinality(Pred(x)) \in Nat
  BY FS_Subset, FS_CardinalityType
<1>2. D = {x \in S : Cardinality(Pred(x)) < n}
  BY CacheCardinality DEF Cache!Oldest
<1>3. PICK m \in T : \A k \in T : m <= k
  <2>1. T \in SUBSET Nat /\ T # {}
    BY <1>1
  <2> QED BY <2>1, NatMin
<1>4. PICK x \in S \ D : m = Cardinality(Pred(x))
  BY <1>3
<1>5. ASSUME NEW f \in Pred(x) PROVE f \in D
  <2>1. f \in S /\ <<f, x>> \in C.older
    OBVIOUS
  <2>2. Pred(f) \subseteq Pred(x) \ {f}
    BY <2>1 DEF Strict
  <2>3. Cardinality(Pred(f)) < Cardinality(Pred(x))
    <3>1. IsFiniteSet(Pred(x)) /\ f \in Pred(x) /\ IsFiniteSet(Pred(x) \ {f})
      BY <1>1, FS_RemoveElement
    <3>2. Cardinality(Pred(x) \ {f}) = Cardinality(Pred(x)) - 1
      BY <3>1, FS_RemoveElement
    <3>3. Cardinality(Pred(f)) <= Cardinality(Pred(x) \ {f})
      BY <3>1, <2>2, FS_Subset
    <3>4. Cardinality(Pred(f)) \in Nat /\ Cardinality(Pred(x)) \in Nat
      BY <2>1, <1>1
    <3> QED BY <3>2, <3>3, <3>4
  <2>4. ~(f \in S \ D)
    <3> SUFFICES ASSUME f \in S \ D PROVE FALSE
      OBVIOUS
    <3>1. m <= Cardinality(Pred(f))
      BY <1>3
    <3>2. Cardinality(Pred(f)) \in Nat /\ Cardinality(Pred(x)) \in Nat
      BY <1>1
    <3> QED BY <3>1, <3>2, <2>3, <1>4
  <2> QED BY <2>1, <2>4
<1>6. Cardinality(Pred(x)) <= Cardinality(D) /\ Cardinality(D) \in Nat
  <2>1. IsFiniteSet(D)
    BY <1>2, FS_Subset
  <2>2. Pred(x) \subseteq D
    BY <1>5
  <2> QED BY <2>1, <2>2, FS_Subset, FS_CardinalityType
<1>7. Cardinality(Pred(x)) >= n
  <2>1. x \in S /\ ~(Cardinality(Pred(x)) < n)
    BY <1>2
  <2> QED BY SMTT(30), <2>1, <1>1
<1>8. Cardinality(Pred(x)) \in Nat
  BY <1>1
<1> HIDE DEF D, Pred
<1>9. Cardinality(D) >= n
  BY <1>6, <1>7, <1>8
<1> QED BY <1>9 DEF D

-----------------------------------------------------------------------------
(* The parts of the invariant, of a cache C and the threads at work.       *)
Placed(C) ==
  /\ Len(C.of) <= MaxEntries
  /\ \A t \in Thread :
       C.current[t] \in 0..Len(C.of) /\ (C.current[t] # 0 => C.of[C.current[t]] = t)
  /\ C.attached \cup C.watching \subseteq Cache!Cached(C)

OrderedOn(C, S) ==
  /\ \A e, f \in S : e # f => (<<e, f>> \in C.older <=> <<f, e>> \notin C.older)
  /\ \A e \in S : <<e, e>> \notin C.older
  /\ \A e, f, g \in S : <<e, f>> \in C.older /\ <<f, g>> \in C.older => <<e, g>> \in C.older

Within(C) == C.older \subseteq Cache!Cached(C) \X Cache!Cached(C)

Sound(C) ==
  /\ C \in CacheState
  /\ Placed(C)
  /\ Within(C) /\ OrderedOn(C, Cache!Cached(C))
  /\ \A e \in Cache!Entry : C.timer[e] \in -1..Ttl

Ticking(C, busy, unseen) ==
  \A e \in Cache!Cached(C) :
    Cache!shouldEvict(C, e, busy) /\ C.of[e] \notin unseen => C.timer[e] # -1

Small(C, busy, unseen) ==
  Cardinality(Cache!Cached(C)) > MaxCached =>
    \A e \in Cache!Cached(C) : Cache!shouldEvict(C, e, busy) => C.of[e] \in unseen

(* What is in the cache is an entry, of its thread.                        *)
LEMMA CachedIs ==
  ASSUME NEW C, C \in CacheState, Placed(C), CacheBounds
  PROVE  /\ Cache!Cached(C) \subseteq 1..Len(C.of)
         /\ Cache!Cached(C) \subseteq Cache!Entry /\ Cache!Cached(C) \subseteq Nat \ {0}
         /\ \A e \in Cache!Cached(C) : C.of[e] \in Thread /\ C.current[C.of[e]] = e
         /\ IsFiniteSet(Cache!Cached(C))
<1>1. C.of \in Seq(Thread) /\ Len(C.of) \in Nat
  BY DEF CacheState
<1>2. Cache!Cached(C) \subseteq 1..Len(C.of)
  BY <1>1 DEF Cache!Cached, Placed
<1>3. \A e \in Cache!Cached(C) : C.of[e] \in Thread /\ C.current[C.of[e]] = e
  BY DEF Cache!Cached, Placed
<1>4. IsFiniteSet(Cache!Cached(C))
  <2>1. IsFiniteSet(1..Len(C.of))
    BY <1>1, FS_Interval
  <2> QED BY <1>2, <2>1, FS_Subset
<1>5. Cache!Cached(C) \subseteq Cache!Entry /\ Cache!Cached(C) \subseteq Nat \ {0}
  BY <1>1, <1>2 DEF Placed, CacheBounds, Cache!Entry
<1> QED BY <1>2, <1>3, <1>4, <1>5

LEMMA DisposeKeeps ==
  ASSUME NEW C, Sound(C), NEW es, NEW busy, NEW unseen, CacheBounds
  PROVE  LET D == Cache!Dispose(C, es) IN
         /\ Sound(D)
         /\ Ticking(C, busy, unseen) => Ticking(D, busy, unseen)
         /\ Small(C, busy, unseen) => Small(D, busy, unseen)
<1> DEFINE D == Cache!Dispose(C, es)
<1>0. C \in CacheState
  BY DEF Sound
<1>1. /\ D \in CacheState
      /\ \A t \in Thread : D.current[t] = IF C.current[t] \in es THEN 0 ELSE C.current[t]
      /\ D.of = C.of /\ D.refs = C.refs /\ D.lost = C.lost
      /\ D.attached = C.attached \ es /\ D.watching = C.watching \ es
      /\ \A e \in Cache!Entry : D.timer[e] = IF e \in es THEN -1 ELSE C.timer[e]
      /\ D.older = {p \in C.older : p[1] \notin es /\ p[2] \notin es}
  BY <1>0, DisposeIs
<1>2. Cache!Cached(D) = Cache!Cached(C) \ es
  BY <1>0, DisposeCached
<1> HIDE DEF D
<1>3. C.of \in Seq(Thread) /\ Len(C.of) \in Nat
  BY <1>0 DEF CacheState
<1>4. Cache!Cached(C) \subseteq Cache!Entry /\ IsFiniteSet(Cache!Cached(C))
  BY CachedIs DEF Sound
<1>5. Placed(D)
  BY <1>1, <1>2, <1>3 DEF Sound, Placed
<1>6. Within(D)
  <2>1. C.older \subseteq Cache!Cached(C) \X Cache!Cached(C)
    BY DEF Sound, Within
  <2> QED BY <1>1, <1>2, <2>1 DEF Within
<1>7. OrderedOn(D, Cache!Cached(D))
  <2>1. OrderedOn(C, Cache!Cached(C))
    BY DEF Sound
  <2>2. \A e, f \in Cache!Cached(D) : <<e, f>> \in D.older <=> <<e, f>> \in C.older
    BY <1>1, <1>2
  <2> QED BY <1>2, <2>1, <2>2 DEF OrderedOn
<1>8. \A e \in Cache!Entry : D.timer[e] \in -1..Ttl
  BY <1>1 DEF Sound, CacheBounds
<1>9. \A e : Cache!shouldEvict(D, e, busy) <=> Cache!shouldEvict(C, e, busy)
  BY <1>1 DEF Cache!shouldEvict
<1>10. Ticking(C, busy, unseen) => Ticking(D, busy, unseen)
  BY <1>1, <1>2, <1>4, <1>9 DEF Ticking
<1>11. Small(C, busy, unseen) => Small(D, busy, unseen)
  <2>1. Cardinality(Cache!Cached(D)) <= Cardinality(Cache!Cached(C))
        /\ Cardinality(Cache!Cached(D)) \in Nat /\ Cardinality(Cache!Cached(C)) \in Nat
    BY <1>2, <1>4, FS_Subset, FS_CardinalityType
  <2> QED BY <1>1, <1>2, <1>9, <2>1 DEF Small, CacheBounds
<1> QED BY <1>1, <1>5, <1>6, <1>7, <1>8, <1>10, <1>11 DEF Sound, D

(* evictIdleThreadDetailSubscriptionsToCapacity                            *)
LEMMA EvictKeeps ==
  ASSUME NEW C, Sound(C), NEW busy, NEW unseen, Ticking(C, busy, unseen), CacheBounds
  PROVE  LET D == Cache!EvictToCapacity(C, busy) IN
         /\ Sound(D) /\ Ticking(D, busy, unseen) /\ Small(D, busy, unseen)
         /\ D.of = C.of /\ D.refs = C.refs /\ D.lost = C.lost
         /\ \A t \in Thread :
              D.current[t] # C.current[t] => D.current[t] = 0 /\ Cache!shouldEvict(C, C.current[t], busy)
<1> DEFINE idle == {e \in Cache!Cached(C) : Cache!shouldEvict(C, e, busy)}
           n == Cardinality(Cache!Cached(C)) - MaxCached
           es == Cache!Oldest(C, idle, n)
           D == Cache!Dispose(C, es)
<1>1. Cache!EvictToCapacity(C, busy) = D
  BY CacheCardinality DEF Cache!EvictToCapacity
<1>2. C \in CacheState
  BY DEF Sound
<1>3. es \subseteq idle
  BY DEF Cache!Oldest
<1>4. IsFiniteSet(Cache!Cached(C)) /\ Cardinality(Cache!Cached(C)) \in Nat
  BY CachedIs, FS_CardinalityType DEF Sound
<1>5. Cache!Cached(D) = Cache!Cached(C) \ es
  BY <1>2, DisposeCached
<1>6. /\ \A t \in Thread : D.current[t] = IF C.current[t] \in es THEN 0 ELSE C.current[t]
      /\ D.of = C.of /\ D.refs = C.refs /\ D.lost = C.lost
  BY <1>2, DisposeIs
<1>7. Sound(D) /\ Ticking(D, busy, unseen)
  BY DisposeKeeps
<1>8. Small(D, busy, unseen)
  <2> SUFFICES ASSUME NEW e \in Cache!Cached(D), Cache!shouldEvict(D, e, busy),
                      Cardinality(Cache!Cached(D)) > MaxCached
               PROVE  FALSE
    BY DEF Small
  <2>1. e \in idle /\ e \notin es
    BY <1>5, <1>6 DEF Cache!shouldEvict
  <2>2. Strict(C)
    BY DEF Strict, Sound, OrderedOn
  <2>3. IsFiniteSet(idle) /\ IsFiniteSet(es)
    BY <1>3, <1>4, FS_Subset
  <2>4. n \in Int
    BY <1>4 DEF CacheBounds
  <2>5. Cardinality(es) >= n
    <3> HIDE DEF n, idle
    <3>1. idle \in SUBSET Cache!Cached(C)
      BY DEF idle
    <3>2. IsFiniteSet(idle) /\ n \in Int /\ e \in idle /\ e \notin Cache!Oldest(C, idle, n)
      BY <2>1, <2>3, <2>4
    <3> QED BY <2>2, <3>1, <3>2, OldestAreEnough
  <2>6. Cardinality(Cache!Cached(D)) = Cardinality(Cache!Cached(C)) - Cardinality(es)
    <3>1. Cache!Cached(C) \cap es = es
      BY <1>3
    <3>2. Cardinality(Cache!Cached(C) \ es)
            = Cardinality(Cache!Cached(C)) - Cardinality(Cache!Cached(C) \cap es)
      BY <1>4, FS_Difference
    <3> QED BY <1>5, <3>1, <3>2
  <2>7. Cardinality(es) \in Nat
    BY <2>3, FS_CardinalityType
  <2> HIDE DEF D, es
  <2> QED BY <2>5, <2>6, <2>7, <1>4 DEF CacheBounds
<1>9. \A t \in Thread :
        D.current[t] # C.current[t] => D.current[t] = 0 /\ Cache!shouldEvict(C, C.current[t], busy)
  BY <1>3, <1>6
<1> HIDE DEF D
<1> QED BY <1>1, <1>6, <1>7, <1>8, <1>9

(* An entry is used: the order has no need of what it was before.          *)
LEMMA UsedKeeps ==
  ASSUME NEW C, C \in CacheState, Placed(C), \A e \in Cache!Entry : C.timer[e] \in -1..Ttl,
         NEW es \in SUBSET Cache!Cached(C), CacheBounds,
         Within(C), OrderedOn(C, Cache!Cached(C) \ es)
  PROVE  Sound(Cache!Used(C, es))
<1> DEFINE D == Cache!Used(C, es)
<1>1. Cache!Cached(C) \in SUBSET Nat
  BY CachedIs
<1>2. /\ D \in CacheState
      /\ D.current = C.current /\ D.of = C.of
      /\ D.attached = C.attached /\ D.watching = C.watching /\ D.timer = C.timer
      /\ D.older = {p \in C.older : p[1] \notin es /\ p[2] \notin es}
                   \cup ((Cache!Cached(C) \ es) \X es) \cup {p \in es \X es : p[1] < p[2]}
      /\ Cache!Cached(D) = Cache!Cached(C)
  BY <1>1, UsedIs
<1> HIDE DEF D
<1>3. Placed(D) /\ \A e \in Cache!Entry : D.timer[e] \in -1..Ttl
  BY <1>2 DEF Placed
<1>4. Within(D)
  BY <1>2 DEF Within
<1>5. ASSUME NEW e \in Cache!Cached(C), NEW f \in Cache!Cached(C)
      PROVE  /\ e \notin es /\ f \notin es => (<<e, f>> \in D.older <=> <<e, f>> \in C.older)
             /\ e \notin es /\ f \in es => <<e, f>> \in D.older
             /\ e \in es /\ f \notin es => <<e, f>> \notin D.older
             /\ e \in es /\ f \in es => (<<e, f>> \in D.older <=> e < f)
  BY <1>2
<1>6. OrderedOn(D, Cache!Cached(D))
  <2> DEFINE Was(e, f) == <<e, f>> \in C.older
             Is(e, f) == <<e, f>> \in D.older
  <2>1. \A e \in Cache!Cached(C) : e \in Nat
    BY <1>1
  <2>2. \A e, f \in Cache!Cached(C) :
          /\ e \notin es /\ f \notin es => (Is(e, f) <=> Was(e, f))
          /\ e \notin es /\ f \in es => Is(e, f)
          /\ e \in es /\ f \notin es => ~Is(e, f)
          /\ e \in es /\ f \in es => (Is(e, f) <=> e < f)
    BY <1>5
  <2>3. /\ \A e, f \in Cache!Cached(C) : e \notin es /\ f \notin es /\ e # f => (Was(e, f) <=> ~Was(f, e))
        /\ \A e \in Cache!Cached(C) : e \notin es => ~Was(e, e)
        /\ \A e, f, g \in Cache!Cached(C) :
             e \notin es /\ f \notin es /\ g \notin es /\ Was(e, f) /\ Was(f, g) => Was(e, g)
    BY DEF OrderedOn
  <2> HIDE DEF Was, Is
  <2>4. \A e, f \in Cache!Cached(C) : e # f => (Is(e, f) <=> ~Is(f, e))
    BY <2>1, <2>2, <2>3
  <2>5. \A e \in Cache!Cached(C) : ~Is(e, e)
    BY <2>1, <2>2, <2>3
  <2>6. \A e, f, g \in Cache!Cached(C) : Is(e, f) /\ Is(f, g) => Is(e, g)
    BY <2>1, <2>2, <2>3
  <2> QED BY <1>2, <2>4, <2>5, <2>6 DEF OrderedOn, Is
<1> QED BY <1>2, <1>3, <1>4, <1>6 DEF Sound, D

LEMMA AttachKeeps ==
  ASSUME NEW C, Sound(C), NEW e \in Cache!Cached(C), NEW up, CacheBounds
  PROVE  Sound(Cache!AttachOrWatch(C, e, up))
<1>1. e \in Nat /\ C \in CacheState
  BY CachedIs DEF Sound
<1>2. LET D == Cache!AttachOrWatch(C, e, up) IN
      /\ D \in CacheState
      /\ D.current = C.current /\ D.of = C.of /\ D.timer = C.timer /\ D.older = C.older
      /\ D.attached \subseteq C.attached \cup {e}
      /\ D.watching \subseteq C.watching \cup {e}
      /\ Cache!Cached(D) = Cache!Cached(C)
  BY <1>1, AttachOrWatchIs
<1> QED BY <1>2 DEF Sound, Placed, Within, OrderedOn

LEMMA ReconcileKeeps ==
  ASSUME NEW C, Sound(C), NEW es, NEW busy, CacheBounds
  PROVE  Sound(Cache!Reconcile(C, es, busy))
<1>1. C \in CacheState
  BY DEF Sound
<1>2. LET D == Cache!Reconcile(C, es, busy) IN
      /\ D \in CacheState
      /\ D.current = C.current /\ D.of = C.of
      /\ D.attached = C.attached /\ D.watching = C.watching /\ D.older = C.older
      /\ \A e \in Cache!Entry : D.timer[e] \in -1..Ttl
      /\ Cache!Cached(D) = Cache!Cached(C)
  <2>1. \A e \in Cache!Entry : C.timer[e] \in -1..Ttl
    BY DEF Sound
  <2>2. Ttl \in -1..Ttl /\ -1 \in -1..Ttl
    BY DEF CacheBounds
  <2> QED BY <1>1, <2>1, <2>2, ReconcileIs
<1> QED BY <1>2 DEF Sound, Placed, Within, OrderedOn

LEMMA ClearKeeps ==
  ASSUME NEW C, Sound(C), NEW e \in Cache!Entry, CacheBounds
  PROVE  Sound(Cache!ClearEviction(C, e))
<1>1. C \in CacheState
  BY DEF Sound
<1>2. LET D == Cache!ClearEviction(C, e) IN
      /\ D \in CacheState
      /\ D.current = C.current /\ D.of = C.of
      /\ D.attached = C.attached /\ D.watching = C.watching /\ D.older = C.older
      /\ \A f \in Cache!Entry : D.timer[f] \in -1..Ttl
      /\ Cache!Cached(D) = Cache!Cached(C)
  <2>1. \A f \in Cache!Entry : C.timer[f] \in -1..Ttl
    BY DEF Sound
  <2>2. -1 \in -1..Ttl
    BY DEF CacheBounds
  <2>3. \A f \in Cache!Entry : Cache!ClearEviction(C, e).timer[f] = IF f = e THEN -1 ELSE C.timer[f]
    <3>1. C.timer \in [Cache!Entry -> Int]
      BY <1>1 DEF CacheState
    <3>2. Cache!ClearEviction(C, e).timer = [C.timer EXCEPT ![e] = -1]
      BY <1>1, ClearIs
    <3> QED BY <3>1, <3>2
  <2> QED BY <1>1, <2>1, <2>2, <2>3, ClearIs
<1> QED BY <1>2 DEF Sound, Placed, Within, OrderedOn

LEMMA RefsKeeps ==
  ASSUME NEW C, Sound(C), NEW e \in Cache!Entry, NEW n \in Int
  PROVE  Sound([C EXCEPT !.refs[e] = n])
<1>1. C \in CacheState
  BY DEF Sound
<1>2. LET D == [C EXCEPT !.refs[e] = n] IN
      /\ D \in CacheState
      /\ D.current = C.current /\ D.of = C.of /\ D.timer = C.timer
      /\ D.attached = C.attached /\ D.watching = C.watching /\ D.older = C.older
      /\ Cache!Cached(D) = Cache!Cached(C)
  BY <1>1, RefsIs
<1> QED BY <1>2 DEF Sound, Placed, Within, OrderedOn

-----------------------------------------------------------------------------
(* Who holds an entry.                                                     *)
Holders(h, e) == {v \in View : h[v] = e}

LEMMA Retained ==
  ASSUME CacheBounds, NEW h \in [View -> Nat], NEW v \in View, NEW e \in Nat \ {0}, h[v] = 0
  PROVE  /\ Cardinality(Holders([h EXCEPT ![v] = e], e)) = Cardinality(Holders(h, e)) + 1
         /\ \A f \in Nat \ {0, e} : Holders([h EXCEPT ![v] = e], f) = Holders(h, f)
<1>1. Holders([h EXCEPT ![v] = e], e) = Holders(h, e) \cup {v} /\ v \notin Holders(h, e)
  BY DEF Holders
<1>2. IsFiniteSet(Holders(h, e))
  BY FS_Subset DEF CacheBounds, Holders
<1>3. Cardinality(Holders(h, e) \cup {v}) = Cardinality(Holders(h, e)) + 1
  BY <1>1, <1>2, FS_AddElement
<1>4. \A f \in Nat \ {0, e} : Holders([h EXCEPT ![v] = e], f) = Holders(h, f)
  BY DEF Holders
<1> QED BY <1>1, <1>3, <1>4

LEMMA Released ==
  ASSUME CacheBounds, NEW h \in [View -> Nat], NEW v \in View, h[v] # 0
  PROVE  /\ Cardinality(Holders([h EXCEPT ![v] = 0], h[v])) = Cardinality(Holders(h, h[v])) - 1
         /\ \A f \in Nat \ {0, h[v]} : Holders([h EXCEPT ![v] = 0], f) = Holders(h, f)
<1>1. Holders([h EXCEPT ![v] = 0], h[v]) = Holders(h, h[v]) \ {v} /\ v \in Holders(h, h[v])
  BY DEF Holders
<1>2. IsFiniteSet(Holders(h, h[v]))
  BY FS_Subset DEF CacheBounds, Holders
<1>3. Cardinality(Holders(h, h[v]) \ {v}) = Cardinality(Holders(h, h[v])) - 1
  BY <1>1, <1>2, FS_RemoveElement
<1>4. \A f \in Nat \ {0, h[v]} : Holders([h EXCEPT ![v] = 0], f) = Holders(h, f)
  BY DEF Holders
<1> QED BY <1>1, <1>3, <1>4

-----------------------------------------------------------------------------
CacheInv ==
  /\ Sound(cache)
  /\ nonIdle \subseteq known /\ known \subseteq Thread /\ unreconciled \subseteq Thread
  /\ holds \in [View -> 0..Len(cache.of)]
  /\ \A e \in Cache!Entry : cache.refs[e] = Cardinality(Holders(holds, e))
  /\ Ticking(cache, nonIdle, unreconciled)
  /\ Small(cache, nonIdle, unreconciled)

(* What a step may drop.                                                   *)
DropsUnused ==
  \A t \in known \cap known' :
    LET e == cache.current[t]
    IN  e # 0 /\ cache'.current[t] # e /\ connected' => cache'.refs[e] = 0 /\ t \notin nonIdle'

(* Steps that leave entries, their threads and their references alone.     *)
LEMMA SameRefs ==
  ASSUME CacheInv, cache'.of = cache.of, cache'.refs = cache.refs, UNCHANGED holds
  PROVE  /\ holds' \in [View -> 0..Len(cache'.of)]
         /\ \A e \in Cache!Entry : cache'.refs[e] = Cardinality(Holders(holds', e))
BY DEF CacheInv

LEMMA RetainExistingKeeps ==
  ASSUME CacheBounds, CacheInv, NEW v \in View, NEW t \in Thread, holds[v] = 0,
         Cache!RetainExisting(v, t), UNCHANGED <<connected, known, nonIdle, unreconciled>>
  PROVE  CacheInv' /\ DropsUnused
<1> DEFINE e == cache.current[t]
           C1 == Cache!ClearEviction(cache, e)
           C2 == [C1 EXCEPT !.refs[e] = @ + 1]
           C3 == Cache!Used(C2, {e})
           C4 == Cache!AttachOrWatch(C3, e, connected)
<1>1. e # 0 /\ cache' = C4 /\ holds' = [holds EXCEPT ![v] = e]
  BY DEF Cache!RetainExisting, Cache!Touch
<1>2. cache \in CacheState /\ Sound(cache) /\ e \in Cache!Cached(cache)
  BY <1>1 DEF CacheInv, Sound, Cache!Cached
<1>3. e \in Cache!Entry /\ e \in Nat \ {0} /\ e \in 1..Len(cache.of)
  BY <1>2, CachedIs DEF Sound
<1> HIDE DEF e
<1>4. /\ Sound(C1) /\ C1 \in CacheState
      /\ C1.current = cache.current /\ C1.of = cache.of /\ C1.refs = cache.refs
      /\ C1.timer = [cache.timer EXCEPT ![e] = -1]
      /\ Cache!Cached(C1) = Cache!Cached(cache)
  BY <1>2, <1>3, ClearIs, ClearKeeps
<1> HIDE DEF C1
<1>5. C1.refs[e] + 1 \in Int
  BY <1>3, <1>4 DEF CacheState
<1>6. /\ Sound(C2) /\ C2 \in CacheState
      /\ C2.current = cache.current /\ C2.of = cache.of
      /\ C2.refs = [cache.refs EXCEPT ![e] = cache.refs[e] + 1]
      /\ C2.timer = [cache.timer EXCEPT ![e] = -1]
      /\ Cache!Cached(C2) = Cache!Cached(cache)
  BY <1>3, <1>4, <1>5, RefsIs, RefsKeeps
<1> HIDE DEF C2
<1>7. {e} \in SUBSET Nat /\ {e} \in SUBSET Cache!Cached(C2)
  BY <1>2, <1>3, <1>6
<1>8. OrderedOn(C2, Cache!Cached(C2) \ {e})
  BY <1>6 DEF Sound, OrderedOn
<1>9. /\ Sound(C3) /\ C3 \in CacheState
      /\ C3.current = cache.current /\ C3.of = cache.of /\ C3.refs = C2.refs /\ C3.timer = C2.timer
      /\ Cache!Cached(C3) = Cache!Cached(cache)
  <2>1. Sound(C3)
    BY <1>6, <1>7, <1>8, UsedKeeps DEF Sound
  <2> QED BY <1>6, <1>7, <2>1, UsedIs
<1> HIDE DEF C3
<1>10. /\ Sound(C4) /\ C4 \in CacheState
       /\ C4.current = cache.current /\ C4.of = cache.of /\ C4.refs = C2.refs /\ C4.timer = C2.timer
       /\ Cache!Cached(C4) = Cache!Cached(cache)
  BY <1>2, <1>3, <1>9, AttachKeeps, AttachOrWatchIs
<1> HIDE DEF C4
<1>11. /\ cache'.refs[e] = cache.refs[e] + 1
       /\ \A f \in Cache!Entry \ {e} : cache'.refs[f] = cache.refs[f] /\ cache'.timer[f] = cache.timer[f]
  BY <1>1, <1>2, <1>3, <1>6, <1>10 DEF CacheState
<1>12. holds \in [View -> Nat] /\ holds \in [View -> 0..Len(cache.of)]
  BY <1>2 DEF CacheInv, CacheState
<1>13. \A f \in Cache!Entry : cache'.refs[f] = Cardinality(Holders(holds', f))
  <2>1. \A f \in Cache!Entry : cache.refs[f] = Cardinality(Holders(holds, f))
    BY DEF CacheInv
  <2>2. \A f \in Cache!Entry : f \in Nat \ {0}
    BY DEF Cache!Entry, CacheBounds
  <2>3. /\ Cardinality(Holders(holds', e)) = Cardinality(Holders(holds, e)) + 1
        /\ \A f \in Nat \ {0, e} : Holders(holds', f) = Holders(holds, f)
    <3>1. /\ Cardinality(Holders([holds EXCEPT ![v] = e], e)) = Cardinality(Holders(holds, e)) + 1
          /\ \A f \in Nat \ {0, e} : Holders([holds EXCEPT ![v] = e], f) = Holders(holds, f)
      BY <1>3, <1>12, Retained
    <3> QED BY <1>1, <3>1
  <2> QED BY <1>3, <1>11, <2>1, <2>2, <2>3
<1>14. holds' \in [View -> 0..Len(cache'.of)]
  BY <1>1, <1>3, <1>10, <1>12
<1>15. cache'.refs[e] # 0
  <2>1. cache.refs[e] = Cardinality(Holders(holds, e)) /\ IsFiniteSet(Holders(holds, e))
    BY <1>3, FS_Subset DEF CacheInv, Holders, CacheBounds
  <2> QED BY <1>11, <2>1, FS_CardinalityType
<1>16. \A f : Cache!shouldEvict(cache', f, nonIdle') => f # e
  BY <1>15 DEF Cache!shouldEvict
<1>17. \A f \in Cache!Cached(cache') : Cache!shouldEvict(cache', f, nonIdle') =>
         f \in Cache!Cached(cache) /\ Cache!shouldEvict(cache, f, nonIdle) /\ cache'.timer[f] = cache.timer[f]
  <2>1. Cache!Cached(cache) \subseteq Cache!Entry
    BY <1>2, CachedIs DEF Sound
  <2> QED BY <1>1, <1>10, <1>11, <1>16, <2>1 DEF Cache!shouldEvict
<1>18. Ticking(cache', nonIdle', unreconciled') /\ Small(cache', nonIdle', unreconciled')
  BY <1>1, <1>10, <1>17 DEF CacheInv, Ticking, Small
<1>19. DropsUnused
  BY <1>1, <1>10 DEF DropsUnused
<1> QED BY <1>1, <1>10, <1>13, <1>14, <1>18, <1>19 DEF CacheInv

(* A cache with fewer entries, of the same threads and references.         *)
LEMMA FewerAreSmall ==
  ASSUME NEW C, NEW D, NEW busy, NEW unseen, Small(C, busy, unseen), CacheBounds,
         IsFiniteSet(Cache!Cached(C)), Cache!Cached(D) \subseteq Cache!Cached(C),
         D.of = C.of, D.refs = C.refs
  PROVE  Small(D, busy, unseen)
<1>1. /\ Cardinality(Cache!Cached(D)) <= Cardinality(Cache!Cached(C))
      /\ Cardinality(Cache!Cached(D)) \in Nat /\ Cardinality(Cache!Cached(C)) \in Nat
  BY FS_Subset, FS_CardinalityType
<1> QED BY <1>1 DEF Small, Cache!shouldEvict, CacheBounds

(* A step that ends with an eviction.                                      *)
LEMMA EvictStep ==
  ASSUME CacheBounds, CacheInv, NEW C, Sound(C), Ticking(C, nonIdle', unreconciled'),
         cache' = Cache!EvictToCapacity(C, nonIdle'),
         \A e \in Cache!Cached(cache) : C.of[e] = cache.of[e],
         \A t \in known \cap known' : cache.current[t] # 0 => C.current[t] = cache.current[t]
  PROVE  /\ Sound(cache') /\ Ticking(cache', nonIdle', unreconciled')
         /\ Small(cache', nonIdle', unreconciled')
         /\ cache'.of = C.of /\ cache'.refs = C.refs
         /\ DropsUnused
<1>1. /\ Sound(cache') /\ Ticking(cache', nonIdle', unreconciled')
      /\ Small(cache', nonIdle', unreconciled')
      /\ cache'.of = C.of /\ cache'.refs = C.refs
      /\ \A t \in Thread : cache'.current[t] # C.current[t] =>
           cache'.current[t] = 0 /\ Cache!shouldEvict(C, C.current[t], nonIdle')
  BY EvictKeeps
<1>2. ASSUME NEW t \in known \cap known', cache.current[t] # 0, cache'.current[t] # cache.current[t]
      PROVE  cache'.refs[cache.current[t]] = 0 /\ t \notin nonIdle'
  <2>1. t \in Thread
    BY DEF CacheInv
  <2>2. Cache!shouldEvict(C, cache.current[t], nonIdle')
    BY <1>1, <1>2, <2>1
  <2>3. cache.current[t] \in Cache!Cached(cache) /\ cache.of[cache.current[t]] = t
    BY <1>2, <2>1 DEF CacheInv, Sound, Placed, Cache!Cached
  <2> QED BY <1>1, <2>2, <2>3 DEF Cache!shouldEvict
<1> QED BY <1>1, <1>2 DEF DropsUnused

LEMMA RetainNewKeeps ==
  ASSUME CacheBounds, CacheInv, NEW v \in View, NEW t \in Thread, holds[v] = 0,
         Cache!RetainNew(v, t), UNCHANGED <<connected, known, nonIdle, unreconciled>>
  PROVE  CacheInv' /\ DropsUnused
<1> DEFINE e == Len(cache.of) + 1
           C1 == [cache EXCEPT !.current[t] = e, !.of = Append(@, t), !.refs[e] = 1]
           C2 == Cache!Used(C1, {e})
           C3 == Cache!AttachOrWatch(C2, e, connected)
<1>1. /\ cache.current[t] = 0 /\ e \in Cache!Entry
      /\ cache' = Cache!EvictToCapacity(C3, nonIdle) /\ holds' = [holds EXCEPT ![v] = e]
  BY DEF Cache!RetainNew, Cache!Touch
<1>2. cache \in CacheState /\ Sound(cache) /\ Placed(cache) /\ Within(cache)
  BY DEF CacheInv, Sound
<1>3. cache.of \in Seq(Thread) /\ Len(cache.of) \in Nat /\ e \in Nat \ {0}
  BY <1>2 DEF CacheState
<1>4. /\ Append(cache.of, t) \in Seq(Thread) /\ Len(Append(cache.of, t)) = e
      /\ Append(cache.of, t)[e] = t
      /\ \A i \in 1..Len(cache.of) : Append(cache.of, t)[i] = cache.of[i]
  BY <1>3
<1>5. e = Len(cache.of) + 1
  OBVIOUS
<1> HIDE DEF e
<1>6. /\ [cache.current EXCEPT ![t] = e] \in [Thread -> Nat]
      /\ [cache.refs EXCEPT ![e] = 1] \in [Cache!Entry -> Int]
  <2>1. cache.current \in [Thread -> Nat] /\ cache.refs \in [Cache!Entry -> Int]
    BY <1>2 DEF CacheState
  <2>2. [cache.current EXCEPT ![t] = e] \in [Thread -> Nat]
    BY <1>3, <2>1
  <2>3. [cache.refs EXCEPT ![e] = 1] \in [Cache!Entry -> Int]
    <3>1. \A n \in Int : [cache.refs EXCEPT ![e] = n] \in [Cache!Entry -> Int]
      BY <2>1
    <3> QED BY <3>1
  <2> QED BY <2>2, <2>3
<1>7. /\ C1 \in CacheState
      /\ C1.current = [cache.current EXCEPT ![t] = e] /\ C1.of = Append(cache.of, t)
      /\ C1.refs = [cache.refs EXCEPT ![e] = 1] /\ C1.timer = cache.timer
      /\ C1.attached = cache.attached /\ C1.watching = cache.watching /\ C1.older = cache.older
  BY <1>2, <1>4, <1>6 DEF CacheState
<1> HIDE DEF C1
<1>8. /\ \A u \in Thread \ {t} : C1.current[u] = cache.current[u]
      /\ C1.current[t] = e
  BY <1>2, <1>7 DEF CacheState
<1>9. Cache!Cached(C1) = Cache!Cached(cache) \cup {e}
  BY <1>1, <1>3, <1>8 DEF Cache!Cached
<1>10. /\ Cache!Cached(cache) \subseteq 1..Len(cache.of) /\ e \notin Cache!Cached(cache)
       /\ Cache!Cached(cache) \subseteq Cache!Entry
  BY <1>2, <1>3, <1>5, CachedIs
<1>11. Placed(C1) /\ \A f \in Cache!Entry : C1.timer[f] \in -1..Ttl
  <2>1. e <= MaxEntries
    BY <1>1, <1>3 DEF Cache!Entry, CacheBounds
  <2>2. \A u \in Thread : C1.current[u] \in 0..Len(C1.of) /\ (C1.current[u] # 0 => C1.of[C1.current[u]] = u)
    <3> TAKE u \in Thread
    <3>1. CASE u = t
      BY <3>1, <1>3, <1>4, <1>7, <1>8
    <3>2. CASE u # t
      <4>1. /\ cache.current[u] \in 0..Len(cache.of)
            /\ cache.current[u] # 0 => cache.of[cache.current[u]] = u
        BY <1>2 DEF Placed
      <4>2. 0..Len(cache.of) \subseteq 0..e
        BY <1>3, <1>5
      <4>3. cache.current[u] # 0 => cache.current[u] \in 1..Len(cache.of)
        BY <4>1, <1>3
      <4> QED BY <3>2, <4>1, <4>2, <4>3, <1>4, <1>7, <1>8
    <3> QED BY <3>1, <3>2
  <2>3. C1.attached \cup C1.watching \subseteq Cache!Cached(C1)
    BY <1>2, <1>7, <1>9 DEF Placed
  <2> QED BY <1>2, <1>4, <1>7, <2>1, <2>2, <2>3 DEF Placed, Sound
<1>12. Within(C1) /\ OrderedOn(C1, Cache!Cached(C1) \ {e})
  <2>1. cache.older \subseteq Cache!Cached(cache) \X Cache!Cached(cache)
    BY <1>2 DEF Within
  <2>2. Within(C1)
    BY <2>1, <1>7, <1>9 DEF Within
  <2>3. Cache!Cached(C1) \ {e} = Cache!Cached(cache)
    BY <1>9, <1>10
  <2>4. OrderedOn(cache, Cache!Cached(cache))
    BY <1>2 DEF Sound
  <2>5. OrderedOn(C1, Cache!Cached(cache))
    BY <2>4, <1>7 DEF OrderedOn
  <2> QED BY <2>2, <2>3, <2>5
<1>13. /\ Sound(C2) /\ C2 \in CacheState
       /\ C2.current = C1.current /\ C2.of = C1.of /\ C2.refs = C1.refs /\ C2.timer = C1.timer
       /\ Cache!Cached(C2) = Cache!Cached(C1)
  <2>1. {e} \in SUBSET Nat /\ {e} \in SUBSET Cache!Cached(C1)
    BY <1>3, <1>9
  <2>2. Sound(C2)
    BY <1>7, <1>11, <1>12, <2>1, UsedKeeps
  <2> QED BY <1>7, <2>1, <2>2, UsedIs
<1> HIDE DEF C2
<1>14. /\ Sound(C3) /\ C3 \in CacheState
       /\ C3.current = C1.current /\ C3.of = C1.of /\ C3.refs = C1.refs /\ C3.timer = C1.timer
       /\ Cache!Cached(C3) = Cache!Cached(C1)
  <2>1. e \in Cache!Cached(C2)
    BY <1>9, <1>13
  <2>2. Sound(C3)
    BY <1>13, <2>1, AttachKeeps
  <2>3. /\ C3 \in CacheState
        /\ C3.current = C2.current /\ C3.of = C2.of /\ C3.refs = C2.refs /\ C3.timer = C2.timer
        /\ Cache!Cached(C3) = Cache!Cached(C2)
    BY <1>3, <1>13, AttachOrWatchIs
  <2> QED BY <1>13, <2>2, <2>3
<1> HIDE DEF C3
<1>15. /\ C3.refs[e] = 1
       /\ \A f \in Cache!Entry \ {e} : C3.refs[f] = cache.refs[f]
       /\ \A f \in Cache!Cached(cache) : C3.of[f] = cache.of[f] /\ C3.refs[f] = cache.refs[f]
  <2>1. cache.refs \in [Cache!Entry -> Int]
    BY <1>2 DEF CacheState
  <2>2. C3.refs = [cache.refs EXCEPT ![e] = 1] /\ C3.of = Append(cache.of, t)
    BY <1>7, <1>14
  <2> QED BY <1>1, <1>4, <1>10, <2>1, <2>2
<1>16. Ticking(C3, nonIdle, unreconciled)
  <2>1. Ticking(cache, nonIdle, unreconciled)
    BY DEF CacheInv
  <2>2. C3.timer = cache.timer /\ Cache!Cached(C3) = Cache!Cached(cache) \cup {e}
    BY <1>7, <1>9, <1>14
  <2> QED BY <1>15, <2>1, <2>2 DEF Ticking, Cache!shouldEvict
<1>17. \A u \in known \cap known' : cache.current[u] # 0 => C3.current[u] = cache.current[u]
  <2>1. known \subseteq Thread
    BY DEF CacheInv
  <2> QED BY <1>1, <1>8, <1>14, <2>1
<1>18. /\ Sound(cache') /\ Ticking(cache', nonIdle', unreconciled')
       /\ Small(cache', nonIdle', unreconciled')
       /\ cache'.of = C3.of /\ cache'.refs = C3.refs
       /\ DropsUnused
  <2>1. Ticking(C3, nonIdle', unreconciled') /\ cache' = Cache!EvictToCapacity(C3, nonIdle')
    BY <1>1, <1>16
  <2> QED BY <1>14, <1>15, <1>17, <2>1, EvictStep
<1>19. holds \in [View -> Nat] /\ holds \in [View -> 0..Len(cache.of)]
  BY <1>3 DEF CacheInv
<1>20. holds' \in [View -> 0..Len(cache'.of)]
  <2>1. Len(cache'.of) = e
    BY <1>4, <1>7, <1>14, <1>18
  <2>2. 0..Len(cache.of) \subseteq 0..e /\ e \in 0..e
    BY <1>3, <1>5
  <2> QED BY <1>1, <1>19, <2>1, <2>2
<1>21. \A f \in Cache!Entry : cache'.refs[f] = Cardinality(Holders(holds', f))
  <2>1. \A f \in Cache!Entry : cache.refs[f] = Cardinality(Holders(holds, f))
    BY DEF CacheInv
  <2>2. \A f \in Cache!Entry : f \in Nat \ {0}
    BY DEF Cache!Entry, CacheBounds
  <2>3. /\ Cardinality(Holders(holds', e)) = Cardinality(Holders(holds, e)) + 1
        /\ \A f \in Nat \ {0, e} : Holders(holds', f) = Holders(holds, f)
    <3>1. /\ Cardinality(Holders([holds EXCEPT ![v] = e], e)) = Cardinality(Holders(holds, e)) + 1
          /\ \A f \in Nat \ {0, e} : Holders([holds EXCEPT ![v] = e], f) = Holders(holds, f)
      BY <1>3, <1>19, Retained
    <3> QED BY <1>1, <3>1
  <2>4. Holders(holds, e) = {}
    BY <1>3, <1>5, <1>19 DEF Holders
  <2>5. Cardinality(Holders(holds', e)) = 1
    BY <2>3, <2>4, FS_EmptySet
  <2> QED BY <1>15, <1>18, <2>1, <2>2, <2>3, <2>5
<1> QED BY <1>18, <1>20, <1>21 DEF CacheInv

LEMMA ReleaseKeeps ==
  ASSUME CacheBounds, CacheInv, NEW v \in View, Cache!release(v)
  PROVE  CacheInv' /\ DropsUnused
<1> DEFINE e == holds[v]
           C == [cache EXCEPT !.refs[e] = @ - 1]
           T == IF e \in Cache!Cached(C) THEN Cache!Used(C, {e}) ELSE C
           R == Cache!Reconcile(T, {e}, nonIdle)
<1>1. /\ e # 0 /\ holds' = [holds EXCEPT ![v] = 0]
      /\ cache' = IF C.refs[e] = 0 THEN Cache!EvictToCapacity(R, nonIdle) ELSE T
      /\ UNCHANGED <<connected, known, nonIdle, unreconciled>>
  BY DEF Cache!release, Cache!Touch, Cache!store
<1>2. cache \in CacheState /\ Sound(cache) /\ Len(cache.of) \in Nat /\ Len(cache.of) <= MaxEntries
  BY DEF CacheInv, Sound, CacheState, Placed
<1>3. holds \in [View -> Nat] /\ holds \in [View -> 0..Len(cache.of)]
  BY <1>2 DEF CacheInv
<1>4. e \in Cache!Entry /\ e \in Nat \ {0}
  BY <1>1, <1>2, <1>3 DEF Cache!Entry, CacheBounds
<1>5. e = holds[v]
  OBVIOUS
<1> HIDE DEF e
<1>6. cache.refs[e] - 1 \in Int
  BY <1>2, <1>4 DEF CacheState
<1>7. /\ Sound(C) /\ C \in CacheState
      /\ C.current = cache.current /\ C.of = cache.of /\ C.timer = cache.timer
      /\ C.refs = [cache.refs EXCEPT ![e] = cache.refs[e] - 1]
      /\ Cache!Cached(C) = Cache!Cached(cache)
  BY <1>2, <1>4, <1>6, RefsIs, RefsKeeps
<1> HIDE DEF C
<1>8. /\ Sound(T) /\ T \in CacheState
      /\ T.current = cache.current /\ T.of = cache.of /\ T.timer = cache.timer /\ T.refs = C.refs
      /\ Cache!Cached(T) = Cache!Cached(cache)
  <2>1. CASE e \in Cache!Cached(C)
    <3>1. {e} \in SUBSET Nat /\ {e} \in SUBSET Cache!Cached(C)
      BY <2>1, <1>4
    <3>2. OrderedOn(C, Cache!Cached(C) \ {e})
      BY <1>7 DEF Sound, OrderedOn
    <3>3. Sound(Cache!Used(C, {e}))
      BY <1>7, <3>1, <3>2, UsedKeeps DEF Sound
    <3> QED BY <2>1, <1>7, <3>1, <3>3, UsedIs
  <2>2. CASE e \notin Cache!Cached(C)
    BY <2>2, <1>7
  <2> QED BY <2>1, <2>2
<1> HIDE DEF T
<1>9. /\ C.refs[e] = cache.refs[e] - 1
      /\ \A f \in Cache!Entry \ {e} : C.refs[f] = cache.refs[f]
  BY <1>2, <1>4, <1>7 DEF CacheState
<1>10. \A f \in Cache!Entry : C.refs[f] = Cardinality(Holders(holds', f))
  <2>1. \A f \in Cache!Entry : cache.refs[f] = Cardinality(Holders(holds, f))
    BY DEF CacheInv
  <2>2. \A f \in Cache!Entry : f \in Nat \ {0}
    BY DEF Cache!Entry, CacheBounds
  <2>3. /\ Cardinality(Holders(holds', e)) = Cardinality(Holders(holds, e)) - 1
        /\ \A f \in Nat \ {0, e} : Holders(holds', f) = Holders(holds, f)
    <3>1. /\ Cardinality(Holders([holds EXCEPT ![v] = 0], e)) = Cardinality(Holders(holds, e)) - 1
          /\ \A f \in Nat \ {0, e} : Holders([holds EXCEPT ![v] = 0], f) = Holders(holds, f)
      BY <1>1, <1>3, <1>5, Released
    <3> QED BY <1>1, <3>1
  <2> QED BY <1>4, <1>9, <2>1, <2>2, <2>3
<1>11. holds' \in [View -> 0..Len(cache.of)]
  BY <1>1, <1>2, <1>3
<1>12. \A f \in Cache!Cached(cache) : f \in Cache!Entry
  BY <1>2, CachedIs DEF Sound
<1>13. CASE C.refs[e] = 0
  <2>1. /\ Sound(R)
        /\ R.current = cache.current /\ R.of = cache.of /\ R.refs = C.refs
        /\ \A f \in Cache!Entry :
             R.timer[f] = IF f \notin {e} THEN cache.timer[f]
                          ELSE IF Cache!shouldEvict(T, f, nonIdle) THEN Ttl ELSE -1
        /\ Cache!Cached(R) = Cache!Cached(cache)
    BY <1>8, ReconcileIs, ReconcileKeeps
  <2> HIDE DEF R
  <2>2. Ticking(R, nonIdle, unreconciled)
    <3>1. Ticking(cache, nonIdle, unreconciled)
      BY DEF CacheInv
    <3>2. Ttl # -1
      BY DEF CacheBounds
    <3> QED BY <1>8, <1>9, <1>12, <2>1, <3>1, <3>2 DEF Ticking, Cache!shouldEvict
  <2>3. Ticking(R, nonIdle', unreconciled') /\ cache' = Cache!EvictToCapacity(R, nonIdle')
    BY <1>1, <1>13, <2>2
  <2>4. /\ Sound(cache') /\ Ticking(cache', nonIdle', unreconciled')
        /\ Small(cache', nonIdle', unreconciled')
        /\ cache'.of = R.of /\ cache'.refs = R.refs
        /\ DropsUnused
    BY <2>1, <2>3, EvictStep
  <2> QED BY <1>1, <1>10, <1>11, <2>1, <2>4 DEF CacheInv
<1>14. CASE C.refs[e] # 0
  <2>1. cache' = T
    BY <1>1, <1>14
  <2>2. \A f : Cache!shouldEvict(T, f, nonIdle) => f # e
    BY <1>8, <1>14 DEF Cache!shouldEvict
  <2>3. \A f \in Cache!Cached(T) : Cache!shouldEvict(T, f, nonIdle) => Cache!shouldEvict(cache, f, nonIdle)
    BY <1>8, <1>9, <1>12, <2>2 DEF Cache!shouldEvict
  <2>4. Ticking(T, nonIdle, unreconciled) /\ Small(T, nonIdle, unreconciled)
    BY <1>8, <2>3 DEF CacheInv, Ticking, Small
  <2>5. DropsUnused
    BY <1>8, <2>1 DEF DropsUnused
  <2> QED BY <1>1, <1>8, <1>10, <1>11, <2>1, <2>4, <2>5 DEF CacheInv
<1> QED BY <1>13, <1>14

LEMMA TickKeeps ==
  ASSUME CacheBounds, CacheInv, Cache!Tick
  PROVE  CacheInv' /\ DropsUnused
<1> DEFINE timer == [e \in Cache!Entry |-> IF cache.timer[e] > 0 THEN cache.timer[e] - 1 ELSE cache.timer[e]]
           lost == {IF x.left > 0 THEN [x EXCEPT !.left = @ - 1] ELSE x : x \in cache.lost}
<1>1. cache \in CacheState /\ Sound(cache)
  BY DEF CacheInv, Sound
<1>2. cache' = [cache EXCEPT !.timer = timer, !.lost = lost]
      /\ UNCHANGED <<connected, known, nonIdle, holds, unreconciled>>
  BY <1>1 DEF Cache!Tick, Cache!store, CacheState
<1>3. cache.timer \in [Cache!Entry -> Int] /\ \A e \in Cache!Entry : cache.timer[e] \in -1..Ttl
  BY <1>1 DEF CacheState, Sound
<1>4. timer \in [Cache!Entry -> Int]
      /\ \A e \in Cache!Entry : timer[e] \in -1..Ttl /\ (cache.timer[e] # -1 => timer[e] # -1)
  BY <1>3 DEF CacheBounds
<1>5. lost \in SUBSET [thread : Thread, left : 0..Ttl]
  <2>1. ASSUME NEW x \in [thread : Thread, left : 0..Ttl]
        PROVE  (IF x.left > 0 THEN [x EXCEPT !.left = @ - 1] ELSE x) \in [thread : Thread, left : 0..Ttl]
    BY <2>1 DEF CacheBounds
  <2>2. cache.lost \in SUBSET [thread : Thread, left : 0..Ttl]
    BY <1>1 DEF CacheState
  <2> QED BY <2>1, <2>2
<1> HIDE DEF timer, lost
<1>6. /\ cache' \in CacheState
      /\ cache'.current = cache.current /\ cache'.of = cache.of /\ cache'.refs = cache.refs
      /\ cache'.attached = cache.attached /\ cache'.watching = cache.watching
      /\ cache'.older = cache.older /\ cache'.timer = timer
  BY <1>1, <1>2, <1>4, <1>5 DEF CacheState
<1>7. Cache!Cached(cache') = Cache!Cached(cache)
  BY <1>6 DEF Cache!Cached
<1>8. Sound(cache')
  BY <1>1, <1>4, <1>6, <1>7 DEF Sound, Placed, Within, OrderedOn
<1>9. \A e \in Cache!Cached(cache) : e \in Cache!Entry
  BY <1>1, CachedIs DEF Sound
<1>10. Ticking(cache', nonIdle, unreconciled) /\ Small(cache', nonIdle, unreconciled)
  <2>1. Ticking(cache, nonIdle, unreconciled) /\ Small(cache, nonIdle, unreconciled)
    BY DEF CacheInv
  <2> QED BY <1>4, <1>6, <1>7, <1>9, <2>1 DEF Ticking, Small, Cache!shouldEvict
<1>11. DropsUnused
  BY <1>6 DEF DropsUnused
<1> QED BY <1>2, <1>6, <1>8, <1>10, <1>11, SameRefs DEF CacheInv

(* What a timer does to the entry that the cache has for its thread.       *)
LEMMA EvictCurrentIs ==
  ASSUME CacheBounds, NEW C, Sound(C), NEW t \in Thread
  PROVE  LET D == Cache!EvictCurrent(C, t)
             e == C.current[t]
         IN
         /\ Sound(D)
         /\ D.of = C.of /\ D.refs = C.refs
         /\ Cache!Cached(D) \subseteq Cache!Cached(C)
         /\ \A f \in Cache!Cached(D) :
              Cache!shouldEvict(D, f, nonIdle) => f # e /\ D.timer[f] = C.timer[f]
         /\ \A u \in Thread : D.current[u] # C.current[u] =>
              D.current[u] = 0 /\ Cache!shouldEvict(C, C.current[u], nonIdle)
<1> DEFINE D == Cache!EvictCurrent(C, t)
           e == C.current[t]
<1>0. C \in CacheState
  BY DEF Sound
<1>1. Cache!Cached(C) \subseteq Cache!Entry /\ 0 \notin Cache!Cached(C)
  BY <1>0, CachedIs DEF Sound
<1>2. CASE e = 0
  <2>1. D = C
    BY <1>2 DEF Cache!EvictCurrent
  <2> QED BY <1>1, <1>2, <2>1
<1>3. CASE e # 0 /\ Cache!shouldEvict(C, e, nonIdle)
  <2>1. D = Cache!Dispose(C, {e})
    BY <1>3 DEF Cache!EvictCurrent
  <2>2. /\ \A u \in Thread : D.current[u] = IF C.current[u] \in {e} THEN 0 ELSE C.current[u]
        /\ D.of = C.of /\ D.refs = C.refs
        /\ \A f \in Cache!Entry : D.timer[f] = IF f \in {e} THEN -1 ELSE C.timer[f]
        /\ Cache!Cached(D) = Cache!Cached(C) \ {e}
    BY <1>0, <2>1, DisposeIs, DisposeCached
  <2>3. Sound(D)
    BY <2>1, DisposeKeeps
  <2> HIDE DEF D, e
  <2>4. \A f \in Cache!Cached(D) : f # e /\ D.timer[f] = C.timer[f]
    BY <1>1, <2>2
  <2>5. \A u \in Thread : D.current[u] # C.current[u] =>
              D.current[u] = 0 /\ Cache!shouldEvict(C, C.current[u], nonIdle)
    BY <1>3, <2>2
  <2> QED BY <2>2, <2>3, <2>4, <2>5 DEF D, e
<1>4. CASE e # 0 /\ ~Cache!shouldEvict(C, e, nonIdle)
  <2> DEFINE lost == IF C.timer[e] = -1 THEN C.lost
                     ELSE C.lost \cup {[thread |-> t, left |-> C.timer[e]]}
             timer == [C.timer EXCEPT ![e] = -1]
  <2>1. D = [C EXCEPT !.lost = lost, !.timer = timer]
    BY <1>0, <1>4 DEF Cache!EvictCurrent, Cache!NoTimer, CacheState
  <2>2. e \in Cache!Cached(C) /\ e \in Cache!Entry
    BY <1>1, <1>4 DEF Cache!Cached
  <2>3. C.timer \in [Cache!Entry -> Int] /\ \A f \in Cache!Entry : C.timer[f] \in -1..Ttl
    BY <1>0 DEF CacheState, Sound
  <2>4. /\ timer \in [Cache!Entry -> Int]
        /\ \A f \in Cache!Entry : timer[f] \in -1..Ttl /\ (f # e => timer[f] = C.timer[f])
    BY <2>2, <2>3 DEF CacheBounds
  <2>5. lost \in SUBSET [thread : Thread, left : 0..Ttl]
    <3>1. C.lost \in SUBSET [thread : Thread, left : 0..Ttl]
      BY <1>0 DEF CacheState
    <3>2. C.timer[e] # -1 => C.timer[e] \in 0..Ttl
      BY <2>2, <2>3 DEF CacheBounds
    <3> QED BY <3>1, <3>2
  <2> HIDE DEF D, e, lost, timer
  <2>6. /\ D \in CacheState
        /\ D.current = C.current /\ D.of = C.of /\ D.refs = C.refs
        /\ D.attached = C.attached /\ D.watching = C.watching
        /\ D.older = C.older /\ D.timer = timer
    BY <1>0, <2>1, <2>4, <2>5 DEF CacheState
  <2>7. Cache!Cached(D) = Cache!Cached(C)
    BY <2>6 DEF Cache!Cached
  <2>8. Sound(D)
    BY <2>4, <2>6, <2>7 DEF Sound, Placed, Within, OrderedOn
  <2>9. \A f \in Cache!Cached(D) :
          Cache!shouldEvict(D, f, nonIdle) => f # e /\ D.timer[f] = C.timer[f]
    BY <1>1, <1>4, <2>4, <2>6, <2>7 DEF Cache!shouldEvict
  <2> QED BY <2>6, <2>7, <2>8, <2>9 DEF D, e
<1> QED BY <1>2, <1>3, <1>4

LEMMA TimerFiresKeeps ==
  ASSUME CacheBounds, CacheInv, NEW e \in Cache!Entry, Cache!TimerFires(e)
  PROVE  CacheInv' /\ DropsUnused
<1> DEFINE C == Cache!ClearEviction(cache, e)
           t == cache.of[e]
<1>1. /\ e <= Len(cache.of) /\ cache' = Cache!EvictCurrent(C, t)
      /\ UNCHANGED <<connected, known, nonIdle, holds, unreconciled>>
  BY DEF Cache!TimerFires, Cache!store
<1>2. cache \in CacheState /\ Sound(cache) /\ cache.of \in Seq(Thread) /\ Len(cache.of) \in Nat
  BY SMTT(30) DEF CacheInv, Sound, CacheState
<1>3. t \in Thread
  <2>1. e \in 1..Len(cache.of)
    BY <1>1, <1>2 DEF Cache!Entry, CacheBounds
  <2> QED BY <1>2, <2>1
<1> HIDE DEF t
<1>4. /\ Sound(C) /\ C.current = cache.current /\ C.of = cache.of /\ C.refs = cache.refs
      /\ C.timer = [cache.timer EXCEPT ![e] = -1]
      /\ Cache!Cached(C) = Cache!Cached(cache)
  BY <1>2, ClearIs, ClearKeeps
<1> HIDE DEF C
<1>5. /\ Sound(cache')
      /\ cache'.of = cache.of /\ cache'.refs = cache.refs
      /\ Cache!Cached(cache') \subseteq Cache!Cached(cache)
      /\ \A f \in Cache!Cached(cache') :
           Cache!shouldEvict(cache', f, nonIdle) => f # cache.current[t] /\ cache'.timer[f] = C.timer[f]
      /\ \A u \in Thread : cache'.current[u] # cache.current[u] =>
           cache'.current[u] = 0 /\ Cache!shouldEvict(C, cache.current[u], nonIdle)
  <2>1. /\ Sound(cache')
        /\ cache'.of = C.of /\ cache'.refs = C.refs
        /\ Cache!Cached(cache') \subseteq Cache!Cached(C)
        /\ \A f \in Cache!Cached(cache') :
             Cache!shouldEvict(cache', f, nonIdle) => f # C.current[t] /\ cache'.timer[f] = C.timer[f]
        /\ \A u \in Thread : cache'.current[u] # C.current[u] =>
             cache'.current[u] = 0 /\ Cache!shouldEvict(C, C.current[u], nonIdle)
    <3>1. Sound(C)
      BY <1>4
    <3>2. cache' = Cache!EvictCurrent(C, t)
      BY <1>1
    <3> QED BY <1>3, <3>1, <3>2, EvictCurrentIs
  <2> QED BY <1>4, <2>1
<1>6. /\ \A f \in Cache!Cached(cache) : cache.current[cache.of[f]] = f /\ f \in Cache!Entry
      /\ IsFiniteSet(Cache!Cached(cache))
  BY <1>2, CachedIs DEF Sound
<1>7. \A f \in Cache!Entry : f # e => C.timer[f] = cache.timer[f]
  BY <1>2, <1>4 DEF CacheState
<1>8. Ticking(cache', nonIdle, unreconciled)
  <2>1. Ticking(cache, nonIdle, unreconciled)
    BY DEF CacheInv
  <2>2. ASSUME NEW f \in Cache!Cached(cache'), Cache!shouldEvict(cache', f, nonIdle),
               cache'.of[f] \notin unreconciled
        PROVE  cache'.timer[f] # -1
    <3>1. f # e
      BY <1>5, <1>6, <2>2 DEF t
    <3>2. cache'.timer[f] = cache.timer[f]
      BY <1>5, <1>6, <1>7, <2>2, <3>1
    <3> QED BY <1>5, <2>1, <2>2, <3>2 DEF Ticking, Cache!shouldEvict
  <2> QED BY <2>2 DEF Ticking
<1>9. Small(cache', nonIdle, unreconciled)
  BY <1>5, <1>6, FewerAreSmall DEF CacheInv
<1>10. DropsUnused
  BY <1>1, <1>2, <1>4, <1>5 DEF DropsUnused, Cache!shouldEvict, CacheInv, Sound, Placed
<1> QED BY <1>1, <1>5, <1>8, <1>9, <1>10, SameRefs DEF CacheInv

LEMMA LostTimerFiresKeeps ==
  ASSUME CacheBounds, CacheInv, NEW x \in cache.lost, Cache!LostTimerFires(x)
  PROVE  CacheInv' /\ DropsUnused
<1> DEFINE C == [cache EXCEPT !.lost = @ \ {x}]
           t == x.thread
<1>1. /\ cache' = Cache!EvictCurrent(C, t)
      /\ UNCHANGED <<connected, known, nonIdle, holds, unreconciled>>
  BY DEF Cache!LostTimerFires, Cache!store
<1>2. cache \in CacheState /\ Sound(cache) /\ t \in Thread
  BY DEF CacheInv, Sound, CacheState
<1> HIDE DEF t
<1>3. /\ C \in CacheState
      /\ C.current = cache.current /\ C.of = cache.of /\ C.refs = cache.refs
      /\ C.attached = cache.attached /\ C.watching = cache.watching
      /\ C.older = cache.older /\ C.timer = cache.timer
  BY <1>2 DEF CacheState
<1> HIDE DEF C
<1>4. Cache!Cached(C) = Cache!Cached(cache)
  BY <1>3 DEF Cache!Cached
<1>5. Sound(C)
  BY <1>2, <1>3, <1>4 DEF Sound, Placed, Within, OrderedOn
<1>6. /\ Sound(cache')
      /\ cache'.of = cache.of /\ cache'.refs = cache.refs
      /\ Cache!Cached(cache') \subseteq Cache!Cached(cache)
      /\ \A f \in Cache!Cached(cache') :
           Cache!shouldEvict(cache', f, nonIdle) => cache'.timer[f] = cache.timer[f]
      /\ \A u \in Thread : cache'.current[u] # cache.current[u] =>
           cache'.current[u] = 0 /\ Cache!shouldEvict(C, cache.current[u], nonIdle)
  BY <1>1, <1>2, <1>3, <1>4, <1>5, EvictCurrentIs
<1>7. IsFiniteSet(Cache!Cached(cache))
  BY <1>2, CachedIs DEF Sound
<1>8. Ticking(cache', nonIdle, unreconciled)
  BY <1>6 DEF CacheInv, Ticking, Cache!shouldEvict
<1>9. Small(cache', nonIdle, unreconciled)
  BY <1>6, <1>7, FewerAreSmall DEF CacheInv
<1>10. DropsUnused
  BY <1>1, <1>2, <1>3, <1>6 DEF DropsUnused, Cache!shouldEvict, CacheInv, Sound, Placed
<1> QED BY <1>1, <1>6, <1>8, <1>9, <1>10, SameRefs DEF CacheInv

LEMMA ConnectKeeps ==
  ASSUME CacheBounds, CacheInv, Cache!Connect
  PROVE  CacheInv' /\ DropsUnused
<1> DEFINE es == cache.watching
           C == [cache EXCEPT !.attached = @ \cup cache.watching, !.watching = {}]
           D == Cache!Used(C, es)
<1>1. /\ cache' = D /\ UNCHANGED <<known, nonIdle, holds, unreconciled>>
  BY DEF Cache!Connect, Cache!store
<1>2. cache \in CacheState /\ Sound(cache) /\ es \in SUBSET Nat /\ es \subseteq Cache!Cached(cache)
  BY DEF CacheInv, Sound, CacheState, Placed
<1>3. /\ C \in CacheState
      /\ C.current = cache.current /\ C.of = cache.of /\ C.refs = cache.refs
      /\ C.attached = cache.attached \cup es /\ C.watching = {}
      /\ C.older = cache.older /\ C.timer = cache.timer
  BY <1>2 DEF CacheState
<1> HIDE DEF C, es
<1>4. Cache!Cached(C) = Cache!Cached(cache)
  BY <1>3 DEF Cache!Cached
<1>5. Sound(C)
  <2>1. C.attached \cup C.watching \subseteq Cache!Cached(C)
    BY <1>2, <1>3, <1>4 DEF Sound, Placed
  <2> QED BY <1>2, <1>3, <1>4, <2>1 DEF Sound, Placed, Within, OrderedOn
<1>6. OrderedOn(C, Cache!Cached(C) \ es)
  BY <1>5 DEF Sound, OrderedOn
<1>7. Sound(D)
  <2>1. es \in SUBSET Cache!Cached(C)
    BY <1>2, <1>4
  <2> QED BY <1>5, <1>6, <2>1, UsedKeeps DEF Sound
<1>8. /\ D.current = cache.current /\ D.of = cache.of /\ D.refs = cache.refs /\ D.timer = cache.timer
      /\ Cache!Cached(D) = Cache!Cached(cache)
  BY <1>2, <1>3, <1>4, UsedIs
<1> HIDE DEF D
<1>9. Ticking(D, nonIdle, unreconciled) /\ Small(D, nonIdle, unreconciled)
  BY <1>8 DEF CacheInv, Ticking, Small, Cache!shouldEvict
<1>10. DropsUnused
  BY <1>1, <1>8 DEF DropsUnused
<1> QED BY <1>1, <1>7, <1>8, <1>9, <1>10, SameRefs DEF CacheInv

LEMMA DisconnectKeeps ==
  ASSUME CacheBounds, CacheInv, Cache!Disconnect
  PROVE  CacheInv' /\ DropsUnused
<1> DEFINE D == Cache!Dispose(cache, Cache!Cached(cache))
<1>1. cache' = D /\ ~connected' /\ UNCHANGED <<known, nonIdle, holds, unreconciled>>
  BY DEF Cache!Disconnect, Cache!store
<1>2. Sound(cache) /\ cache \in CacheState /\ Ticking(cache, nonIdle, unreconciled)
      /\ Small(cache, nonIdle, unreconciled)
  BY DEF CacheInv, Sound
<1>3. Sound(D) /\ Ticking(D, nonIdle, unreconciled) /\ Small(D, nonIdle, unreconciled)
  BY <1>2, DisposeKeeps
<1>4. D.of = cache.of /\ D.refs = cache.refs
  BY <1>2, DisposeIs
<1> HIDE DEF D
<1>5. DropsUnused
  BY <1>1 DEF DropsUnused
<1> QED BY <1>1, <1>3, <1>4, <1>5, SameRefs DEF CacheInv

(* A step that looks at es and then evicts.                                *)
LEMMA ReconcileStep ==
  ASSUME CacheBounds, CacheInv, NEW C, Sound(C), NEW es,
         C.of = cache.of, C.refs = cache.refs, UNCHANGED holds,
         cache' = Cache!EvictToCapacity(Cache!Reconcile(C, es, nonIdle'), nonIdle'),
         \A t \in known \cap known' : cache.current[t] # 0 => C.current[t] = cache.current[t],
         \A e \in Cache!Cached(C) \ es :
           Cache!shouldEvict(C, e, nonIdle') /\ C.of[e] \notin unreconciled' => C.timer[e] # -1,
         nonIdle' \subseteq known', known' \subseteq Thread, unreconciled' \subseteq Thread
  PROVE  CacheInv' /\ DropsUnused
<1> DEFINE R == Cache!Reconcile(C, es, nonIdle')
<1>1. C \in CacheState
  BY DEF Sound
<1>2. /\ Sound(R)
      /\ R.current = C.current /\ R.of = cache.of /\ R.refs = cache.refs
      /\ \A e \in Cache!Entry :
           R.timer[e] = IF e \notin es THEN C.timer[e]
                        ELSE IF Cache!shouldEvict(C, e, nonIdle') THEN Ttl ELSE -1
      /\ Cache!Cached(R) = Cache!Cached(C)
  BY <1>1, ReconcileIs, ReconcileKeeps
<1>3. cache' = Cache!EvictToCapacity(R, nonIdle')
  OBVIOUS
<1> HIDE DEF R
<1>4. Ticking(R, nonIdle', unreconciled')
  <2>1. \A e \in Cache!Cached(C) : e \in Cache!Entry
    BY CachedIs DEF Sound
  <2>2. Ttl # -1
    BY DEF CacheBounds
  <2> QED BY <1>2, <2>1, <2>2 DEF Ticking, Cache!shouldEvict
<1>5. /\ Sound(cache') /\ Ticking(cache', nonIdle', unreconciled')
      /\ Small(cache', nonIdle', unreconciled')
      /\ cache'.of = R.of /\ cache'.refs = R.refs
      /\ DropsUnused
  BY <1>2, <1>3, <1>4, EvictStep
<1> QED BY <1>2, <1>5, SameRefs DEF CacheInv

LEMMA ThreadUpsertedKeeps ==
  ASSUME CacheBounds, CacheInv, NEW t \in Thread, NEW busy \in BOOLEAN, Cache!ThreadUpserted(t, busy)
  PROVE  CacheInv' /\ DropsUnused
<1> DEFINE es == {cache.current[t]} \ {0}
<1>1. /\ known' = known \cup {t} /\ nonIdle' = (IF busy THEN nonIdle \cup {t} ELSE nonIdle \ {t})
      /\ cache' = Cache!EvictToCapacity(Cache!Reconcile(cache, es, nonIdle'), nonIdle')
      /\ unreconciled' = unreconciled \ {t} /\ UNCHANGED holds
  BY DEF Cache!ThreadUpserted, Cache!SetBusy
<1>2. nonIdle' \subseteq known' /\ known' \subseteq Thread /\ unreconciled' \subseteq Thread
  BY <1>1 DEF CacheInv
<1>3. Sound(cache)
  BY DEF CacheInv
<1>4. ASSUME NEW e \in Cache!Cached(cache) \ es,
             Cache!shouldEvict(cache, e, nonIdle') /\ cache.of[e] \notin unreconciled'
      PROVE  cache.timer[e] # -1
  <2>1. cache.current[cache.of[e]] = e /\ e # 0
    BY <1>3, <1>4, CachedIs DEF Sound
  <2>2. cache.of[e] # t
    BY <1>4, <2>1
  <2>3. Cache!shouldEvict(cache, e, nonIdle) /\ cache.of[e] \notin unreconciled
    BY <1>1, <1>4, <2>2 DEF Cache!shouldEvict
  <2> QED BY <1>4, <2>3 DEF CacheInv, Ticking
<1> HIDE DEF es
<1> QED BY <1>1, <1>2, <1>3, <1>4, ReconcileStep

LEMMA ThreadDetailEventKeeps ==
  ASSUME CacheBounds, CacheInv, NEW t \in Thread, NEW busy \in BOOLEAN, Cache!ThreadDetailEvent(t, busy)
  PROVE  CacheInv' /\ DropsUnused
<1> DEFINE es == Cache!Cached(cache)
<1>1. /\ t \in known /\ known' = known
      /\ nonIdle' = (IF busy THEN nonIdle \cup {t} ELSE nonIdle \ {t})
      /\ cache' = Cache!EvictToCapacity(Cache!Reconcile(cache, es, nonIdle'), nonIdle')
      /\ unreconciled' = {} /\ UNCHANGED holds
  BY DEF Cache!ThreadDetailEvent, Cache!SetBusy
<1>2. nonIdle' \subseteq known' /\ known' \subseteq Thread /\ unreconciled' \subseteq Thread
  BY <1>1 DEF CacheInv
<1>3. Sound(cache)
  BY DEF CacheInv
<1>4. \A e \in Cache!Cached(cache) \ es :
        Cache!shouldEvict(cache, e, nonIdle') /\ cache.of[e] \notin unreconciled' => cache.timer[e] # -1
  OBVIOUS
<1> HIDE DEF es
<1> QED BY <1>1, <1>2, <1>3, <1>4, ReconcileStep

LEMMA ShellSnapshotKeeps ==
  ASSUME CacheBounds, CacheInv, NEW ts \in SUBSET Thread, NEW busy \in SUBSET Thread,
         Cache!ShellSnapshot(ts, busy)
  PROVE  CacheInv' /\ DropsUnused
<1> DEFINE gone == {cache.current[t] : t \in Thread \ ts} \ {0}
           C == Cache!Dispose(cache, gone)
           es == Cache!Cached(C)
<1>1. /\ busy \subseteq ts /\ known' = ts /\ nonIdle' = busy
      /\ cache' = Cache!EvictToCapacity(Cache!Reconcile(C, es, nonIdle'), nonIdle')
      /\ unreconciled' = {} /\ UNCHANGED holds
  BY DEF Cache!ShellSnapshot
<1>2. nonIdle' \subseteq known' /\ known' \subseteq Thread /\ unreconciled' \subseteq Thread
  BY <1>1
<1>3. Sound(cache) /\ cache \in CacheState /\ known \subseteq Thread
  BY DEF CacheInv, Sound
<1>4. Sound(C) /\ C.of = cache.of /\ C.refs = cache.refs
      /\ \A t \in Thread : C.current[t] = IF cache.current[t] \in gone THEN 0 ELSE cache.current[t]
  <2> HIDE DEF gone
  <2>1. Sound(C)
    BY <1>3, DisposeKeeps
  <2>2. /\ C.of = cache.of /\ C.refs = cache.refs
        /\ \A t \in Thread : C.current[t] = IF cache.current[t] \in gone THEN 0 ELSE cache.current[t]
    BY <1>3, DisposeIs
  <2> QED BY <2>1, <2>2
<1>5. \A t \in known \cap known' : cache.current[t] # 0 => C.current[t] = cache.current[t]
  <2>1. ASSUME NEW t \in ts, cache.current[t] # 0, cache.current[t] \in gone
        PROVE  FALSE
    <3>1. PICK u \in Thread \ ts : cache.current[t] = cache.current[u]
      BY <2>1
    <3>2. cache.of[cache.current[t]] = t /\ cache.of[cache.current[u]] = u
      BY <1>3, <2>1, <3>1 DEF Sound, Placed
    <3> QED BY <3>1, <3>2
  <2> QED BY <1>1, <1>3, <1>4, <2>1
<1>6. \A e \in Cache!Cached(C) \ es :
        Cache!shouldEvict(C, e, nonIdle') /\ C.of[e] \notin unreconciled' => C.timer[e] # -1
  OBVIOUS
<1> HIDE DEF es, C, gone
<1> QED BY <1>1, <1>2, <1>4, <1>5, <1>6, ReconcileStep

LEMMA ThreadRemovedKeeps ==
  ASSUME CacheBounds, CacheInv, NEW t \in Thread, Cache!ThreadRemoved(t)
  PROVE  CacheInv' /\ DropsUnused
<1> DEFINE es == {cache.current[t]} \ {0}
           D == Cache!Dispose(cache, es)
<1>1. /\ known' = known \ {t} /\ nonIdle' = nonIdle \ {t} /\ cache' = D
      /\ unreconciled' = unreconciled \ {t} /\ UNCHANGED holds
  BY DEF Cache!ThreadRemoved
<1>2. nonIdle' \subseteq known' /\ known' \subseteq Thread /\ unreconciled' \subseteq Thread
  BY <1>1 DEF CacheInv
<1>3. Sound(cache) /\ cache \in CacheState
  BY DEF CacheInv, Sound
<1>4. Sound(D) /\ Ticking(D, nonIdle, unreconciled) /\ Small(D, nonIdle, unreconciled)
  BY <1>3, DisposeKeeps DEF CacheInv
<1>5. /\ D.of = cache.of /\ D.refs = cache.refs /\ Cache!Cached(D) = Cache!Cached(cache) \ es
      /\ \A u \in Thread : D.current[u] = IF cache.current[u] \in es THEN 0 ELSE cache.current[u]
  BY <1>3, DisposeIs, DisposeCached
<1> HIDE DEF D
<1>6. \A e \in Cache!Cached(D) : D.of[e] # t
  <2>1. \A e \in Cache!Cached(cache) : cache.current[cache.of[e]] = e /\ e # 0
    BY <1>3, CachedIs DEF Sound
  <2> QED BY <1>5, <2>1
<1>7. Ticking(D, nonIdle', unreconciled') /\ Small(D, nonIdle', unreconciled')
  BY <1>1, <1>4, <1>6 DEF Ticking, Small, Cache!shouldEvict
<1>8. DropsUnused
  <2>1. ASSUME NEW u \in known \cap known', cache.current[u] # 0 PROVE D.current[u] = cache.current[u]
    <3>1. u \in Thread /\ u # t
      BY <1>1, <2>1 DEF CacheInv
    <3>2. cache.of[cache.current[u]] = u /\ (cache.current[t] # 0 => cache.of[cache.current[t]] = t)
      BY <1>3, <2>1, <3>1 DEF Sound, Placed
    <3>3. cache.current[u] \notin es
      BY <2>1, <3>1, <3>2
    <3> QED BY <1>5, <3>1, <3>3
  <2> QED BY <1>1, <2>1 DEF DropsUnused
<1> QED BY <1>1, <1>2, <1>4, <1>5, <1>7, <1>8, SameRefs DEF CacheInv

LEMMA ThreadDetailSnapshotKeeps ==
  ASSUME CacheBounds, CacheInv, NEW t \in Thread, NEW busy \in BOOLEAN,
         Cache!ThreadDetailSnapshot(t, busy)
  PROVE  CacheInv' /\ DropsUnused
<1>1. /\ known' = known \cup {t} /\ nonIdle' = (IF busy THEN nonIdle \cup {t} ELSE nonIdle \ {t})
      /\ cache' = cache /\ unreconciled' = unreconciled \cup {t} /\ UNCHANGED holds
  BY DEF Cache!ThreadDetailSnapshot, Cache!SetBusy
<1>2. nonIdle' \subseteq known' /\ known' \subseteq Thread /\ unreconciled' \subseteq Thread
  BY <1>1 DEF CacheInv
<1>3. Ticking(cache, nonIdle, unreconciled) /\ Small(cache, nonIdle, unreconciled)
  BY DEF CacheInv
<1>4. Ticking(cache, nonIdle', unreconciled') /\ Small(cache, nonIdle', unreconciled')
  BY <1>1, <1>3 DEF Ticking, Small, Cache!shouldEvict
<1>5. DropsUnused
  BY <1>1 DEF DropsUnused
<1> QED BY <1>1, <1>2, <1>4, <1>5, SameRefs DEF CacheInv

-----------------------------------------------------------------------------
LEMMA CacheInit == ASSUME CacheBounds, Cache!Init PROVE CacheInv
<1>1. /\ cache = [current |-> [t \in Thread |-> 0], of |-> <<>>, attached |-> {}, watching |-> {},
                  refs |-> [e \in Cache!Entry |-> 0], timer |-> [e \in Cache!Entry |-> -1],
                  lost |-> {}, older |-> {}]
      /\ known = Thread /\ nonIdle = {} /\ holds = [v \in View |-> 0] /\ unreconciled = {}
  BY DEF Cache!Init, Cache!NoTimer
<1>2. cache \in CacheState
  BY <1>1 DEF CacheState
<1>3. Cache!Cached(cache) = {}
  BY <1>1 DEF Cache!Cached
<1>4. /\ Len(cache.of) = 0 /\ cache.attached = {} /\ cache.watching = {} /\ cache.older = {}
      /\ \A t \in Thread : cache.current[t] = 0
      /\ \A e \in Cache!Entry : cache.timer[e] = -1 /\ cache.refs[e] = 0
  BY <1>1
<1>5. Sound(cache)
  BY <1>2, <1>3, <1>4 DEF Sound, Placed, Within, OrderedOn, CacheBounds
<1>6. \A e \in Cache!Entry : cache.refs[e] = Cardinality(Holders(holds, e))
  <2>1. \A e \in Cache!Entry : e # 0
    BY DEF Cache!Entry, CacheBounds
  <2>2. \A e \in Cache!Entry : Holders(holds, e) = {}
    BY <1>1, <2>1 DEF Holders
  <2> QED BY <1>4, <2>2, FS_EmptySet
<1>7. holds \in [View -> 0..Len(cache.of)]
  BY <1>1, <1>4
<1>8. Ticking(cache, nonIdle, unreconciled) /\ Small(cache, nonIdle, unreconciled)
  BY <1>3 DEF Ticking, Small
<1> QED BY <1>1, <1>5, <1>6, <1>7, <1>8 DEF CacheInv

LEMMA CacheStep ==
  ASSUME CacheBounds, CacheInv, [Cache!Next]_(Cache!vars)
  PROVE  CacheInv' /\ (UNCHANGED Cache!vars \/ DropsUnused)
<1>1. ASSUME NEW v \in View, NEW t \in Thread, Cache!retainThreadDetailSubscription(v, t)
      PROVE  CacheInv' /\ DropsUnused
  BY <1>1, RetainExistingKeeps, RetainNewKeeps DEF Cache!retainThreadDetailSubscription, Cache!store
<1>2. CASE UNCHANGED Cache!vars
  BY <1>2 DEF CacheInv, Cache!vars, Cache!store
<1>3. CASE Cache!Next
  BY <1>1, <1>3, ReleaseKeeps, TickKeeps, TimerFiresKeeps, LostTimerFiresKeeps, ConnectKeeps,
     DisconnectKeeps, ThreadUpsertedKeeps, ThreadDetailEventKeeps, ThreadDetailSnapshotKeeps,
     ThreadRemovedKeeps, ShellSnapshotKeeps DEF Cache!Next
<1> QED BY <1>2, <1>3

LEMMA CacheInvBounds == ASSUME CacheBounds, CacheInv PROVE Cache!CacheIsBounded
<1>1. cache \in CacheState /\ Sound(cache) /\ Placed(cache)
  BY DEF CacheInv, Sound
<1>2. cache.refs \in [Cache!Entry -> 0..Cardinality(View)]
  <2>1. ASSUME NEW e \in Cache!Entry PROVE cache.refs[e] \in 0..Cardinality(View)
    <3>1. cache.refs[e] = Cardinality(Holders(holds, e)) /\ Holders(holds, e) \subseteq View
      BY DEF CacheInv, Holders
    <3>2. /\ Cardinality(Holders(holds, e)) \in Nat /\ Cardinality(View) \in Nat
          /\ Cardinality(Holders(holds, e)) <= Cardinality(View)
      BY <3>1, FS_Subset, FS_CardinalityType DEF CacheBounds
    <3> QED BY <3>1, <3>2
  <2>2. cache.refs \in [Cache!Entry -> Int]
    BY <1>1 DEF CacheState
  <2> QED BY <2>1, <2>2
<1>3. cache.timer \in [Cache!Entry -> -1..Ttl]
  <2>1. cache.timer \in [Cache!Entry -> Int]
    BY <1>1 DEF CacheState
  <2>2. \A e \in Cache!Entry : cache.timer[e] \in -1..Ttl
    BY <1>1 DEF Sound
  <2> QED BY <2>1, <2>2
<1>4. /\ cache.current \in [Thread -> 0..Len(cache.of)]
      /\ cache.of \in Seq(Thread) /\ Len(cache.of) <= MaxEntries
      /\ cache.attached \cup cache.watching \subseteq Cache!Cached(cache)
      /\ \A t \in Thread : cache.current[t] # 0 => cache.of[cache.current[t]] = t
      /\ cache.lost \subseteq [thread : Thread, left : 0..Ttl]
  <2>1. /\ cache.current \in [Thread -> Nat] /\ cache.of \in Seq(Thread)
        /\ cache.lost \subseteq [thread : Thread, left : 0..Ttl]
    BY <1>1 DEF CacheState
  <2>2. /\ Len(cache.of) <= MaxEntries
        /\ cache.attached \cup cache.watching \subseteq Cache!Cached(cache)
        /\ \A t \in Thread :
             cache.current[t] \in 0..Len(cache.of) /\ (cache.current[t] # 0 => cache.of[cache.current[t]] = t)
    BY <1>1 DEF Placed
  <2> QED BY <2>1, <2>2
<1>5. /\ cache.older \subseteq Cache!Cached(cache) \X Cache!Cached(cache)
      /\ OrderedOn(cache, Cache!Cached(cache))
  BY <1>1 DEF Sound, Within
<1>6. Cache!TypeOK
  <2>1. nonIdle \subseteq known /\ known \subseteq Thread /\ unreconciled \subseteq Thread
        /\ holds \in [View -> 0..Len(cache.of)]
    BY DEF CacheInv
  <2>2. Cache!Cardinality(View) = Cardinality(View)
    BY CacheCardinality
  <2> QED BY <1>2, <1>3, <1>4, <1>5, <2>1, <2>2 DEF Cache!TypeOK, Cache!NoTimer, OrderedOn
<1>7. Cache!IdleHasTimer
  BY DEF CacheInv, Ticking, Cache!IdleHasTimer, Cache!NoTimer
<1>8. Cache!WithinCapacity
  BY CacheCardinality DEF CacheInv, Small, Cache!WithinCapacity
<1> QED BY <1>6, <1>7, <1>8 DEF Cache!CacheIsBounded

(* A step of the composition is one of the cache or leaves it.            *)
LEMMA CacheSteps ==
  ASSUME [MCNext]_<<scenario, vars, cacheVars, savedVars>>
  PROVE  [Cache!Next]_(Cache!vars)
BY DEF MCNext, cacheVars, Cache!vars, Cache!store

(* An idle subscription has a timer, and the cache of the client is over   *)
(* its capacity only with subscriptions that may not go                    *)
(* (service.ts, evictIdleThreadDetailSubscriptionsToCapacity), whatever    *)
(* the threads, the views and the capacity are.                            *)
THEOREM CacheStaysBounded ==
  ASSUME CacheBounds PROVE MCSpec => []CacheIsBounded
<1>1. MCInit => CacheInv
  BY CacheInit DEF MCInit, NoViews
<1>2. CacheInv /\ [MCNext]_<<scenario, vars, cacheVars, savedVars>> => CacheInv'
  BY CacheSteps, CacheStep
<1>3. CacheInv => CacheIsBounded
  BY CacheInvBounds DEF CacheIsBounded
<1> QED BY <1>1, <1>2, <1>3, PTL DEF MCSpec

(* What a view retains, and the subscription of a thread at work, is       *)
(* dropped only when the connection or the thread goes, whatever timers    *)
(* run and however full the cache is (retainThreadDetailSubscription).     *)
THEOREM UsedSubscriptionsStay ==
  ASSUME CacheBounds PROVE MCSpec => InUseKept
<1>1. MCInit => CacheInv
  BY CacheInit DEF MCInit, NoViews
<1>2. CacheInv /\ [MCNext]_<<scenario, vars, cacheVars, savedVars>> => CacheInv'
  BY CacheSteps, CacheStep
<1>3. CacheInv /\ [MCNext]_<<scenario, vars, cacheVars, savedVars>> =>
        [\A t \in known \cap known' :
           LET e == cache.current[t]
           IN  e # 0 /\ cache'.current[t] # e /\ connected' =>
                 cache'.refs[e] = 0 /\ t \notin nonIdle']_(Cache!vars)
  BY CacheSteps, CacheStep DEF DropsUnused
<1> QED BY <1>1, <1>2, <1>3, PTL DEF MCSpec, InUseKept, Cache!InUseKept

-----------------------------------------------------------------------------
(* The connection to a server, for any callers and bounds.                 *)
(*                                                                         *)
(* A reconnect must not be let through by a snapshot that came before it.  *)
(* It resets the gate first, so that what matters is kept as FreshFor: as  *)
(* long as the caller has not taken its promise, a gate that is resolved   *)
(* was resolved after the call, and so was the promise it has taken.  That *)
(* sessions are changed one at a time (OneSwap) needs that no caller is in *)
(* the chain twice.                                                        *)

Outcomes == {"pending", "resolved", "rejected"}

Distinct == \A i, j \in 1..Len(chain) : chain[i] = chain[j] => i = j

FreshFor(c) ==
  /\ stage[c] \in {"queued", "closing", "refreshing"} /\ promises[wait] = "resolved"
       => snapshots > since[c]
  /\ stage[c] = "waiting"
       => waitsFor[c] \in 1..wait /\ (promises[waitsFor[c]] = "resolved" => snapshots > since[c])
  /\ stage[c] = "reconnected" => snapshots > since[c]

Fresh == \A c \in Caller : FreshFor(c)

ConnectionInv == TypeOK /\ OneSwap /\ Distinct /\ Fresh

(* What a step may do to the gate: nothing, a new promise, or settle the   *)
(* last one, with a value only when a snapshot comes.                      *)
GateMoves ==
  \/ promises' = promises /\ snapshots' = snapshots
  \/ promises' = reset /\ snapshots' = snapshots
  \/ promises' = Settled("rejected") /\ snapshots' = snapshots
  \/ promises' = Settled("resolved") /\ snapshots' = snapshots + 1

LEMMA GateTypes ==
  ASSUME TypeOK, GateMoves
  PROVE  /\ promises' \in Seq(Outcomes) /\ promises' # << >>
         /\ Len(promises') \in Nat /\ Len(promises) \in Nat \ {0} /\ Len(promises') >= Len(promises)
         /\ snapshots' \in Nat /\ snapshots' >= snapshots
<1> USE DEF TypeOK, Outcomes
<1>1. Len(promises) \in Nat \ {0}
  OBVIOUS
<1>2. CASE promises' = promises
  BY <1>1, <1>2 DEF GateMoves
<1>3. CASE promises' = reset
  <2>1. promises' \in Seq(Outcomes) /\ Len(promises') = Len(promises) + 1
    BY <1>3 DEF reset
  <2>2. promises' # << >>
    BY <1>1, <2>1
  <2> QED BY <1>1, <2>1, <2>2 DEF GateMoves
<1>4. ASSUME NEW o \in {"resolved", "rejected"}, promises' = Settled(o)
      PROVE  promises' \in Seq(Outcomes) /\ Len(promises') = Len(promises)
  <2>1. CASE promises[wait] = "pending"
    <3>1. promises' = [promises EXCEPT ![wait] = o] /\ wait \in 1..Len(promises)
      BY <1>1, <1>4, <2>1 DEF Settled, wait
    <3>2. o \in Outcomes /\ promises \in Seq(Outcomes)
      OBVIOUS
    <3> QED BY <3>1, <3>2
  <2>2. CASE promises[wait] # "pending"
    BY <1>4, <2>2 DEF Settled
  <2> QED BY <2>1, <2>2
<1>5. CASE promises' = Settled("rejected") \/ promises' = Settled("resolved")
  <2>1. promises' \in Seq(Outcomes) /\ Len(promises') = Len(promises)
    BY <1>4, <1>5
  <2>2. promises' # << >>
    BY <1>1, <2>1
  <2> QED BY <1>1, <2>1, <2>2 DEF GateMoves
<1> QED BY <1>2, <1>3, <1>5 DEF GateMoves

(* A caller that does nothing stays fresh, whatever happens to the gate.   *)
LEMMA FreshKept ==
  ASSUME ConnectionInv, GateMoves, NEW c \in Caller,
         stage'[c] = stage[c], waitsFor'[c] = waitsFor[c], since'[c] = since[c]
  PROVE  FreshFor(c)'
<1> USE DEF TypeOK, Outcomes
<1>1. /\ TypeOK /\ FreshFor(c)
      /\ Len(promises) \in Nat \ {0} /\ Len(promises') >= Len(promises) /\ Len(promises') \in Nat
      /\ snapshots \in Nat /\ since[c] \in 0..snapshots /\ snapshots' \in Nat
  BY GateTypes DEF ConnectionInv, Fresh
<1>2. CASE promises' = promises /\ snapshots' = snapshots
  BY <1>1, <1>2 DEF FreshFor, wait
<1>3. CASE promises' = reset /\ snapshots' = snapshots
  <2>1. /\ Len(promises') = Len(promises) + 1 /\ promises'[Len(promises')] = "pending"
        /\ \A i \in 1..Len(promises) : promises'[i] = promises[i]
    BY <1>1, <1>3 DEF reset
  <2> QED BY <1>1, <1>3, <2>1 DEF FreshFor, wait
<1>4. CASE promises' = Settled("rejected") /\ snapshots' = snapshots
  <2>1. /\ Len(promises') = Len(promises)
        /\ \A i \in 1..Len(promises) : promises'[i] = promises[i] \/ promises'[i] = "rejected"
    BY <1>1, <1>4 DEF Settled, wait
  <2>2. wait' = wait /\ wait \in 1..Len(promises)
    BY <2>1, <1>1 DEF wait
  <2>3. \A i \in 1..Len(promises) : promises'[i] = "resolved" => promises[i] = "resolved"
    BY <2>1
  <2>4. promises'[wait'] = "resolved" => promises[wait] = "resolved"
    BY <2>2, <2>3
  <2>5. waitsFor[c] \in 1..wait =>
           (promises'[waitsFor[c]] = "resolved" => promises[waitsFor[c]] = "resolved")
    BY <2>3 DEF wait
  <2>6. snapshots' = snapshots /\ FreshFor(c)
    BY <1>1, <1>4
  <2> QED BY <2>2, <2>4, <2>5, <2>6 DEF FreshFor
<1>5. CASE promises' = Settled("resolved") /\ snapshots' = snapshots + 1
  <2>1. Len(promises') = Len(promises)
    BY <1>1, <1>5 DEF Settled, wait
  <2>2. snapshots' > since'[c]
    BY <1>1, <1>5
  <2> QED BY <1>1, <2>1, <2>2 DEF FreshFor, wait
<1> QED BY <1>2, <1>3, <1>4, <1>5 DEF GateMoves

(* The loop of the subscription and dispose leave the callers alone.       *)
LEMMA LoopInv ==
  ASSUME ConnectionInv, Snapshot \/ Break \/ StreamFails \/ Wake \/ SessionClosed \/ dispose
  PROVE  ConnectionInv'
<1>1. GateMoves /\ UNCHANGED callers /\ UNCHANGED session
  BY DEF Snapshot, Break, StreamFails, Wake, SessionClosed, dispose, Resubscribe, GateMoves
<1>2. OneSwap' /\ Distinct'
  BY <1>1 DEF ConnectionInv, OneSwap, Distinct, callers
<1>3. Fresh'
  BY <1>1, FreshKept DEF Fresh, callers
<1>4. /\ stream' \in {"opening", "live", "asleep", "ended"} /\ streamOn' \in 1..session
      /\ received' \in BOOLEAN /\ disposed' \in BOOLEAN
      /\ breaks' \in 0..MaxBreaks /\ faults' \in 0..MaxFaults
  <2> USE ConnectionAssumption DEF ConnectionInv, TypeOK
  <2>1. CASE Snapshot
    BY <2>1 DEF Snapshot
  <2>2. CASE Break
    BY <2>2 DEF Break
  <2>3. CASE StreamFails
    BY <2>3 DEF StreamFails
  <2>4. CASE Wake
    BY <2>4 DEF Wake, Resubscribe
  <2>5. CASE SessionClosed
    BY <2>5 DEF SessionClosed, Resubscribe
  <2>6. CASE dispose
    BY <2>6 DEF dispose
  <2> QED BY <2>1, <2>2, <2>3, <2>4, <2>5, <2>6
<1>5. /\ promises' \in Seq(Outcomes) /\ promises' # << >>
      /\ Len(promises') \in Nat /\ Len(promises) \in Nat /\ Len(promises') >= Len(promises)
      /\ snapshots' \in Nat /\ snapshots' >= snapshots
  BY <1>1, GateTypes DEF ConnectionInv
<1>6. waitsFor' \in [Caller -> 0..Len(promises')] /\ since' \in [Caller -> 0..snapshots']
  BY <1>1, <1>5 DEF ConnectionInv, TypeOK, callers
<1>7. TypeOK'
  BY <1>1, <1>4, <1>5, <1>6 DEF ConnectionInv, TypeOK, callers, Outcomes
<1> QED BY <1>2, <1>3, <1>7 DEF ConnectionInv

Stages == {"idle", "ensuring", "queued", "closing", "refreshing", "waiting",
           "failing", "bootstrapped", "reconnected", "failed"}

(* A step of one caller: what is left to show of the others follows.       *)
LEMMA CallerStep ==
  ASSUME ConnectionInv, GateMoves, NEW c \in Caller, NEW s \in Stages,
         stage' = [stage EXCEPT ![c] = s],
         waitsFor' \in [Caller -> 0..Len(promises')], since' \in [Caller -> 0..snapshots'],
         \A d \in Caller \ {c} : waitsFor'[d] = waitsFor[d] /\ since'[d] = since[d],
         FreshFor(c)', chain' \in Seq(Caller), session' \in {session, session + 1},
         UNCHANGED << loop, disposed, breaks >>, faults' \in 0..MaxFaults
  PROVE  TypeOK' /\ Fresh'
<1>1. stage' \in [Caller -> Stages]
  BY DEF ConnectionInv, TypeOK, Stages
<1>2. promises' \in Seq(Outcomes) /\ promises' # << >> /\ snapshots' \in Nat
  BY GateTypes DEF ConnectionInv
<1>3. session' \in Nat \ {0} /\ streamOn' \in 1..session'
  BY DEF ConnectionInv, TypeOK, loop
<1>4. TypeOK'
  BY <1>1, <1>2, <1>3 DEF ConnectionInv, TypeOK, loop, Stages, Outcomes
<1>5. \A d \in Caller \ {c} : FreshFor(d)'
  <2> SUFFICES ASSUME NEW d \in Caller \ {c} PROVE FreshFor(d)'
    OBVIOUS
  <2>1. stage'[d] = stage[d]
    BY DEF ConnectionInv, TypeOK
  <2> QED BY <2>1, FreshKept
<1> QED BY <1>4, <1>5 DEF Fresh

(* A caller outside of the chain moves between stages outside of it.       *)
LEMMA ChainKept ==
  ASSUME ConnectionInv, NEW c \in Caller, NEW s \in Stages, stage' = [stage EXCEPT ![c] = s],
         UNCHANGED chain, stage[c] \notin {"queued", "closing"}, s \notin {"queued", "closing"}
  PROVE  OneSwap' /\ Distinct'
BY SMTT(30) DEF ConnectionInv, OneSwap, Distinct, TypeOK, Stages

(* The first of the chain leaves it.                                       *)
LEMMA ChainLeft ==
  ASSUME ConnectionInv, NEW c \in Caller, NEW s \in Stages, stage' = [stage EXCEPT ![c] = s],
         chain' = Tail(chain), stage[c] \in {"queued", "closing"}, Head(chain) = c,
         s \notin {"queued", "closing"},
         \A d \in Caller \ {c} : stage[d] # "closing"
  PROVE  OneSwap' /\ Distinct' /\ chain' \in Seq(Caller)
<1> USE DEF TypeOK
<1>1. \E i \in 1..Len(chain) : chain[i] = c
  BY DEF ConnectionInv, OneSwap
<1>2. chain \in Seq(Caller) /\ Len(chain) \in Nat /\ Len(chain) >= 1
  <2>1. chain \in Seq(Caller)
    BY DEF ConnectionInv
  <2> QED BY <2>1, <1>1
<1>3. chain # << >>
  BY <1>2
<1>4. /\ Len(chain') = Len(chain) - 1 /\ chain' \in Seq(Caller) /\ chain[1] = c
      /\ \A i \in 1..Len(chain') : i + 1 \in 1..Len(chain) /\ chain'[i] = chain[i + 1]
  BY <1>2, <1>3
<1>5. \A i \in 1..Len(chain') : chain'[i] # c
  <2>1. \A i, j \in 1..Len(chain) : chain[i] = chain[j] => i = j
    BY DEF ConnectionInv, Distinct
  <2>2. ASSUME NEW i \in 1..Len(chain'), chain'[i] = c  PROVE FALSE
    <3>1. 1 \in 1..Len(chain) /\ i + 1 \in 1..Len(chain) /\ chain[i + 1] = chain[1]
      BY <1>2, <1>4, <2>2
    <3>2. i + 1 = 1
      BY <2>1, <3>1
    <3> QED BY <3>2
  <2> QED BY <2>2
<1>6. \A d \in Caller \ {c} :
         (\E i \in 1..Len(chain) : chain[i] = d) <=> (\E i \in 1..Len(chain') : chain'[i] = d)
  <2> SUFFICES ASSUME NEW d \in Caller \ {c}
               PROVE (\E i \in 1..Len(chain) : chain[i] = d) <=> (\E i \in 1..Len(chain') : chain'[i] = d)
    OBVIOUS
  <2>1. ASSUME NEW i \in 1..Len(chain), chain[i] = d PROVE \E j \in 1..Len(chain') : chain'[j] = d
    <3>1. i - 1 \in 1..Len(chain') /\ (i - 1) + 1 = i
      BY <2>1, <1>2, <1>4
    <3>2. chain'[i - 1] = chain[(i - 1) + 1]
      BY <3>1, <1>4
    <3> QED BY <3>1, <3>2, <2>1
  <2>2. ASSUME NEW i \in 1..Len(chain'), chain'[i] = d PROVE \E j \in 1..Len(chain) : chain[j] = d
    BY <2>2, <1>4
  <2> QED BY <2>1, <2>2
<1>7. \A d \in Caller : stage'[d] = IF d = c THEN s ELSE stage[d]
  BY DEF ConnectionInv
<1>8. \A d \in Caller : stage'[d] \in {"queued", "closing"} <=> \E i \in 1..Len(chain') : chain'[i] = d
  <2>1. \A d \in Caller \ {c} : stage[d] \in {"queued", "closing"} <=> \E i \in 1..Len(chain) : chain[i] = d
    BY DEF ConnectionInv, OneSwap
  <2>2. \A d \in Caller \ {c} : stage'[d] \in {"queued", "closing"} <=> \E i \in 1..Len(chain') : chain'[i] = d
    BY <2>1, <1>6, <1>7
  <2>3. stage'[c] = s
    BY <1>7
  <2> QED BY <2>2, <2>3, <1>5
<1>9. \A d \in Caller : stage'[d] # "closing"
  BY <1>7
<1>10. Distinct'
  <2> SUFFICES ASSUME NEW i \in 1..Len(chain'), NEW j \in 1..Len(chain'), chain'[i] = chain'[j]
               PROVE  i = j
    BY DEF Distinct
  <2>1. i + 1 = j + 1
    BY <1>4 DEF ConnectionInv, Distinct
  <2> QED BY <2>1
<1> QED BY <1>4, <1>8, <1>9, <1>10 DEF OneSwap

(* reconnect: the gate is reset, and the caller goes to the end of the     *)
(* chain.                                                                  *)
LEMMA ReconnectInv == ASSUME ConnectionInv, NEW c \in Caller, reconnect(c) PROVE ConnectionInv'
<1> USE DEF TypeOK
<1>1. /\ stage[c] = "idle" /\ promises' = reset /\ since' = [since EXCEPT ![c] = snapshots]
      /\ UNCHANGED << session, loop, disposed, waitsFor, snapshots, breaks, faults >>
  BY DEF reconnect
<1>2. GateMoves
  BY <1>1 DEF GateMoves
<1>3. /\ Len(promises') \in Nat /\ Len(promises) \in Nat /\ Len(promises') >= Len(promises)
  BY <1>2, GateTypes DEF ConnectionInv
<1>4. /\ waitsFor' \in [Caller -> 0..Len(promises')] /\ since' \in [Caller -> 0..snapshots']
      /\ \A d \in Caller \ {c} : waitsFor'[d] = waitsFor[d] /\ since'[d] = since[d]
  BY <1>1, <1>3 DEF ConnectionInv
<1>5. promises'[Len(promises')] = "pending"
  BY <1>1 DEF reset, ConnectionInv
<1>6. CASE disposed
  <2>1. stage' = [stage EXCEPT ![c] = "failing"] /\ UNCHANGED chain
    BY <1>6 DEF reconnect
  <2>2. FreshFor(c)'
    BY <2>1 DEF FreshFor, ConnectionInv
  <2>3. OneSwap' /\ Distinct'
    BY <2>1, <1>1, ChainKept DEF Stages
  <2>4. chain' \in Seq(Caller) /\ faults' \in 0..MaxFaults
    BY <2>1, <1>1 DEF ConnectionInv
  <2> QED BY <2>1, <2>2, <2>3, <2>4, <1>1, <1>2, <1>4, CallerStep DEF ConnectionInv, Stages
<1>7. CASE ~disposed
  <2>1. stage' = [stage EXCEPT ![c] = "queued"] /\ chain' = Append(chain, c)
    BY <1>7 DEF reconnect
  <2>2. FreshFor(c)'
    BY <2>1, <1>5 DEF FreshFor, ConnectionInv, wait
  <2>3. /\ chain' \in Seq(Caller) /\ Len(chain) \in Nat /\ Len(chain') = Len(chain) + 1
        /\ chain'[Len(chain) + 1] = c
        /\ \A i \in 1..Len(chain) : chain'[i] = chain[i] /\ chain[i] # c
    <3>1. chain \in Seq(Caller)
      BY DEF ConnectionInv
    <3>2. ~ \E i \in 1..Len(chain) : chain[i] = c
      BY <1>1 DEF ConnectionInv, OneSwap
    <3> QED BY <2>1, <3>1, <3>2
  <2>4. \A i \in 1..Len(chain') : i \in 1..Len(chain) \/ i = Len(chain) + 1
    BY <2>3
  <2>5. Distinct'
    BY <2>3, <2>4 DEF ConnectionInv, Distinct
  <2>6. \A d \in Caller : stage'[d] \in {"queued", "closing"} <=> \E i \in 1..Len(chain') : chain'[i] = d
    <3> SUFFICES ASSUME NEW d \in Caller
                 PROVE stage'[d] \in {"queued", "closing"} <=> \E i \in 1..Len(chain') : chain'[i] = d
      OBVIOUS
    <3>1. CASE d = c
      BY <3>1, <2>1, <2>3 DEF ConnectionInv
    <3>2. CASE d # c
      <4>1. stage'[d] = stage[d]
        BY <3>2, <2>1 DEF ConnectionInv
      <4>2. (\E i \in 1..Len(chain) : chain[i] = d) <=> (\E i \in 1..Len(chain') : chain'[i] = d)
        BY <3>2, <2>3, <2>4
      <4> QED BY <4>1, <4>2 DEF ConnectionInv, OneSwap
    <3> QED BY <3>1, <3>2
  <2>7. \A d \in Caller : stage'[d] = "closing" => Head(chain') = d
    <3> SUFFICES ASSUME NEW d \in Caller, stage'[d] = "closing" PROVE Head(chain') = d
      OBVIOUS
    <3>1. stage[d] = "closing" /\ Head(chain) = d
      BY <2>1 DEF ConnectionInv, OneSwap
    <3>2. 1 \in 1..Len(chain)
      <4>1. \E i \in 1..Len(chain) : chain[i] = d
        BY <3>1 DEF ConnectionInv, OneSwap
      <4> QED BY <4>1, <2>3
    <3>3. Head(chain') = chain'[1] /\ Head(chain) = chain[1]
      BY <2>3, <3>2 DEF ConnectionInv
    <3> QED BY <3>1, <3>2, <3>3, <2>3
  <2>8. OneSwap'
    BY <2>6, <2>7 DEF OneSwap
  <2>9. faults' \in 0..MaxFaults
    BY <1>1 DEF ConnectionInv
  <2> QED BY <2>1, <2>2, <2>3, <2>5, <2>8, <2>9, <1>1, <1>2, <1>4, CallerStep DEF ConnectionInv, Stages
<1> QED BY <1>6, <1>7

(* The caller at the head of the chain changes the session, or fails.      *)
LEMMA SwapSessionInv == ASSUME ConnectionInv, NEW c \in Caller, SwapSession(c) PROVE ConnectionInv'
<1> USE DEF TypeOK
<1>1. /\ stage[c] = "queued" /\ Head(chain) = c
      /\ UNCHANGED << loop, promises, disposed, waitsFor, since, snapshots, breaks, faults >>
  BY DEF SwapSession
<1>2. /\ GateMoves /\ faults' \in 0..MaxFaults
      /\ waitsFor' \in [Caller -> 0..Len(promises')] /\ since' \in [Caller -> 0..snapshots']
      /\ \A d \in Caller \ {c} : waitsFor'[d] = waitsFor[d] /\ since'[d] = since[d]
  BY <1>1 DEF ConnectionInv, GateMoves
<1>3. \A d \in Caller : stage[d] # "closing"
  BY <1>1 DEF ConnectionInv, OneSwap
<1>4. CASE disposed
  <2>1. stage' = [stage EXCEPT ![c] = "failing"] /\ chain' = Tail(chain) /\ session' = session
    BY <1>4 DEF SwapSession
  <2>2. FreshFor(c)'
    BY <2>1 DEF FreshFor, ConnectionInv
  <2>3. OneSwap' /\ Distinct' /\ chain' \in Seq(Caller)
    BY <2>1, <1>1, <1>3, ChainLeft DEF Stages
  <2> QED BY <2>1, <2>2, <2>3, <1>1, <1>2, CallerStep DEF ConnectionInv, Stages
<1>5. CASE ~disposed
  <2>1. stage' = [stage EXCEPT ![c] = "closing"] /\ chain' = chain /\ session' = session + 1
    BY <1>5 DEF SwapSession
  <2>2. FreshFor(c)'
    <3>1. FreshFor(c) /\ stage'[c] = "closing"
      BY <2>1 DEF ConnectionInv, Fresh
    <3> QED BY <3>1, <1>1 DEF FreshFor, wait
  <2>3. OneSwap' /\ Distinct' /\ chain' \in Seq(Caller)
    BY SMTT(30), <2>1, <1>1, <1>3 DEF ConnectionInv, OneSwap, Distinct
  <2> QED BY <2>1, <2>2, <2>3, <1>1, <1>2, CallerStep DEF ConnectionInv, Stages
<1> QED BY <1>4, <1>5

(* The old session is closed, and the next of the chain may go.            *)
LEMMA ClosedInv == ASSUME ConnectionInv, NEW c \in Caller, Closed(c) PROVE ConnectionInv'
<1> USE DEF TypeOK
<1>1. /\ stage[c] = "closing" /\ chain' = Tail(chain) /\ stage' = [stage EXCEPT ![c] = "refreshing"]
      /\ UNCHANGED << session, loop, promises, disposed, waitsFor, since, snapshots, breaks, faults >>
  BY DEF Closed
<1>2. /\ GateMoves /\ faults' \in 0..MaxFaults
      /\ waitsFor' \in [Caller -> 0..Len(promises')] /\ since' \in [Caller -> 0..snapshots']
      /\ \A d \in Caller \ {c} : waitsFor'[d] = waitsFor[d] /\ since'[d] = since[d]
  BY <1>1 DEF ConnectionInv, GateMoves
<1>3. Head(chain) = c /\ \A d \in Caller \ {c} : stage[d] # "closing"
  BY <1>1 DEF ConnectionInv, OneSwap
<1>4. OneSwap' /\ Distinct' /\ chain' \in Seq(Caller)
  BY <1>1, <1>3, ChainLeft DEF Stages
<1>5. FreshFor(c)'
  <2>1. FreshFor(c) /\ stage'[c] = "refreshing"
    BY <1>1 DEF ConnectionInv, Fresh
  <2> QED BY <2>1, <1>1 DEF FreshFor, wait
<1> QED BY <1>1, <1>2, <1>4, <1>5, CallerStep DEF ConnectionInv, Stages

(* The steps outside of the chain: a promise is taken, seen or rejected.   *)
LEMMA OutsideInv ==
  ASSUME ConnectionInv, NEW c \in Caller,
         ensureBootstrapped(c) \/ Refreshed(c) \/ RefreshFails(c) \/ Answered(c) \/ Fail(c)
  PROVE  ConnectionInv'
<1> USE DEF TypeOK
<1>1. /\ UNCHANGED << session, loop, disposed, chain, since, snapshots, breaks >>
      /\ stage[c] \notin {"queued", "closing"}
      /\ GateMoves
  BY DEF ensureBootstrapped, Refreshed, RefreshFails, Answered, Fail, GateMoves
<1>2. PICK s \in Stages : s \notin {"queued", "closing", "refreshing"} /\ stage' = [stage EXCEPT ![c] = s]
  <2>1. CASE Answered(c)
    BY <2>1 DEF Answered, Stages
  <2>2. CASE ~Answered(c)
    BY <2>2 DEF ensureBootstrapped, Refreshed, RefreshFails, Fail, Stages
  <2> QED BY <2>1, <2>2
<1>3. Len(promises') \in Nat /\ Len(promises) \in Nat \ {0} /\ Len(promises') >= Len(promises)
  BY <1>1, GateTypes DEF ConnectionInv
<1>4. /\ waitsFor' \in [Caller -> 0..Len(promises')]
      /\ \A d \in Caller \ {c} : waitsFor'[d] = waitsFor[d]
  <2>1. waitsFor' = waitsFor \/ waitsFor' = [waitsFor EXCEPT ![c] = Len(promises)]
    BY DEF ensureBootstrapped, Refreshed, RefreshFails, Answered, Fail, WaitAtGate, wait
  <2> QED BY <2>1, <1>3 DEF ConnectionInv
<1>5. faults' \in 0..MaxFaults
  BY ConnectionAssumption DEF ConnectionInv, ensureBootstrapped, Refreshed, RefreshFails, Answered, Fail
<1>6. OneSwap' /\ Distinct'
  BY <1>1, <1>2, ChainKept
<1>7. stage'[c] = s /\ FreshFor(c)
  BY <1>2 DEF ConnectionInv, Fresh
<1>8. FreshFor(c)'
  <2>1. CASE Refreshed(c)
    <3>1. /\ stage[c] = "refreshing" /\ s = "waiting" /\ waitsFor'[c] = Len(promises)
          /\ UNCHANGED << promises, since, snapshots >>
      BY <2>1, <1>2 DEF Refreshed, WaitAtGate, wait, ConnectionInv
    <3> QED BY <3>1, <1>7, <1>3 DEF FreshFor, wait
  <2>2. CASE Answered(c)
    <3>1. CASE stage[c] = "waiting" /\ promises[waitsFor[c]] = "resolved"
      <4>1. snapshots > since[c]
        BY <3>1, <1>7 DEF FreshFor
      <4>2. s = "reconnected" /\ UNCHANGED << since, snapshots >>
        BY <2>2, <3>1, <1>2 DEF Answered, ConnectionInv
      <4> QED BY <4>1, <4>2, <1>7 DEF FreshFor
    <3>2. CASE ~(stage[c] = "waiting" /\ promises[waitsFor[c]] = "resolved")
      <4>1. s \in {"bootstrapped", "failing", "failed"}
        BY <2>2, <3>2, <1>2 DEF Answered, ConnectionInv
      <4> QED BY <4>1, <1>7 DEF FreshFor
    <3> QED BY <3>1, <3>2
  <2>3. CASE ensureBootstrapped(c) \/ RefreshFails(c) \/ Fail(c)
    <3>1. s \in {"ensuring", "failing", "failed"}
      BY <2>3, <1>2 DEF ensureBootstrapped, RefreshFails, Fail, ConnectionInv
    <3> QED BY <3>1, <1>7 DEF FreshFor
  <2> QED BY <2>1, <2>2, <2>3
<1>9. /\ since' \in [Caller -> 0..snapshots'] /\ chain' \in Seq(Caller)
      /\ \A d \in Caller \ {c} : since'[d] = since[d]
  BY <1>1 DEF ConnectionInv
<1> QED BY <1>1, <1>2, <1>4, <1>5, <1>6, <1>8, <1>9, CallerStep DEF ConnectionInv

LEMMA InitInv == Init => ConnectionInv
<1> SUFFICES ASSUME Init PROVE ConnectionInv
  OBVIOUS
<1>1. TypeOK
  <2>1. promises \in Seq({"pending", "resolved", "rejected"}) /\ promises # << >> /\ Len(promises) = 1
    BY DEF Init
  <2>2. chain \in Seq(Caller) /\ session \in Nat \ {0} /\ streamOn \in 1..session /\ snapshots \in Nat
    BY DEF Init
  <2>3. waitsFor \in [Caller -> 0..Len(promises)] /\ since \in [Caller -> 0..snapshots]
    BY <2>1, <2>2 DEF Init
  <2>4. breaks \in 0..MaxBreaks /\ faults \in 0..MaxFaults
    BY ConnectionAssumption DEF Init
  <2> QED BY <2>1, <2>2, <2>3, <2>4 DEF Init, TypeOK
<1>2. OneSwap /\ Distinct /\ Fresh
  BY DEF Init, OneSwap, Distinct, Fresh, FreshFor
<1> QED BY <1>1, <1>2 DEF ConnectionInv

LEMMA StepInv == ConnectionInv /\ [Next]_vars => ConnectionInv'
<1> SUFFICES ASSUME ConnectionInv, [Next]_vars PROVE ConnectionInv'
  OBVIOUS
<1>1. CASE Snapshot \/ Break \/ StreamFails \/ Wake \/ SessionClosed \/ dispose
  BY <1>1, LoopInv
<1>2. ASSUME NEW c \in Caller, reconnect(c) PROVE ConnectionInv'
  BY <1>2, ReconnectInv
<1>3. ASSUME NEW c \in Caller, SwapSession(c) PROVE ConnectionInv'
  BY <1>3, SwapSessionInv
<1>4. ASSUME NEW c \in Caller, Closed(c) PROVE ConnectionInv'
  BY <1>4, ClosedInv
<1>5. ASSUME NEW c \in Caller,
             ensureBootstrapped(c) \/ Refreshed(c) \/ RefreshFails(c) \/ Answered(c) \/ Fail(c)
      PROVE ConnectionInv'
  BY <1>5, OutsideInv
<1>6. CASE UNCHANGED vars
  BY <1>6 DEF vars, loop, callers, ConnectionInv, TypeOK, OneSwap, Distinct, Fresh, FreshFor, wait
<1> QED BY <1>1, <1>2, <1>3, <1>4, <1>5, <1>6 DEF Next, Step

LEMMA Invariance == Spec => []ConnectionInv
BY InitInv, StepInv, PTL DEF Spec

(* Every variable of the connection keeps its type.                        *)
THEOREM TypeCorrect == Spec => []TypeOK
<1>1. ConnectionInv => TypeOK
  BY DEF ConnectionInv
<1> QED BY <1>1, Invariance, PTL

(* Sessions are changed one at a time, by the first of the chain.          *)
THEOREM SessionsOneByOne == Spec => []OneSwap
<1>1. ConnectionInv => OneSwap
  BY DEF ConnectionInv
<1> QED BY <1>1, Invariance, PTL

(* A reconnect that returns has seen a snapshot that came after its call,  *)
(* whatever other callers, breaks and failures do meanwhile.               *)
THEOREM ReconnectIsFresh == Spec => []FreshSnapshot
<1>1. ConnectionInv => FreshSnapshot
  BY DEF ConnectionInv, Fresh, FreshFor, FreshSnapshot
<1> QED BY <1>1, Invariance, PTL

(* However reconnects overlap, sessions are changed one by one and a       *)
(* caller goes on only with what came after its call.                      *)
THEOREM ReconnectsAreSafe == Spec => []ReconnectIsSafe
BY TypeCorrect, SessionsOneByOne, ReconnectIsFresh, PTL DEF ReconnectIsSafe
====
