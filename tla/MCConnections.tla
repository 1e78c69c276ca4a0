------------------------------ MODULE MCConnections ------------------------------
(***************************************************************************)
(* The connections of the web client: one environment's connection         *)
(* (EnvironmentConnection), the cache of thread subscriptions              *)
(* (ThreadSubscriptions) and the saved environments (SavedEnvironment).    *)
(* They have no state in common: a behaviour is one of one of them.        *)
(***************************************************************************)
EXTENDS EnvironmentConnection

CONSTANTS
  Thread, View, Ttl, MaxCached, MaxEntries,   \* of ThreadSubscriptions
  Ensures, Adds, Removes, Listed, None        \* of SavedEnvironment

VARIABLES scenario,
  cache, connected, known, nonIdle, holds, unreconciled,
  patient, listed, persisted, token, connection, client, call

cacheVars == <<cache, connected, known, nonIdle, holds, unreconciled>>
savedVars == <<patient, listed, persisted, token, connection, client, call>>

Cache == INSTANCE ThreadSubscriptions
Saved == INSTANCE SavedEnvironment

(* Where another part is looked at, the connection is disposed, no view    *)
(* holds a thread and no call is made.                                     *)
Disposed ==
  /\ session = 1 /\ stream = "ended" /\ streamOn = 1 /\ received = FALSE
  /\ promises = <<"pending">> /\ disposed = TRUE /\ snapshots = 0 /\ breaks = 0 /\ faults = 0
  /\ stage = [c \in Caller |-> "idle"] /\ waitsFor = [c \in Caller |-> 0]
  /\ chain = <<>> /\ since = [c \in Caller |-> 0]

NoCalls == Saved!Init /\ patient
NoViews == Cache!Init /\ connected

MCInit ==
  \/ scenario = "connection" /\ Init /\ NoViews /\ NoCalls
  \/ scenario \in {"views", "again"} /\ Disposed /\ Cache!Init /\ NoCalls
  \/ scenario = "saved" /\ Disposed /\ NoViews /\ Saved!Init

(* Bounds: two views of two threads; one view, whose entries are dropped   *)
(* and made again.                                                         *)
TwoEntries == Len(cache'.of) <= 2
OneView == \A v, w \in View : holds'[v] # 0 /\ holds'[w] # 0 => v = w

(* A user who does not wait makes fewer calls.                             *)
FewCalls == ~patient => call'["e3"] = "new" /\ call'["r2"] = "new"

MCNext ==
  \/ scenario = "connection" /\ Next /\ UNCHANGED <<scenario, cacheVars, savedVars>>
  \/ scenario = "views" /\ Cache!Next /\ TwoEntries /\ UNCHANGED <<scenario, vars, savedVars>>
  \/ scenario = "again" /\ Cache!Next /\ OneView /\ UNCHANGED <<scenario, vars, savedVars>>
  \/ scenario = "saved" /\ Saved!Next /\ FewCalls /\ UNCHANGED <<scenario, vars, cacheVars>>

MCSpec == MCInit /\ [][MCNext]_<<scenario, vars, cacheVars, savedVars>> /\ Fairness

-----------------------------------------------------------------------------
(* threadDetailSubscriptions: an entry that may go has a timer, and the    *)
(* cache is larger than its capacity only for those that may not.          *)
CacheIsBounded == Cache!CacheIsBounded

(* An entry that a view holds stays attached.                              *)
InUseKept == Cache!InUseKept

(* The registered connection of a saved environment is that of an open     *)
(* client, however calls overlap.  With one call at a time: one open       *)
(* client, none for an environment that was removed, a token for those     *)
(* that are listed, and nothing left of an add that failed before it       *)
(* stored the token.                                                       *)
SavedAgrees == Saved!SavedAgrees
=============================================================================
