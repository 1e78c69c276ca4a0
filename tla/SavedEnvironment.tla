----------------------------- MODULE SavedEnvironment -----------------------------
(***************************************************************************)
(* One saved environment of the client (environments/runtime/service.ts,   *)
(* catalog.ts): its record in the store and on disk, its token, and the    *)
(* registry of connections, under calls that add, remove and reconnect it. *)
(* Every change of the store starts a sync of the connections.  JavaScript *)
(* runs one call at a time; a step here ends where a call awaits.  Local   *)
(* persistence answers in the order it is asked, and a write to it counts  *)
(* as done at once.                                                        *)
(***************************************************************************)
EXTENDS Naturals, FiniteSets

CONSTANTS
  Ensures,   \* calls of ensureSavedEnvironmentConnection, by a sync or a user
  Adds, Removes,  \* calls of addSavedEnvironment, removeSavedEnvironment
  Listed,    \* whether the environment is saved at the start
  None

Clients == Ensures \cup Adds   \* the client that a call creates, by the call

VARIABLES
  patient,     \* whether the user waits until all is at rest, and nothing of other
               \* environments changes meanwhile; never changes
  listed,      \* the record is in the store
  persisted,   \* the record is in the registry on disk
  token,       \* the token is stored
  connection,  \* environmentConnections: the registered client, or None
  client,      \* client -> "none", "open", "disposed"
  call         \* call -> how far it is

vars == <<patient, listed, persisted, token, connection, client, call>>

Calls == Ensures \cup Adds \cup Removes

TypeOK ==
  /\ patient \in BOOLEAN
  /\ listed \in BOOLEAN /\ persisted \in BOOLEAN /\ token \in BOOLEAN
  /\ connection \in Clients \cup {None}
  /\ client \in [Clients -> {"none", "open", "disposed"}]
  /\ call \in [Calls -> {"new", "fetching", "pairing", "writing", "reading", "token", "no token",
                         "refreshing", "failing", "removing", "failed", "done"}]

Resting == {"new", "failed", "done"}
AtRest == \A c \in Calls : call[c] \in Resting

Init ==
  /\ patient \in BOOLEAN
  /\ listed = Listed /\ persisted = Listed /\ token = Listed
  /\ connection = None
  /\ client = [c \in Clients |-> "none"]
  /\ call = [c \in Calls |-> IF c = (CHOOSE e \in Ensures : TRUE) /\ Listed THEN "reading" ELSE "new"]

(* The user begins something. *)
Begins(c) == call[c] = "new" /\ (patient => AtRest)

-----------------------------------------------------------------------------

(* removeConnection, if there is a connection.                             *)
Disconnect ==
  /\ client' = [c \in Clients |-> IF c = connection THEN "disposed" ELSE client[c]]
  /\ connection' = None

(* syncSavedEnvironmentConnections with the environment in the list: a     *)
(* call that ensures the connection, if there is none.                     *)
Sync(calls) ==
  IF connection' # None THEN call' = calls
  ELSE \E e \in Ensures : calls[e] = "new" /\ call' = [calls EXCEPT ![e] = "reading"]

(* The registry changes for another environment, at any time: the sync     *)
(* ensures a connection of one that is listed, and disconnects one that is *)
(* not listed yet.                                                         *)
StoreChanges ==
  /\ patient => AtRest
  /\ UNCHANGED <<listed, persisted, token>>
  /\ \/ /\ listed /\ connection = None
        /\ UNCHANGED <<connection, client>>
        /\ Sync(call)
     \/ /\ ~listed /\ connection # None
        /\ Disconnect
        /\ UNCHANGED call

(* ensureSavedEnvironmentConnection, for a user who reconnects.            *)
Reconnect(e) ==
  /\ Begins(e) /\ listed /\ connection = None
  /\ call' = [call EXCEPT ![e] = "reading"]
  /\ UNCHANGED <<listed, persisted, token, connection, client>>

ReadToken(e) ==
  /\ call[e] = "reading"
  /\ call' = [call EXCEPT ![e] = IF token THEN "token" ELSE "no token"]
  /\ UNCHANGED <<listed, persisted, token, connection, client>>

NoToken(e) ==
  /\ call[e] = "no token"
  /\ call' = [call EXCEPT ![e] = "failed"]
  /\ UNCHANGED <<listed, persisted, token, connection, client>>

(* A client and its subscriptions are made; then registerConnection throws *)
(* if there is a connection by now.                                        *)
Connect(c) ==
  /\ client' = [client EXCEPT ![c] = "open"]
  /\ IF connection = None
     THEN connection' = c /\ call' = [call EXCEPT ![c] = "refreshing"]
     ELSE call' = [call EXCEPT ![c] = "failed"] /\ UNCHANGED connection

HasToken(e) ==
  /\ call[e] = "token"
  /\ Connect(e)
  /\ UNCHANGED <<listed, persisted, token>>

(* refreshSavedEnvironmentMetadata has answered; an add enters the record  *)
(* in the store then.                                                      *)
Refreshed(c) ==
  /\ call[c] = "refreshing"
  /\ UNCHANGED <<token, connection, client>>
  /\ IF c \in Adds
     THEN listed' = TRUE /\ persisted' = TRUE /\ Sync([call EXCEPT ![c] = "done"])
     ELSE call' = [call EXCEPT ![c] = "done"] /\ UNCHANGED <<listed, persisted>>

(* For a mutation: a failure leaves the connection registered. *)
RefreshFailsOpen(c) ==
  /\ call[c] = "refreshing"
  /\ client' = [client EXCEPT ![c] = "disposed"]
  /\ call' = [call EXCEPT ![c] = "failed"]
  /\ UNCHANGED <<listed, persisted, token, connection>>

(* It fails, as it does on a client that is disposed: the connection of    *)
(* the environment is removed.                                             *)
RefreshFails(c) ==
  /\ call[c] = "refreshing"
  /\ Disconnect
  /\ call' = [call EXCEPT ![c] = "failed"]
  /\ UNCHANGED <<listed, persisted, token>>

-----------------------------------------------------------------------------
(* removeSavedEnvironment: the record goes, and the sync disconnects; then *)
(* the token; then it disconnects again.                                   *)
Remove(r) ==
  /\ Begins(r) /\ listed
  /\ listed' = FALSE /\ persisted' = FALSE
  /\ Disconnect
  /\ call' = [call EXCEPT ![r] = "removing"]
  /\ UNCHANGED token

RemoveToken(r) ==
  /\ call[r] = "removing"
  /\ token' = FALSE
  /\ Disconnect
  /\ call' = [call EXCEPT ![r] = "done"]
  /\ UNCHANGED <<listed, persisted>>

-----------------------------------------------------------------------------
(* addSavedEnvironment: the descriptor is fetched.                         *)
Add(a) ==
  /\ Begins(a)
  /\ call' = [call EXCEPT ![a] = "fetching"]
  /\ UNCHANGED <<listed, persisted, token, connection, client>>

Fetched(a) ==
  /\ call[a] = "fetching"
  /\ \/ call' = [call EXCEPT ![a] = "failed"]
     \/ connection = None /\ call' = [call EXCEPT ![a] = "pairing"]
  /\ UNCHANGED <<listed, persisted, token, connection, client>>

(* The pairing gives a token, and the record is persisted.                 *)
Paired(a) ==
  /\ call[a] = "pairing"
  /\ \/ call' = [call EXCEPT ![a] = "failed"] /\ UNCHANGED persisted
     \/ call' = [call EXCEPT ![a] = "writing"] /\ persisted' = TRUE
  /\ UNCHANGED <<listed, token, connection, client>>

(* The token cannot be stored: the registry is written as the store has it. *)
TokenNotWritten(a) ==
  /\ call[a] = "writing"
  /\ persisted' = listed
  /\ call' = [call EXCEPT ![a] = "failed"]
  /\ UNCHANGED <<listed, token, connection, client>>

(* The token is stored, and the connection ensured without an await.       *)
TokenWritten(a) ==
  /\ call[a] = "writing"
  /\ token' = TRUE
  /\ IF connection = None
     THEN Connect(a) /\ UNCHANGED <<listed, persisted>>
     ELSE /\ listed' = TRUE /\ persisted' = TRUE
          /\ call' = [call EXCEPT ![a] = "done"]
          /\ UNCHANGED <<connection, client>>

-----------------------------------------------------------------------------
Next ==
  /\ UNCHANGED patient
  /\ \/ StoreChanges
     \/ \E e \in Ensures : Reconnect(e) \/ ReadToken(e) \/ NoToken(e) \/ HasToken(e)
     \/ \E c \in Clients : Refreshed(c) \/ RefreshFails(c)
     \/ \E r \in Removes : Remove(r) \/ RemoveToken(r)
     \/ \E a \in Adds : Add(a) \/ Fetched(a) \/ Paired(a) \/ TokenNotWritten(a) \/ TokenWritten(a)

Spec == Init /\ [][Next]_vars

-----------------------------------------------------------------------------
(* Properties *)

(* The registered connection is that of a client that is not disposed,     *)
(* however calls overlap (removeConnection unregisters before it disposes). *)
RegisteredIsOpen == connection # None => client[connection] = "open"

(* A client that was registered is open only while it is, whoever removes  *)
(* its connection: only one whose registration was refused stays open      *)
(* (ensureSavedEnvironmentConnection).                                     *)
OnlyRefusedStay == \A c \in Clients : client[c] = "open" => c = connection \/ call[c] = "failed"

(* There is one open client at most, the one that is registered            *)
(* (registerConnection).                                                   *)
OneClient == \A c \in Clients : client[c] = "open" => c = connection

(* At rest, an environment that is not in the store is not connected       *)
(* (removeSavedEnvironment, syncSavedEnvironmentConnections).              *)
RemovedIsGone == AtRest /\ ~listed => connection = None

(* An environment that was removed leaves no token, and one that is listed *)
(* has one, at rest and as long as no add has failed after its pairing.    *)
TokenIsListed ==
  AtRest /\ (\A a \in Adds : call[a] # "failed") => token = listed

(* The same for the record, for adds that do not fail after they stored    *)
(* the token: what they had persisted is rolled back.                      *)
FailedAddIsRolledBack ==
  AtRest /\ (\A a \in Adds : call[a] = "failed" => client[a] = "none") => persisted = listed

(* What the registry, the store, the disk and the clients say of the       *)
(* environment: the first two hold however calls and changes overlap, the  *)
(* others when each waits for what is under way.                           *)
SavedAgrees ==
  /\ TypeOK /\ RegisteredIsOpen /\ OnlyRefusedStay
  /\ patient => OneClient /\ RemovedIsGone /\ TokenIsListed /\ FailedAddIsRolledBack
=============================================================================
