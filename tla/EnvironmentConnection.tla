------------------------ MODULE EnvironmentConnection ------------------------
(***************************************************************************)
(* The connection of the client to one server                              *)
(* (apps/web/src/environments/runtime/connection.ts, the bootstrap gate    *)
(* and reconnect; apps/web/src/rpc/wsTransport.ts, the sessions and the    *)
(* retry loop of the shell subscription).                                  *)
(*                                                                         *)
(* A gate is a promise: whoever waits for a snapshot of the shell takes    *)
(* the promise of the moment, a snapshot resolves it, and a reset puts a   *)
(* new promise in its place.  Promises are numbered, so that each waiter   *)
(* keeps the one it took.  JavaScript runs one handler at a time: an       *)
(* action is what happens between two awaits.                              *)
(***************************************************************************)
EXTENDS Naturals, Sequences

CONSTANTS
  Caller,      \* the calls of ensureBootstrapped and of reconnect
  MaxBreaks,   \* bound: streams that end with a transport error
  MaxFaults    \* bound: application errors, of the stream or of refreshMetadata

ASSUME ConnectionAssumption == MaxBreaks \in Nat /\ MaxFaults \in Nat

VARIABLES
  session,      \* this.session, numbered
  stream,       \* the loop: "asleep", "ended", or its stream: "opening", "live"
  streamOn,     \* the session the loop has last read
  received,     \* hasReceivedValue
  promises,     \* the promises of the gate: "pending", "resolved", "rejected"
  disposed,
  stage,        \* caller -> how far it is
  waitsFor,     \* caller -> the promise it waits for, 0 for none
  chain,        \* reconnectChain: the callers in transport.reconnect, in order
  snapshots,    \* (history) snapshots that arrived
  since,        \* (history) caller -> the snapshots there were when it called
  breaks, faults

loop == << stream, streamOn, received >>
callers == << stage, waitsFor, chain, since >>
vars == << session, loop, promises, disposed, callers, snapshots, breaks, faults >>

Init ==
  /\ session = 1
  /\ stream = "opening"
  /\ streamOn = 1
  /\ received = FALSE
  /\ promises = << "pending" >>
  /\ disposed = FALSE
  /\ stage = [c \in Caller |-> "idle"]
  /\ waitsFor = [c \in Caller |-> 0]
  /\ chain = << >>
  /\ snapshots = 0
  /\ since = [c \in Caller |-> 0]
  /\ breaks = 0
  /\ faults = 0

-----------------------------------------------------------------------------
(* createBootstrapGate.                                                    *)

wait == Len(promises)

\* resolve and reject do nothing when the promise is settled.
Settled(outcome) ==
  IF promises[wait] = "pending" THEN [promises EXCEPT ![wait] = outcome] ELSE promises

reset == Append(promises, "pending")

-----------------------------------------------------------------------------
(* The loop of WsTransport.subscribe.                                      *)

\* One turn: the hook of a repeated subscription, then a stream on the session.
Resubscribe ==
  /\ stream' = "opening"
  /\ streamOn' = session
  /\ promises' = IF received /\ ~disposed THEN reset ELSE promises
  /\ UNCHANGED received

Running == stream \in {"opening", "live"}

\* The shell subscription starts with a snapshot.
Snapshot ==
  /\ stream = "opening"
  /\ streamOn = session
  /\ stream' = "live"
  /\ received' = TRUE
  /\ promises' = Settled("resolved")
  /\ snapshots' = snapshots + 1
  /\ UNCHANGED << session, streamOn, disposed, callers, breaks, faults >>

\* A transport error: the loop sleeps and goes on.
Break ==
  /\ Running
  /\ streamOn = session
  /\ breaks < MaxBreaks
  /\ breaks' = breaks + 1
  /\ stream' = "asleep"
  /\ UNCHANGED << session, streamOn, received, promises, disposed, callers, snapshots, faults >>

\* Any other error ends the loop.
StreamFails ==
  /\ Running
  /\ streamOn = session
  /\ faults < MaxFaults
  /\ faults' = faults + 1
  /\ stream' = "ended"
  /\ UNCHANGED << session, streamOn, received, promises, disposed, callers, snapshots, breaks >>

Wake ==
  /\ stream = "asleep"
  /\ IF disposed THEN stream' = "ended" /\ UNCHANGED << streamOn, received, promises >>
                 ELSE Resubscribe
  /\ UNCHANGED << session, disposed, callers, snapshots, breaks, faults >>

\* For a mutation: the session is not looked at, so that what the loop gets is
\* an error that is none of the transport.
SessionClosedEnds ==
  /\ Running
  /\ streamOn # session
  /\ stream' = "ended"
  /\ UNCHANGED << streamOn, received, promises, session, disposed, callers, snapshots, breaks, faults >>
\* The stream ends with its session, and the loop goes on at once.
SessionClosed ==
  /\ Running
  /\ streamOn # session
  /\ Resubscribe
  /\ UNCHANGED << session, disposed, callers, snapshots, breaks, faults >>

-----------------------------------------------------------------------------
(* The callers.                                                            *)

WaitAtGate(c) == waitsFor' = [waitsFor EXCEPT ![c] = wait]

ensureBootstrapped(c) ==
  /\ stage[c] = "idle"
  /\ stage' = [stage EXCEPT ![c] = "ensuring"]
  /\ WaitAtGate(c)
  /\ UNCHANGED << session, loop, promises, disposed, chain, since, snapshots, breaks, faults >>

\* For a mutation: the gate is left as it is.
ReconnectWithoutReset(c) ==
  /\ stage[c] = "idle"
  /\ since' = [since EXCEPT ![c] = snapshots]
  /\ IF disposed THEN stage' = [stage EXCEPT ![c] = "failing"] /\ UNCHANGED chain
                 ELSE stage' = [stage EXCEPT ![c] = "queued"] /\ chain' = Append(chain, c)
  /\ UNCHANGED << session, loop, promises, disposed, waitsFor, snapshots, breaks, faults >>
\* reconnect, up to its first await.
reconnect(c) ==
  /\ stage[c] = "idle"
  /\ promises' = reset
  /\ since' = [since EXCEPT ![c] = snapshots]
  /\ IF disposed THEN stage' = [stage EXCEPT ![c] = "failing"] /\ UNCHANGED chain
                 ELSE stage' = [stage EXCEPT ![c] = "queued"] /\ chain' = Append(chain, c)
  /\ UNCHANGED << session, loop, disposed, waitsFor, snapshots, breaks, faults >>

\* WsTransport.reconnect, when the operations before it have ended.
SwapSession(c) ==
  /\ stage[c] = "queued"
  /\ Head(chain) = c
  /\ IF disposed
     THEN /\ stage' = [stage EXCEPT ![c] = "failing"]
          /\ chain' = Tail(chain)
          /\ UNCHANGED session
     ELSE /\ stage' = [stage EXCEPT ![c] = "closing"]
          /\ session' = session + 1
          /\ UNCHANGED chain
  /\ UNCHANGED << loop, promises, disposed, waitsFor, since, snapshots, breaks, faults >>

\* closeSession(previousSession): the streams on it have ended by then.
Closed(c) ==
  /\ stage[c] = "closing"
  /\ Running => streamOn = session
  /\ chain' = Tail(chain)
  /\ stage' = [stage EXCEPT ![c] = "refreshing"]
  /\ UNCHANGED << session, loop, promises, disposed, waitsFor, since, snapshots, breaks, faults >>

\* refreshMetadata has answered (it is absent in the primary connection).
Refreshed(c) ==
  /\ stage[c] = "refreshing"
  /\ stage' = [stage EXCEPT ![c] = "waiting"]
  /\ WaitAtGate(c)
  /\ UNCHANGED << session, loop, promises, disposed, chain, since, snapshots, breaks, faults >>

RefreshFails(c) ==
  /\ stage[c] = "refreshing"
  /\ faults < MaxFaults
  /\ faults' = faults + 1
  /\ stage' = [stage EXCEPT ![c] = "failing"]
  /\ UNCHANGED << session, loop, promises, disposed, waitsFor, chain, since, snapshots, breaks >>

\* The promise the caller took is settled.
Answered(c) ==
  /\ stage[c] \in {"ensuring", "waiting"}
  /\ promises[waitsFor[c]] # "pending"
  /\ stage' = [stage EXCEPT ![c] =
                 IF promises[waitsFor[c]] = "resolved"
                 THEN IF @ = "waiting" THEN "reconnected" ELSE "bootstrapped"
                 ELSE IF @ = "waiting" THEN "failing" ELSE "failed"]
  /\ UNCHANGED << session, loop, promises, disposed, waitsFor, chain, since, snapshots, breaks, faults >>

\* catch: the gate of now is rejected, whoever waits there.
Fail(c) ==
  /\ stage[c] = "failing"
  /\ stage' = [stage EXCEPT ![c] = "failed"]
  /\ promises' = Settled("rejected")
  /\ UNCHANGED << session, loop, disposed, waitsFor, chain, since, snapshots, breaks, faults >>

\* dispose: the subscription is cancelled, the session closed.
dispose ==
  /\ ~disposed
  /\ disposed' = TRUE
  /\ stream' = "ended"
  /\ UNCHANGED << session, streamOn, received, promises, callers, snapshots, breaks, faults >>

-----------------------------------------------------------------------------
Step(c) ==
  \/ SwapSession(c) \/ Closed(c) \/ Refreshed(c) \/ Answered(c) \/ Fail(c)

Next ==
  \/ Snapshot \/ Break \/ StreamFails \/ Wake \/ SessionClosed
  \/ \E c \in Caller : ensureBootstrapped(c) \/ reconnect(c) \/ RefreshFails(c) \/ Step(c)
  \/ dispose

Spec == Init /\ [][Next]_vars

\* A stream that is open sends its snapshot, a timer fires, a promise that is
\* settled is seen.
Fairness ==
  /\ WF_vars(Snapshot)
  /\ WF_vars(Wake)
  /\ WF_vars(SessionClosed)
  /\ \A c \in Caller : WF_vars(Step(c))

-----------------------------------------------------------------------------
\* Types of the state.
TypeOK ==
  /\ session \in Nat \ {0}
  /\ stream \in {"opening", "live", "asleep", "ended"}
  /\ streamOn \in 1..session
  /\ received \in BOOLEAN
  /\ promises \in Seq({"pending", "resolved", "rejected"}) /\ promises # << >>
  /\ disposed \in BOOLEAN
  /\ stage \in [Caller -> {"idle", "ensuring", "queued", "closing", "refreshing", "waiting",
                           "failing", "bootstrapped", "reconnected", "failed"}]
  /\ waitsFor \in [Caller -> 0..Len(promises)]
  /\ chain \in Seq(Caller)
  /\ snapshots \in Nat
  /\ since \in [Caller -> 0..snapshots]
  /\ breaks \in 0..MaxBreaks
  /\ faults \in 0..MaxFaults

\* Sessions are changed one at a time: the callers in transport.reconnect are
\* those in the chain, and only the first of them closes a session.
OneSwap ==
  /\ \A c \in Caller : stage[c] \in {"queued", "closing"} <=> \E i \in 1..Len(chain) : chain[i] = c
  /\ \A c \in Caller : stage[c] = "closing" => Head(chain) = c

\* A reconnect that returns has seen a snapshot that came after its call: the
\* gate that an earlier snapshot opened does not let it pass.
FreshSnapshot ==
  \A c \in Caller : stage[c] = "reconnected" => snapshots > since[c]

\* However reconnects overlap, sessions are changed one by one and a caller
\* goes on only with what came after its call.
ReconnectIsSafe == TypeOK /\ OneSwap /\ FreshSnapshot

\* However sessions are changed and streams break, the subscription is in the
\* end live on the session of the transport, unless it ended with an error of
\* its own.
EndsOnTheSession ==
  <>[]((stream = "ended" /\ faults > 0) \/ disposed \/ (stream = "live" /\ streamOn = session))
=============================================================================
