------------------------------ MODULE CommandLog ------------------------------
(***************************************************************************)
(* What the orchestration engine promises its callers, without the queue,  *)
(* the transaction, the receipts table or the failures: a log to which     *)
(* every command id contributes at most one run of consecutive events, and *)
(* answers that agree with it                                              *)
(* (apps/server/src/orchestration/Services/OrchestrationEngine.ts).        *)
(***************************************************************************)
EXTENDS Integers, Sequences

CONSTANTS
  CommandId,
  Call,          \* calls of dispatch
  CommandIdOf    \* Call -> CommandId

VARIABLES
  log,      \* for every event the id of its command
  decided,  \* CommandId -> "open", "accepted" or "rejected"
  status    \* Call -> how the call stands

vars == << log, decided, status >>

Init ==
  /\ log = << >>
  /\ decided = [id \in CommandId |-> "open"]
  /\ status = [k \in Call |-> "idle"]

Ask(k) ==
  /\ status[k] = "idle"
  /\ status' = [status EXCEPT ![k] = "waiting"]
  /\ UNCHANGED << log, decided >>

\* The events of an undecided command enter the log together.
Accept(id) ==
  /\ decided[id] = "open"
  /\ decided' = [decided EXCEPT ![id] = "accepted"]
  /\ Len(log') > Len(log)
  /\ log' = log \o [i \in 1..(Len(log') - Len(log)) |-> id]
  /\ UNCHANGED status

Reject(id) ==
  /\ decided[id] = "open"
  /\ decided' = [decided EXCEPT ![id] = "rejected"]
  /\ UNCHANGED << log, status >>

\* An answer is true when it is given.  "failed" leaves the caller in doubt.
Answer(k, answer) ==
  /\ status[k] = "waiting"
  /\ answer = "accepted" => decided[CommandIdOf[k]] = "accepted"
  /\ answer = "rejected" => decided[CommandIdOf[k]] # "accepted"
  /\ status' = [status EXCEPT ![k] = answer]
  /\ UNCHANGED << log, decided >>

\* A caller that goes away, or a server that stops with calls waiting.
Lose(ks, answer) ==
  /\ \A k \in ks : status[k] = "waiting"
  /\ status' = [k \in Call |-> IF k \in ks THEN answer ELSE status[k]]
  /\ UNCHANGED << log, decided >>

Next ==
  \/ \E k \in Call : Ask(k) \/ \E answer \in {"accepted", "rejected", "failed"} : Answer(k, answer)
  \/ \E id \in CommandId : Accept(id) \/ Reject(id)
  \/ \E ks \in SUBSET Call, answer \in {"gone", "lost"} : Lose(ks, answer)

Spec == Init /\ [][Next]_vars
=============================================================================
