---------------------- MODULE OrchestrationEngine_proofs ----------------------
(***************************************************************************)
(* Proofs about the orchestration engine, for every set of commands and    *)
(* calls, every database fault and any number of stops of the server.      *)
(*                                                                         *)
(* What the decider and the projector compute stays closed: the proofs use *)
(* that the transaction appends the decided batch, not what is in it.      *)
(***************************************************************************)
EXTENDS OrchestrationEngine, SequenceTheorems, TLAPS

(***************************************************************************)
(* Sequences whose elements have no declared type.                         *)
(***************************************************************************)
IsSeq(s) == \E S : s \in Seq(S)

LEMMA LenOfSeq ==
  ASSUME NEW s, IsSeq(s)
  PROVE  Len(s) \in Nat /\ DOMAIN s = 1..Len(s)
<1>1. PICK S : s \in Seq(S)  BY DEF IsSeq
<1> QED  BY <1>1, LenProperties

LEMMA EmptyIsSeq == IsSeq(<< >>) /\ Len(<< >>) = 0
<1>1. << >> \in Seq({}) /\ Len(<< >>) = 0  BY EmptySeq
<1> QED  BY <1>1 DEF IsSeq

LEMMA AppendOfSeq ==
  ASSUME NEW s, NEW e, IsSeq(s)
  PROVE  /\ IsSeq(Append(s, e))
         /\ Len(Append(s, e)) = Len(s) + 1
         /\ \A i \in 1..Len(s) : Append(s, e)[i] = s[i]
         /\ Append(s, e)[Len(s) + 1] = e
<1>1. PICK S : s \in Seq(S)  BY DEF IsSeq
<1> DEFINE T == S \cup {e}
<1>2. s \in Seq(T) /\ e \in T  BY <1>1, SeqMonotonic
<1> HIDE DEF T
<1>3. Append(s, e) \in Seq(T)  BY <1>2, AppendProperties
<1> QED  BY <1>2, <1>3, AppendProperties, LenProperties DEF IsSeq

LEMMA ConcatOfSeq ==
  ASSUME NEW s, NEW t, IsSeq(s), IsSeq(t)
  PROVE  /\ IsSeq(s \o t)
         /\ Len(s \o t) = Len(s) + Len(t)
         /\ \A i \in 1..(Len(s) + Len(t)) :
              (s \o t)[i] = IF i <= Len(s) THEN s[i] ELSE t[i - Len(s)]
<1>1. PICK S : s \in Seq(S)  BY DEF IsSeq
<1>2. PICK T : t \in Seq(T)  BY DEF IsSeq
<1> DEFINE U == S \cup T
<1>3. s \in Seq(U) /\ t \in Seq(U)  BY <1>1, <1>2, SeqMonotonic
<1> HIDE DEF U
<1>4. s \o t \in Seq(U)  BY <1>3, ConcatProperties
<1> QED  BY <1>3, <1>4, ConcatProperties DEF IsSeq

\* A sequence is empty exactly when its length is 0.
LEMMA EmptyOrNot ==
  ASSUME NEW s, IsSeq(s)
  PROVE  s # << >> <=> Len(s) > 0
<1>1. PICK S : s \in Seq(S)  BY DEF IsSeq
<1> QED  BY <1>1, EmptySeq, LenProperties

\* The part of s from m to n, when it lies in s.
LEMMA SubSeqOfSeq ==
  ASSUME NEW s, IsSeq(s), NEW m \in Nat \ {0}, NEW n \in Nat, n <= Len(s)
  PROVE  /\ IsSeq(SubSeq(s, m, n))
         /\ Len(SubSeq(s, m, n)) = IF m <= n THEN n - m + 1 ELSE 0
<1>1. PICK S : s \in Seq(S)  BY DEF IsSeq
<1>2. \A i \in m..n : s[i] \in S  BY <1>1, LenProperties
<1> QED  BY <1>2, SubSeqProperties DEF IsSeq

LEMMA MinOfTwo ==
  ASSUME NEW a \in Int, NEW b \in Int
  PROVE  Min({a, b}) = IF a <= b THEN a ELSE b
<1> DEFINE m == IF a <= b THEN a ELSE b
<1>1. m \in {a, b} /\ \A y \in {a, b} : m <= y  OBVIOUS
<1>2. \A x \in {a, b} : (\A y \in {a, b} : x <= y) => x = m  OBVIOUS
<1> QED  BY <1>1, <1>2 DEF Min

(***************************************************************************)
(* The inductive invariant: types, what an open transaction holds, what    *)
(* the answer in hand says, and what log and receipts say of each other.   *)
(***************************************************************************)
Typed ==
  /\ TypeOK
  /\ IsSeq(log) /\ IsSeq(saved)
  /\ outbox \in Seq(Nat) /\ published \in Seq(Nat)

\* The transaction holds a prefix of what was decided of the current read model.
TransactionInv ==
  phase = "transaction" =>
    /\ Id \notin DOMAIN receipts
    /\ Allowed(readModel, CommandOf[Id])
    /\ batch = DecidedEvents(readModel, CommandOf[Id])
    /\ \A i \in 1..Len(saved) : saved[i] = [commandId |-> Id, event |-> batch[i]]

\* The answer that the worker is about to give is true.
AnswerInv ==
  /\ phase \in {"committed", "publishing"} => outcome.status = "accepted"
  /\ phase \in {"failed", "reconciled"} => outcome.status \in {"rejected", "failed"}
  /\ phase = "replying" => outcome.status # "none"
  /\ phase \in {"committed", "publishing", "replying"} /\ outcome.status = "accepted" =>
       /\ Id \in DOMAIN receipts
       /\ receipts[Id] = [status |-> "accepted", resultSequence |-> outcome.sequence]
  /\ phase \in {"failed", "reconciled"} /\ outcome.status = "rejected" => Id \notin DOMAIN receipts
  /\ phase = "replying" /\ outcome.status = "rejected" /\ Id \in DOMAIN receipts =>
       receipts[Id].status = "rejected"

Increasing(s) == \A i, j \in 1..Len(s) : i < j => s[i] < s[j]

\* The read model is at most as far as the log, and what is published or about
\* to be published lies between the start of the server and the read model.
StreamInv ==
  /\ firstSequence <= snapshotSequence /\ snapshotSequence <= Len(log)
  /\ phase \in {"received", "transaction", "committed", "failed"} =>
       dispatchStart = snapshotSequence
  /\ phase = "committed" =>
       /\ Len(batch) \in Nat /\ snapshotSequence + Len(batch) <= Len(log)
       /\ outcome.sequence = Len(log)
  /\ phase \notin {"publishing", "reconciled"} => outbox = << >>
  /\ Increasing(published) /\ Increasing(outbox)
  /\ \A i \in 1..Len(published) :
       firstSequence < published[i] /\ published[i] <= snapshotSequence
  /\ \A i \in 1..Len(outbox) : firstSequence < outbox[i] /\ outbox[i] <= snapshotSequence
  /\ \A i \in 1..Len(published), j \in 1..Len(outbox) : published[i] < outbox[j]

Inv == Typed /\ TransactionInv /\ AnswerInv /\ StreamInv /\ AtMostOnce /\ AcceptedIsTrue

LEMMA IdIsCommand == TypeOK => Id \in CommandId
BY EngineAssumption DEF TypeOK, Id

\* What the commit does to the log and the receipts.
LEMMA CommittedStep ==
  ASSUME Typed, TransactionInv, Committed
  PROVE  /\ IsSeq(log') /\ Len(log) \in Nat
         /\ Len(log') \in Nat /\ Len(log') = Len(log) + Len(saved) /\ Len(log') > Len(log)
         /\ Len(saved) = Len(batch)
         /\ \A i \in 1..Len(log) : log'[i] = log[i]
         /\ \A i \in (Len(log) + 1)..Len(log') :
              log'[i] = [commandId |-> Id, event |-> batch[i - Len(log)]]
         /\ Id \in CommandId \ DOMAIN receipts
         /\ DOMAIN receipts' = DOMAIN receipts \cup {Id}
         /\ receipts'[Id] = [status |-> "accepted", resultSequence |-> Len(log')]
         /\ \A id \in DOMAIN receipts : receipts'[id] = receipts[id]
<1>1. IsSeq(log) /\ IsSeq(saved)  BY DEF Typed
<1>2. Len(log) \in Nat /\ Len(saved) \in Nat  BY <1>1, LenOfSeq
<1>3. log' = log \o saved  BY DEF Committed
<1>4. /\ IsSeq(log') /\ Len(log') = Len(log) + Len(saved)
      /\ \A i \in 1..(Len(log) + Len(saved)) :
           log'[i] = IF i <= Len(log) THEN log[i] ELSE saved[i - Len(log)]
  BY <1>1, <1>3, ConcatOfSeq
<1>5. Len(saved) > 0 /\ Len(saved) = Len(batch)
  BY <1>1, EmptyOrNot DEF Committed, AllSaved
<1>6. \A i \in 1..Len(saved) : saved[i] = [commandId |-> Id, event |-> batch[i]]
  BY DEF TransactionInv, Committed
<1>7. \A i \in (Len(log) + 1)..Len(log') :
        log'[i] = [commandId |-> Id, event |-> batch[i - Len(log)]]
  <2> TAKE i \in (Len(log) + 1)..Len(log')
  <2>1. i \in 1..(Len(log) + Len(saved)) /\ ~(i <= Len(log)) /\ i - Len(log) \in 1..Len(saved)
    BY <1>2, <1>4
  <2> QED  BY <2>1, <1>4, <1>6
<1>8. \A i \in 1..Len(log) : log'[i] = log[i]  BY <1>2, <1>4
<1>9. Id \in CommandId \ DOMAIN receipts
  BY IdIsCommand DEF Typed, TransactionInv, Committed
<1>10. /\ DOMAIN receipts' = DOMAIN receipts \cup {Id}
       /\ receipts'[Id] = [status |-> "accepted", resultSequence |-> Len(log')]
       /\ \A id \in DOMAIN receipts : receipts'[id] = receipts[id]
  BY <1>4, <1>9 DEF Committed, WithReceipt
<1>11. Len(log') \in Nat /\ Len(log') > Len(log)  BY <1>2, <1>4, <1>5
<1> QED  BY <1>2, <1>4, <1>5, <1>7, <1>8, <1>9, <1>10, <1>11, Zenon

(***************************************************************************)
(* Types are preserved.                                                    *)
(***************************************************************************)
\* What reconcileReadModelAfterDispatchFailure reads has a length.
LEMMA PersistedSinceLength ==
  ASSUME Typed
  PROVE  /\ IsSeq(PersistedSince) /\ Len(PersistedSince) \in Nat
         /\ dispatchStart <= Len(log) => dispatchStart + Len(PersistedSince) <= Len(log)
<1> DEFINE n == Min({dispatchStart + ReadLimit, Len(log)})
<1>1. IsSeq(log) /\ Len(log) \in Nat /\ dispatchStart \in Nat /\ ReadLimit \in Nat
  BY LenOfSeq, EngineAssumption DEF Typed, TypeOK
<1>2. n \in Nat /\ n <= Len(log)  BY <1>1, MinOfTwo
<1> HIDE DEF n
<1>3. /\ IsSeq(SubSeq(log, dispatchStart + 1, n))
      /\ Len(SubSeq(log, dispatchStart + 1, n)) =
           IF dispatchStart + 1 <= n THEN n - (dispatchStart + 1) + 1 ELSE 0
  BY <1>1, <1>2, SubSeqOfSeq
<1> QED  BY <1>1, <1>2, <1>3 DEF PersistedSince, n

LEMMA SequencesAfterType ==
  ASSUME NEW from \in Int, NEW to \in Int, from >= 0, to - from \in Nat
  PROVE  /\ SequencesAfter(from, to) \in Seq(Nat)
         /\ Len(SequencesAfter(from, to)) = to - from
         /\ \A i \in 1..(to - from) : SequencesAfter(from, to)[i] = from + i
<1> DEFINE n == to - from
<1>1. [i \in 1..n |-> from + i] \in [1..n -> Nat]  OBVIOUS
<1>2. [i \in 1..n |-> from + i] \in Seq(Nat)  BY <1>1, SeqDef
<1> QED  BY <1>2, LenProperties DEF SequencesAfter

LEMMA TypedStep ==
  ASSUME Typed, TransactionInv, AnswerInv, StreamInv, [Next]_vars
  PROVE  Typed'
<1> USE DEF Typed, TypeOK, Phases, durable, model, stream, work
<1>1. ASSUME NEW k \in Call, Dispatch(k) PROVE Typed'
  <2>1. queue' \in Seq(Call)  BY <1>1, AppendProperties DEF Dispatch
  <2> QED  BY <1>1, <2>1 DEF Dispatch
<1>2. ASSUME NEW k \in Call, GiveUp(k) PROVE Typed'
  BY <1>2 DEF GiveUp
<1>3. CASE Take
  <2>1. Head(queue) \in Call /\ Tail(queue) \in Seq(Call)  BY <1>3, HeadTailProperties DEF Take
  <2> QED  BY <1>3, <2>1 DEF Take
<1>4. CASE FindReceipt
  <2>1. receipts[Id] \in [status : {"accepted", "rejected"}, resultSequence : Nat]
    BY <1>4 DEF FindReceipt, HasReceipt
  <2>2. outcome' \in [status : {"none", "accepted", "rejected", "failed"}, sequence : Nat]
    BY <1>4, <2>1 DEF FindReceipt, OutcomeOf
  <2> QED  BY <1>4, <2>2 DEF FindReceipt
<1>5. CASE Decide
  BY <1>5, EmptyIsSeq DEF Decide
<1>6. CASE Refuse
  BY <1>6 DEF Refuse
<1>7. CASE LookupFails
  BY <1>7, EngineAssumption DEF LookupFails, Fails, Fault
<1>8. CASE AppendEvent
  <2>1. IsSeq(saved')  BY <1>8, AppendOfSeq DEF AppendEvent
  <2> QED  BY <1>8, <2>1 DEF AppendEvent
<1>9. ASSUME Committed
      PROVE  /\ IsSeq(log') /\ DOMAIN receipts' \subseteq CommandId
             /\ \A id \in DOMAIN receipts' :
                  receipts'[id] \in [status : {"accepted", "rejected"}, resultSequence : Nat]
             /\ Len(log) + Len(saved) \in Nat
  <2>1. Len(log) \in Nat /\ Len(saved) \in Nat  BY LenOfSeq
  <2>2. IsSeq(log') /\ Len(log') \in Nat  BY <1>9, CommittedStep
  <2>3. /\ Id \in CommandId
        /\ DOMAIN receipts' = DOMAIN receipts \cup {Id}
        /\ receipts'[Id] = [status |-> "accepted", resultSequence |-> Len(log')]
        /\ \A id \in DOMAIN receipts : receipts'[id] = receipts[id]
    BY <1>9, CommittedStep
  <2> QED  BY <2>1, <2>2, <2>3
<1>10. CASE Commit
  BY <1>9, <1>10 DEF Commit, Committed
<1>11. CASE CommitUnreported
  BY <1>9, <1>11, EngineAssumption DEF CommitUnreported, Committed, Fails, Fault
<1>12. CASE RollBack
  BY <1>12, EngineAssumption DEF RollBack, Fails, Fault
<1>13. CASE Adopt
  <2>1. /\ Len(log) \in Nat /\ Len(batch) \in Nat /\ Len(batch) <= Len(log)
        /\ outcome.sequence \in Nat
    BY <1>13, LenOfSeq DEF Adopt, StreamInv
  <2>2. /\ Len(log) - Len(batch) \in Int /\ Len(log) - Len(batch) >= 0
        /\ Len(log) - (Len(log) - Len(batch)) \in Nat
    BY <2>1
  <2>3. outbox' \in Seq(Nat)  BY <1>13, <2>1, <2>2, SequencesAfterType DEF Adopt
  <2> QED  BY <1>13, <2>1, <2>3 DEF Adopt
<1>14. CASE Reconcile
  <2>1. Len(PersistedSince) \in Nat  BY PersistedSinceLength
  <2>2. outbox' = SequencesAfter(dispatchStart, dispatchStart + Len(PersistedSince))
    BY <1>14 DEF Reconcile
  <2> DEFINE last == dispatchStart + Len(PersistedSince)
  <2>5. last \in Nat /\ last - dispatchStart \in Nat  BY <2>1
  <2> HIDE DEF last
  <2>6. SequencesAfter(dispatchStart, last) \in Seq(Nat)
    <3> HIDE DEF Typed
    <3>1. dispatchStart \in Nat  BY DEF Typed, TypeOK
    <3> QED  BY ONLY <2>5, <3>1, SequencesAfterType
  <2>3. outbox' \in Seq(Nat)  BY ONLY <2>2, <2>6 DEF last
  <2>4. snapshotSequence' \in Nat  BY <1>14, <2>1 DEF Reconcile
  <2> QED  BY <1>14, <2>3, <2>4 DEF Reconcile
<1>15. CASE ReconcileFails
  BY <1>15, EngineAssumption DEF ReconcileFails, Fault
<1>16. CASE PublishNext
  <2>1. /\ Head(outbox) \in Nat /\ Tail(outbox) \in Seq(Nat)
        /\ Append(published, Head(outbox)) \in Seq(Nat)
    BY <1>16, HeadTailProperties, AppendProperties DEF PublishNext
  <2> QED  BY <1>16, <2>1 DEF PublishNext
<1>17. CASE AllPublished
  BY <1>17 DEF AllPublished
<1>18. CASE RecordRejection
  <2>1. Id \in CommandId  BY IdIsCommand
  <2>2. /\ DOMAIN receipts' \subseteq CommandId
        /\ \A id \in DOMAIN receipts' :
             receipts'[id] \in [status : {"accepted", "rejected"}, resultSequence : Nat]
    BY <1>18, <2>1 DEF RecordRejection, WithReceipt
  <2> QED  BY <1>18, <2>2 DEF RecordRejection
<1>19. CASE RecordFails
  BY <1>19, EngineAssumption DEF RecordFails, Fault
<1>20. CASE Reply
  BY <1>20, EmptyIsSeq DEF Reply, Answered, NoOutcome, AnswerInv
<1>21. CASE Crash
  <2>1. queue' \in Seq(Call) /\ outbox' \in Seq(Nat) /\ IsSeq(saved')
    BY <1>21, EmptyIsSeq, EmptySeq DEF Crash
  <2>2. calls' \in [Call -> [status : {"idle", "waiting", "gone", "accepted", "rejected",
                                      "failed", "lost"},
                             sequence : Nat]]
    BY <1>21 DEF Crash
  <2> QED  BY <1>21, <2>1, <2>2, EngineAssumption DEF Crash, NoOutcome
<1>22. CASE Start
  BY <1>22, LenOfSeq, EmptySeq DEF Start
<1>23. CASE UNCHANGED vars
  BY <1>23 DEF vars, PersistedSince
<1> HIDE DEF Typed, TypeOK, Phases, durable, model, stream, work
<1> QED  BY <1>1, <1>2, <1>3, <1>4, <1>5, <1>6, <1>7, <1>8, <1>10, <1>11, <1>12, <1>13, <1>14,
            <1>15, <1>16, <1>17, <1>18, <1>19, <1>20, <1>21, <1>22, <1>23 DEF Next, Worker

(***************************************************************************)
(* The transaction and the answer.                                         *)
(***************************************************************************)
LEMMA TransactionStep ==
  ASSUME Typed, TransactionInv, [Next]_vars
  PROVE  TransactionInv'
<1> USE DEF TransactionInv, Id, durable, model, stream, work
<1>1. ASSUME NEW k \in Call, Dispatch(k) \/ GiveUp(k) PROVE TransactionInv'
  BY <1>1 DEF Dispatch, GiveUp
<1>2. CASE Decide
  BY <1>2, EmptyIsSeq DEF Decide, HasReceipt
<1>3. CASE AppendEvent
  <2>1. /\ Len(saved') = Len(saved) + 1 /\ Len(saved) \in Nat
        /\ \A i \in 1..Len(saved) : saved'[i] = saved[i]
        /\ saved'[Len(saved) + 1] = [commandId |-> Id, event |-> batch[Len(saved) + 1]]
    BY <1>3, AppendOfSeq, LenOfSeq DEF AppendEvent, Typed
  <2>2. \A i \in 1..Len(saved') : saved'[i] = [commandId |-> Id, event |-> batch[i]]
    <3> TAKE i \in 1..Len(saved')
    <3>1. CASE i \in 1..Len(saved)  BY <3>1, <2>1, <1>3 DEF AppendEvent
    <3>2. CASE i = Len(saved) + 1  BY <3>2, <2>1
    <3> QED  BY <3>1, <3>2, <2>1
  <2> QED  BY <1>3, <2>2 DEF AppendEvent
<1>4. CASE Take \/ FindReceipt \/ Refuse \/ LookupFails \/ RollBack \/ Commit \/ CommitUnreported
  BY <1>4 DEF Take, FindReceipt, Refuse, LookupFails, RollBack, Commit, CommitUnreported, Fails
<1>5. CASE Adopt \/ Reconcile \/ ReconcileFails \/ PublishNext \/ AllPublished
  BY <1>5 DEF Adopt, Reconcile, ReconcileFails, PublishNext, AllPublished
<1>6. CASE RecordRejection \/ RecordFails \/ Reply \/ Crash \/ Start
  BY <1>6 DEF RecordRejection, RecordFails, Reply, Crash, Start
<1>7. CASE UNCHANGED vars
  BY <1>7 DEF vars
<1> HIDE DEF TransactionInv, Id, durable, model, stream, work
<1> QED  BY <1>1, <1>2, <1>3, <1>4, <1>5, <1>6, <1>7 DEF Next, Worker

LEMMA AnswerStep ==
  ASSUME Typed, TransactionInv, AnswerInv, [Next]_vars
  PROVE  AnswerInv'
<1> USE DEF AnswerInv, Id, durable, model, stream, work
<1>1. ASSUME NEW k \in Call, Dispatch(k) \/ GiveUp(k) PROVE AnswerInv'
  BY <1>1 DEF Dispatch, GiveUp
<1>2. CASE Take \/ Decide \/ AppendEvent \/ LookupFails \/ RollBack
  BY <1>2 DEF Take, Decide, AppendEvent, LookupFails, RollBack, Fails
<1>3. CASE FindReceipt
  <2>1. receipts[Id] \in [status : {"accepted", "rejected"}, resultSequence : Nat]
    BY <1>3 DEF FindReceipt, HasReceipt, Typed, TypeOK
  <2> QED  BY <1>3, <2>1 DEF FindReceipt, OutcomeOf, HasReceipt
<1>4. CASE Refuse
  BY <1>4 DEF Refuse, HasReceipt
<1>5. CASE Commit
  <2>1. /\ Id \in DOMAIN receipts'
        /\ receipts'[Id] = [status |-> "accepted", resultSequence |-> Len(log) + Len(saved)]
    BY <1>5, CommittedStep DEF Commit
  <2> QED  BY <1>5, <2>1 DEF Commit
<1>6. CASE CommitUnreported
  BY <1>6 DEF CommitUnreported, Fails
<1>7. CASE Adopt \/ Reconcile \/ ReconcileFails \/ PublishNext \/ AllPublished
  BY <1>7 DEF Adopt, Reconcile, ReconcileFails, PublishNext, AllPublished
<1>8. CASE RecordRejection
  BY <1>8 DEF RecordRejection, WithReceipt
<1>9. CASE RecordFails
  BY <1>9 DEF RecordFails
<1>10. CASE Reply \/ Crash \/ Start
  BY <1>10 DEF Reply, Crash, Start
<1>11. CASE UNCHANGED vars
  BY <1>11 DEF vars
<1> HIDE DEF AnswerInv, Id, durable, model, stream, work
<1> QED  BY <1>1, <1>2, <1>3, <1>4, <1>5, <1>6, <1>7, <1>8, <1>9, <1>10, <1>11 DEF Next, Worker

(***************************************************************************)
(* What the log and the receipts say of each other.                        *)
(***************************************************************************)
\* The committed events are added to those of their command.
LEMMA EventsAfterCommit ==
  ASSUME Typed, TransactionInv, Committed, NEW id \in CommandId
  PROVE  EventsOf(id)' = EventsOf(id) \cup (IF id = Id THEN (Len(log) + 1)..Len(log') ELSE {})
<1>1. /\ Len(log) \in Nat /\ Len(log') \in Nat /\ Len(log') > Len(log)
      /\ IsSeq(log) /\ IsSeq(log')
  BY CommittedStep DEF Typed
<1>2. DOMAIN log = 1..Len(log) /\ DOMAIN log' = 1..Len(log')  BY <1>1, LenOfSeq
<1>3. \A i \in 1..Len(log) : log'[i] = log[i]  BY CommittedStep
<1>4. \A i \in (Len(log) + 1)..Len(log') : log'[i].commandId = Id
  <2> TAKE i \in (Len(log) + 1)..Len(log')
  <2>1. log'[i] = [commandId |-> Id, event |-> batch[i - Len(log)]]  BY CommittedStep, Zenon
  <2> QED  BY <2>1
<1>5. \A i : i \in 1..Len(log') <=> i \in 1..Len(log) \/ i \in (Len(log) + 1)..Len(log')
  BY <1>1
<1> QED  BY <1>2, <1>3, <1>4, <1>5 DEF EventsOf

LEMMA OnceAfterCommit ==
  ASSUME Typed, TransactionInv, AtMostOnce, Committed
  PROVE  AtMostOnce'
<1> SUFFICES ASSUME NEW id \in CommandId
             PROVE  IF id \in DOMAIN receipts' /\ receipts'[id].status = "accepted"
                    THEN \E first \in 1..receipts'[id].resultSequence :
                           EventsOf(id)' = first..receipts'[id].resultSequence
                    ELSE EventsOf(id)' = {}
  BY DEF AtMostOnce
<1>1. /\ Id \in CommandId \ DOMAIN receipts
      /\ DOMAIN receipts' = DOMAIN receipts \cup {Id}
      /\ receipts'[Id] = [status |-> "accepted", resultSequence |-> Len(log')]
      /\ \A x \in DOMAIN receipts : receipts'[x] = receipts[x]
      /\ Len(log) \in Nat /\ Len(log') \in Nat /\ Len(log') > Len(log)
  BY CommittedStep
<1>2. CASE id = Id
  <2>1. EventsOf(id) = {}  BY <1>1, <1>2 DEF AtMostOnce
  <2>2. EventsOf(id)' = (Len(log) + 1)..Len(log')  BY <1>2, <2>1, EventsAfterCommit
  <2>3. Len(log) + 1 \in 1..Len(log')  BY <1>1
  <2> QED  BY <1>1, <1>2, <2>2, <2>3
<1>3. CASE id # Id
  <2>1. EventsOf(id)' = EventsOf(id)  BY <1>3, EventsAfterCommit
  <2>2. id \in DOMAIN receipts' <=> id \in DOMAIN receipts  BY <1>1, <1>3
  <2>3. id \in DOMAIN receipts => receipts'[id] = receipts[id]  BY <1>1
  <2> QED  BY <2>1, <2>2, <2>3 DEF AtMostOnce
<1> QED  BY <1>2, <1>3

\* The three actions that write the log or the receipts.
LEMMA WhoWritesTheLog ==
  [Next]_vars => Commit \/ CommitUnreported \/ RecordRejection \/ UNCHANGED << log, receipts >>
BY DEF Next, Worker, vars, durable, Dispatch, GiveUp, Take, FindReceipt, Decide, Refuse,
       LookupFails, AppendEvent, RollBack, Adopt, Reconcile, ReconcileFails, PublishNext,
       AllPublished, RecordFails, Reply, Crash, Start

LEMMA OnceStep ==
  ASSUME Typed, TransactionInv, AnswerInv, AtMostOnce, [Next]_vars
  PROVE  AtMostOnce'
<1>1. CASE Commit \/ CommitUnreported
  BY <1>1, OnceAfterCommit DEF Commit, CommitUnreported
<1>2. CASE RecordRejection
  <2>1. log' = log  BY <1>2 DEF RecordRejection
  <2>2. \A id \in CommandId : EventsOf(id)' = EventsOf(id)  BY <2>1 DEF EventsOf
  <2>3. CASE outcome.status = "rejected"
    <3>1. /\ Id \notin DOMAIN receipts
          /\ DOMAIN receipts' = DOMAIN receipts \cup {Id}
          /\ receipts'[Id].status = "rejected"
          /\ \A id \in DOMAIN receipts : receipts'[id] = receipts[id]
      BY <1>2, <2>3 DEF RecordRejection, WithReceipt, AnswerInv
    <3>2. \A id \in CommandId :
            id \in DOMAIN receipts' /\ receipts'[id].status = "accepted" =>
              id \in DOMAIN receipts /\ receipts'[id] = receipts[id]
      BY <3>1
    <3>3. \A id \in CommandId :
            id \in DOMAIN receipts /\ receipts[id].status = "accepted" =>
              id \in DOMAIN receipts' /\ receipts'[id] = receipts[id]
      BY <3>1
    <3> QED  BY <2>2, <3>2, <3>3 DEF AtMostOnce
  <2>4. CASE outcome.status # "rejected"
    BY <1>2, <2>2, <2>4 DEF RecordRejection, AtMostOnce
  <2> QED  BY <2>3, <2>4
<1>3. CASE UNCHANGED << log, receipts >>
  BY <1>3 DEF AtMostOnce, EventsOf
<1> QED  BY <1>1, <1>2, <1>3, WhoWritesTheLog

\* Receipts that accept a command are never changed.
LEMMA AcceptedReceiptsStay ==
  ASSUME Typed, TransactionInv, AnswerInv, [Next]_vars,
         NEW id \in DOMAIN receipts, receipts[id].status = "accepted"
  PROVE  id \in DOMAIN receipts' /\ receipts'[id] = receipts[id]
<1>1. CASE Commit \/ CommitUnreported
  BY <1>1, CommittedStep DEF Commit, CommitUnreported
<1>2. CASE RecordRejection
  BY <1>2 DEF RecordRejection, WithReceipt, AnswerInv
<1>3. CASE UNCHANGED << log, receipts >>
  BY <1>3
<1> QED  BY <1>1, <1>2, <1>3, WhoWritesTheLog

\* A call is answered by Reply, with the outcome of its command.
LEMMA WhoAnswers ==
  ASSUME Typed, [Next]_vars, NEW k \in Call, calls'[k].status \in {"accepted", "rejected"}
  PROVE  calls'[k] = calls[k] \/ (Reply /\ k = current /\ calls'[k] = outcome)
<1> USE DEF Typed, TypeOK
<1>1. ASSUME NEW c \in Call, Dispatch(c) \/ GiveUp(c) PROVE calls'[k] = calls[k]
  BY <1>1 DEF Dispatch, GiveUp
<1>2. CASE Crash
  BY <1>2 DEF Crash
<1>3. CASE Reply
  BY <1>3 DEF Reply, Answered
<1>4. CASE UNCHANGED calls
  BY <1>4
<1>5. \/ \E c \in Call : Dispatch(c) \/ GiveUp(c)
      \/ Crash \/ Reply \/ UNCHANGED calls
  BY DEF Next, Worker, vars, Take, FindReceipt, Decide, Refuse, LookupFails, AppendEvent,
         Commit, CommitUnreported, RollBack, Adopt, Reconcile, ReconcileFails, PublishNext,
         AllPublished, RecordRejection, RecordFails, Start
<1> QED  BY <1>1, <1>2, <1>3, <1>4, <1>5

LEMMA AcceptedStep ==
  ASSUME Typed, TransactionInv, AnswerInv, AcceptedIsTrue, [Next]_vars
  PROVE  AcceptedIsTrue'
<1> SUFFICES ASSUME NEW k \in Call, calls'[k].status = "accepted"
             PROVE  /\ CommandIdOf[k] \in DOMAIN receipts'
                    /\ receipts'[CommandIdOf[k]] =
                         [status |-> "accepted", resultSequence |-> calls'[k].sequence]
  BY DEF AcceptedIsTrue
<1>1. CASE calls[k].status = "accepted" /\ calls'[k] = calls[k]
  <2>1. /\ CommandIdOf[k] \in DOMAIN receipts
        /\ receipts[CommandIdOf[k]] =
             [status |-> "accepted", resultSequence |-> calls[k].sequence]
    BY <1>1 DEF AcceptedIsTrue
  <2>2. /\ CommandIdOf[k] \in DOMAIN receipts'
        /\ receipts'[CommandIdOf[k]] = receipts[CommandIdOf[k]]
    BY <2>1, AcceptedReceiptsStay
  <2> QED  BY <1>1, <2>1, <2>2
<1>2. CASE Reply /\ k = current /\ calls'[k] = outcome
  BY <1>2 DEF Reply, AnswerInv, Id, durable
<1> QED  BY <1>1, <1>2, WhoAnswers

(***************************************************************************)
(* The stream.                                                             *)
(***************************************************************************)
LEMMA PublishStep ==
  ASSUME Typed, StreamInv, PublishNext
  PROVE  StreamInv'
<1> USE DEF StreamInv
<1>1. /\ outbox \in Seq(Nat) /\ outbox # << >> /\ published \in Seq(Nat)
      /\ published' = Append(published, Head(outbox)) /\ outbox' = Tail(outbox)
  BY DEF Typed, PublishNext
<1>2. /\ Len(outbox) \in Nat /\ Len(outbox) > 0 /\ Len(outbox') = Len(outbox) - 1
      /\ \A i \in 1..Len(outbox') : outbox'[i] = outbox[i + 1]
      /\ Head(outbox) = outbox[1]
  BY <1>1, HeadTailProperties, EmptySeq, LenProperties
<1>3. /\ Len(published) \in Nat /\ Len(published') = Len(published) + 1
      /\ \A i \in 1..Len(published) : published'[i] = published[i]
      /\ published'[Len(published) + 1] = outbox[1]
  BY <1>1, <1>2, AppendProperties, LenProperties
<1>4. /\ \A i \in 1..Len(published) : published[i] \in Nat
      /\ \A i \in 1..Len(outbox) : outbox[i] \in Nat
  BY <1>1, ElementOfSeq
<1>5. Increasing(published')
  <2> SUFFICES ASSUME NEW i \in 1..Len(published'), NEW j \in 1..Len(published'), i < j
               PROVE  published'[i] < published'[j]
    BY DEF Increasing
  <2>1. CASE j \in 1..Len(published)
    BY <1>3, <2>1 DEF Increasing
  <2>2. CASE j = Len(published) + 1
    <3>1. i \in 1..Len(published) /\ 1 \in 1..Len(outbox)  BY <1>2, <1>3, <2>2
    <3> QED  BY <1>3, <2>2, <3>1
  <2> QED  BY <1>3, <2>1, <2>2
<1>6. Increasing(outbox')
  <2> SUFFICES ASSUME NEW i \in 1..Len(outbox'), NEW j \in 1..Len(outbox'), i < j
               PROVE  outbox'[i] < outbox'[j]
    BY DEF Increasing
  <2>1. i + 1 \in 1..Len(outbox) /\ j + 1 \in 1..Len(outbox) /\ i + 1 < j + 1  BY <1>2
  <2> QED  BY <1>2, <2>1 DEF Increasing
<1>7. \A i \in 1..Len(published') :
        firstSequence < published'[i] /\ published'[i] <= snapshotSequence
  <2> TAKE i \in 1..Len(published')
  <2>1. CASE i \in 1..Len(published)  BY <1>3, <2>1
  <2>2. CASE i = Len(published) + 1  BY <1>2, <1>3, <2>2
  <2> QED  BY <1>3, <2>1, <2>2
<1>8. \A i \in 1..Len(outbox') : firstSequence < outbox'[i] /\ outbox'[i] <= snapshotSequence
  <2> TAKE i \in 1..Len(outbox')
  <2>1. i + 1 \in 1..Len(outbox)  BY <1>2
  <2> QED  BY <1>2, <2>1
<1>9. \A i \in 1..Len(published'), j \in 1..Len(outbox') : published'[i] < outbox'[j]
  <2> TAKE i \in 1..Len(published'), j \in 1..Len(outbox')
  <2>1. j + 1 \in 1..Len(outbox) /\ 1 \in 1..Len(outbox) /\ 1 < j + 1  BY <1>2
  <2>2. CASE i \in 1..Len(published)  BY <1>2, <1>3, <2>1, <2>2
  <2>3. CASE i = Len(published) + 1  BY <1>2, <1>3, <2>1, <2>3 DEF Increasing
  <2> QED  BY <1>3, <2>2, <2>3
<1> QED  BY <1>5, <1>6, <1>7, <1>8, <1>9 DEF PublishNext, durable, model, work

\* A step that makes the sequences after from, up to the new snapshotSequence,
\* the next ones to publish.
LEMMA FillOutbox ==
  ASSUME Typed, StreamInv, NEW from \in Nat, NEW to \in Nat,
         snapshotSequence <= from, from <= to, to <= Len(log),
         outbox' = SequencesAfter(from, to), snapshotSequence' = to,
         phase' \in {"publishing", "reconciled"}, UNCHANGED << log, published, firstSequence >>
  PROVE  StreamInv'
<1> USE DEF StreamInv
<1>1. /\ Len(outbox') = to - from
      /\ \A i \in 1..(to - from) : outbox'[i] = from + i
  <2>1. from >= 0 /\ from \in Int /\ to \in Int /\ to - from \in Nat  OBVIOUS
  <2> QED  BY <2>1, SequencesAfterType
<1>2. snapshotSequence \in Nat /\ firstSequence \in Nat  BY DEF Typed, TypeOK
<1>3. Len(log) \in Nat  BY LenOfSeq DEF Typed
<1>4. Increasing(outbox')  BY <1>1 DEF Increasing
<1>5. \A i \in 1..Len(published) : published[i] \in Nat  BY ElementOfSeq DEF Typed
<1>6. \A i \in 1..Len(outbox') : firstSequence < outbox'[i] /\ outbox'[i] <= to
  BY <1>1, <1>2
<1>7. \A i \in 1..Len(published) : firstSequence < published[i] /\ published[i] <= to
  BY <1>2, <1>5
<1>8. \A i \in 1..Len(published), j \in 1..Len(outbox') : published[i] < outbox'[j]
  BY <1>1, <1>2, <1>5
<1> QED  BY <1>2, <1>3, <1>4, <1>6, <1>7, <1>8 DEF Increasing

LEMMA StreamStep ==
  ASSUME Typed, TransactionInv, StreamInv, [Next]_vars
  PROVE  StreamInv'
<1> USE DEF durable, model, stream, work
<1>1. Len(log) \in Nat /\ snapshotSequence \in Nat /\ firstSequence \in Nat
  BY LenOfSeq DEF Typed, TypeOK
<1>2. ASSUME NEW k \in Call, Dispatch(k) \/ GiveUp(k) PROVE StreamInv'
  BY <1>2 DEF Dispatch, GiveUp, StreamInv, Increasing
<1>3. CASE Take \/ FindReceipt \/ Decide \/ Refuse \/ LookupFails \/ AppendEvent \/ RollBack
  BY <1>3 DEF Take, FindReceipt, Decide, Refuse, LookupFails, AppendEvent, RollBack, Fails,
              StreamInv, Increasing
<1>4. ASSUME Committed
      PROVE  /\ Len(log') \in Nat /\ Len(log') = Len(log) + Len(saved) /\ Len(log') > Len(log)
             /\ Len(saved) = Len(batch) /\ Len(saved) \in Nat
  BY <1>4, CommittedStep, LenOfSeq DEF Typed
<1>5. CASE Commit
  <2>1. Committed  BY <1>5 DEF Commit
  <2> QED  BY <1>1, <1>4, <1>5, <2>1 DEF Commit, Committed, StreamInv, Increasing
<1>6. CASE CommitUnreported
  <2>1. Committed  BY <1>6 DEF CommitUnreported
  <2> QED  BY <1>1, <1>4, <1>6, <2>1 DEF CommitUnreported, Committed, Fails, StreamInv, Increasing
<1>7. CASE Adopt
  <2>1. /\ Len(batch) \in Nat /\ snapshotSequence + Len(batch) <= Len(log)
        /\ outcome.sequence = Len(log)
    BY <1>7 DEF Adopt, StreamInv
  <2>2. /\ Len(log) - Len(batch) \in Nat /\ snapshotSequence <= Len(log) - Len(batch)
        /\ Len(log) - Len(batch) <= Len(log)
    BY <1>1, <2>1
  <2> QED  BY <1>1, <1>7, <2>1, <2>2, FillOutbox DEF Adopt
<1>8. CASE Reconcile
  <2> DEFINE last == dispatchStart + Len(PersistedSince)
  <2>1. dispatchStart = snapshotSequence /\ snapshotSequence <= Len(log)
    BY <1>8 DEF Reconcile, StreamInv
  <2>2. last \in Nat /\ snapshotSequence <= last /\ last <= Len(log)
    BY <1>1, <2>1, PersistedSinceLength
  <2>3. snapshotSequence' = last
    BY <1>1, <1>8, <2>1, PersistedSinceLength, EmptyIsSeq, EmptyOrNot DEF Reconcile
  <2>4. outbox' = SequencesAfter(snapshotSequence, last)  BY <1>8, <2>1 DEF Reconcile
  <2> HIDE DEF last
  <2> QED  BY <1>1, <1>8, <2>2, <2>3, <2>4, FillOutbox DEF Reconcile
<1>9. CASE ReconcileFails
  BY <1>9 DEF ReconcileFails, StreamInv, Increasing
<1>10. CASE PublishNext
  BY <1>10, PublishStep
<1>11. CASE AllPublished \/ RecordRejection \/ RecordFails \/ Reply
  BY <1>11 DEF AllPublished, RecordRejection, RecordFails, Reply, StreamInv, Increasing
<1>12. CASE Crash
  BY <1>12, EmptyIsSeq DEF Crash, StreamInv, Increasing
<1>13. CASE Start
  BY <1>1, <1>13, EmptyIsSeq DEF Start, StreamInv, Increasing
<1>14. CASE UNCHANGED vars
  BY <1>14 DEF vars, StreamInv, Increasing
<1> HIDE DEF durable, model, stream, work
<1> QED  BY <1>2, <1>3, <1>5, <1>6, <1>7, <1>8, <1>9, <1>10, <1>11, <1>12, <1>13, <1>14
         DEF Next, Worker

(***************************************************************************)
(* The theorems.                                                           *)
(***************************************************************************)
LEMMA InvInit == Init => Inv
<1> SUFFICES ASSUME Init PROVE Inv  OBVIOUS
<1> USE DEF Init
<1>1. Typed
  <2>1. outbox \in Seq(Nat) /\ published \in Seq(Nat) /\ queue \in Seq(Call)  BY EmptySeq
  <2>2. /\ DOMAIN receipts \subseteq CommandId
        /\ \A id \in DOMAIN receipts :
             receipts[id] \in [status : {"accepted", "rejected"}, resultSequence : Nat]
    OBVIOUS
  <2> QED  BY <2>1, <2>2, EmptyIsSeq, EngineAssumption
           DEF Typed, TypeOK, Phases, IdleCall, NoOutcome
<1>2. TransactionInv /\ AnswerInv  BY DEF TransactionInv, AnswerInv
<1>3. StreamInv  BY EmptyIsSeq DEF StreamInv, Increasing
<1>4. AtMostOnce  BY EmptyIsSeq, LenOfSeq DEF AtMostOnce, EventsOf
<1>5. AcceptedIsTrue  BY DEF AcceptedIsTrue, IdleCall
<1> QED  BY <1>1, <1>2, <1>3, <1>4, <1>5 DEF Inv

LEMMA InvStep == Inv /\ [Next]_vars => Inv'
BY TypedStep, TransactionStep, AnswerStep, StreamStep, OnceStep, AcceptedStep DEF Inv

\* The invariant holds in every state of every behavior of the engine.
THEOREM InvHolds == Spec => []Inv
BY InvInit, InvStep, PTL DEF Spec

\* The worker, the callers and the receipts hold values of their types.
THEOREM TypeCorrect == Spec => []TypeOK
<1>1. Inv => TypeOK  BY DEF Inv, Typed
<1> QED  BY <1>1, InvHolds, PTL

\* Every command id has its events in the log at most once, as one run, and
\* exactly when its receipt accepts it.
THEOREM OnceInTheLog == Spec => []AtMostOnce
<1>1. Inv => AtMostOnce  BY DEF Inv
<1> QED  BY <1>1, InvHolds, PTL

\* A caller is told "accepted" only for a command that is.
THEOREM AnswersAreTrue == Spec => []AcceptedIsTrue
<1>1. Inv => AcceptedIsTrue  BY DEF Inv
<1> QED  BY <1>1, InvHolds, PTL

\* Subscribers see persisted events in order, once, not ahead of the read model.
THEOREM StreamIsOrdered == Spec => []StreamInOrder
<1>1. Inv => StreamInOrder  BY LenProperties DEF Inv, Typed, StreamInv, Increasing, StreamInOrder
<1> QED  BY <1>1, InvHolds, PTL

\* The log, the receipts, the answers and the stream agree, for any commands,
\* calls, failures and stops.
THEOREM AllAgree == Spec => []LogAgrees
BY TypeCorrect, OnceInTheLog, AnswersAreTrue, StreamIsOrdered, PTL DEF LogAgrees

LEMMA WholeBatchStep ==
  ASSUME Inv, [Next]_vars, log' # log
  PROVE  \E id \in CommandId \ DOMAIN receipts :
           /\ Allowed(readModel, CommandOf[id])
           /\ log' = log \o Stamp(id, DecidedEvents(readModel, CommandOf[id]))
           /\ receipts' = WithReceipt(id, [status |-> "accepted", resultSequence |-> Len(log')])
<1>1. Committed
  BY WhoWritesTheLog DEF Commit, CommitUnreported, RecordRejection
<1> DEFINE events == DecidedEvents(readModel, CommandOf[Id])
<1>2. /\ Id \in CommandId \ DOMAIN receipts
      /\ Len(log') = Len(log) + Len(saved) /\ Len(saved) = Len(batch)
  BY <1>1, CommittedStep DEF Inv
<1>3. /\ Allowed(readModel, CommandOf[Id]) /\ batch = events
      /\ \A i \in 1..Len(saved) : saved[i] = [commandId |-> Id, event |-> batch[i]]
  BY <1>1 DEF Inv, TransactionInv, Committed
<1> HIDE DEF events
<1>4. saved = Stamp(Id, events)
  <2>1. PICK S : saved \in Seq(S)  BY DEF Inv, Typed, IsSeq
  <2>2. saved = [i \in 1..Len(saved) |-> saved[i]]  BY <2>1, LenProperties
  <2> QED  BY <1>2, <1>3, <2>2 DEF Stamp
<1>5. log' = log \o Stamp(Id, events)  BY <1>1, <1>4 DEF Committed
<1>6. receipts' = WithReceipt(Id, [status |-> "accepted", resultSequence |-> Len(log')])
  BY <1>1, <1>2 DEF Committed
<1> QED  BY <1>2, <1>3, <1>5, <1>6 DEF events

\* The log grows by the whole decided batch of one command at a time.
THEOREM LogGrowsByBatches == Spec => WholeBatches
<1>1. Inv /\ [Next]_vars =>
        [log' # log =>
           \E id \in CommandId \ DOMAIN receipts :
             /\ Allowed(readModel, CommandOf[id])
             /\ log' = log \o Stamp(id, DecidedEvents(readModel, CommandOf[id]))
             /\ receipts' = WithReceipt(id, [status |-> "accepted",
                                             resultSequence |-> Len(log')])]_vars
  BY WholeBatchStep
<1> QED  BY <1>1, InvHolds, PTL DEF Spec, WholeBatches

(***************************************************************************)
(* A rejection is final when its receipt is stored.                        *)
(***************************************************************************)
RejectionInv ==
  /\ phase = "replying" /\ outcome.status = "rejected" =>
       Id \in DOMAIN receipts /\ receipts[Id].status = "rejected"
  /\ \A k \in Call : calls[k].status = "rejected" =>
       /\ CommandIdOf[k] \in DOMAIN receipts
       /\ receipts[CommandIdOf[k]].status = "rejected"

LEMMA RejectedReceiptsStay ==
  ASSUME Inv, [Next]_vars, NEW id \in DOMAIN receipts, receipts[id].status = "rejected"
  PROVE  id \in DOMAIN receipts' /\ receipts'[id].status = "rejected"
<1>1. CASE Commit \/ CommitUnreported
  BY <1>1, CommittedStep DEF Commit, CommitUnreported, Inv
<1>2. CASE RecordRejection
  BY <1>2 DEF RecordRejection, WithReceipt
<1>3. CASE UNCHANGED << log, receipts >>
  BY <1>3
<1> QED  BY <1>1, <1>2, <1>3, WhoWritesTheLog

LEMMA FaultsStay ==
  ASSUME [Next]_vars
  PROVE  faults \subseteq faults'
BY DEF Next, Worker, vars, Dispatch, GiveUp, Take, FindReceipt, Decide, Refuse, LookupFails,
       AppendEvent, Commit, CommitUnreported, RollBack, Fault, Adopt, Reconcile, ReconcileFails,
       PublishNext, AllPublished, RecordRejection, RecordFails, Reply, Crash, Start

LEMMA RejectionStep ==
  ASSUME "record" \notin faults', Inv, RejectionInv, [Next]_vars
  PROVE  RejectionInv'
<1>1. phase' = "replying" /\ outcome'.status = "rejected" =>
        Id' \in DOMAIN receipts' /\ receipts'[Id'].status = "rejected"
  <2> SUFFICES ASSUME phase' = "replying", outcome'.status = "rejected"
               PROVE  Id' \in DOMAIN receipts' /\ receipts'[Id'].status = "rejected"
    OBVIOUS
  <2>1. CASE FindReceipt
    BY <2>1 DEF FindReceipt, HasReceipt, OutcomeOf, Inv, Typed, TypeOK, Id, durable, work
  <2>2. CASE RecordRejection
    BY <2>2 DEF RecordRejection, WithReceipt, Id, work
  <2>3. CASE AllPublished
    BY <2>3 DEF AllPublished, Inv, AnswerInv
  <2>4. CASE phase = "replying" /\ UNCHANGED << receipts, current, outcome >>
    BY <2>4 DEF RejectionInv, Id
  <2>5. FindReceipt \/ RecordRejection \/ AllPublished
          \/ (phase = "replying" /\ UNCHANGED << receipts, current, outcome >>)
    BY DEF Next, Worker, vars, durable, work, Dispatch, GiveUp, Take, Decide, Refuse,
           LookupFails, AppendEvent, Commit, CommitUnreported, RollBack, Fails, Adopt,
           Reconcile, ReconcileFails, PublishNext, RecordFails, Fault, Reply, Crash, Start
  <2> QED  BY <2>1, <2>2, <2>3, <2>4, <2>5
<1>2. ASSUME NEW k \in Call, calls'[k].status = "rejected"
      PROVE  CommandIdOf[k] \in DOMAIN receipts' /\ receipts'[CommandIdOf[k]].status = "rejected"
  <2>1. CASE calls'[k] = calls[k]
    BY <1>2, <2>1, RejectedReceiptsStay DEF RejectionInv
  <2>2. CASE Reply /\ k = current /\ calls'[k] = outcome
    BY <1>2, <2>2 DEF Reply, RejectionInv, Id, durable
  <2> QED  BY <1>2, <2>1, <2>2, WhoAnswers DEF Inv
<1> QED  BY <1>1, <1>2 DEF RejectionInv

\* As long as storing the receipt of a rejection has not failed, a command
\* reported rejected has no events.
THEOREM RejectionIsFinal == Spec => []RejectedIsFinal
<1> DEFINE Kept == "record" \notin faults => RejectionInv
<1>1. Init => Kept  BY DEF Init, RejectionInv, IdleCall
<1>2. Inv /\ Kept /\ [Next]_vars => Kept'
  <2> SUFFICES ASSUME Inv, Kept, [Next]_vars, "record" \notin faults'
               PROVE  RejectionInv'
    OBVIOUS
  <2>1. "record" \notin faults  BY FaultsStay
  <2> QED  BY <2>1, RejectionStep
<1>3. Inv /\ Kept => RejectedIsFinal
  <2> SUFFICES ASSUME Inv, RejectionInv, NEW k \in Call, calls[k].status = "rejected"
               PROVE  EventsOf(CommandIdOf[k]) = {}
    BY DEF RejectedIsFinal
  <2>1. CommandIdOf[k] \in CommandId  BY EngineAssumption
  <2>2. receipts[CommandIdOf[k]].status = "rejected"  BY DEF RejectionInv
  <2> QED  BY <2>1, <2>2 DEF Inv, AtMostOnce
<1> QED  BY <1>1, <1>2, <1>3, InvHolds, PTL DEF Spec

(***************************************************************************)
(* The engine implements the command log.  The commit is the step in which *)
(* a command is accepted, and the receipt's upsert the one in which it is  *)
(* rejected; an answer or a lost call changes the status of calls only.    *)
(***************************************************************************)
ids == [i \in 1..Len(log) |-> log[i].commandId]
decided == [id \in CommandId |-> IF id \in DOMAIN receipts THEN receipts[id].status ELSE "open"]
status == [k \in Call |-> calls[k].status]

LEMMA AcceptedInPromise ==
  ASSUME Inv, Committed, UNCHANGED calls, NEW id \in CommandId, id = Id
  PROVE  Promise!Accept(id)
<1>1. /\ Id \in CommandId \ DOMAIN receipts
      /\ DOMAIN receipts' = DOMAIN receipts \cup {Id}
      /\ receipts'[Id] = [status |-> "accepted", resultSequence |-> Len(log')]
      /\ \A x \in DOMAIN receipts : receipts'[x] = receipts[x]
      /\ Len(log) \in Nat /\ Len(log') \in Nat /\ Len(log') > Len(log)
  BY CommittedStep DEF Inv
<1>2. decided[Id] = "open" /\ decided' = [decided EXCEPT ![Id] = "accepted"]
  <2>1. decided[Id] = "open"  BY <1>1 DEF decided
  <2>2. \A x \in CommandId :
          decided'[x] = IF x = Id THEN "accepted" ELSE decided[x]
    <3> TAKE x \in CommandId
    <3>1. CASE x = Id  BY <1>1, <3>1 DEF decided
    <3>2. CASE x # Id
      <4>1. x \in DOMAIN receipts' <=> x \in DOMAIN receipts  BY <1>1, <3>2
      <4>2. x \in DOMAIN receipts => receipts'[x] = receipts[x]  BY <1>1
      <4> QED  BY <3>2, <4>1, <4>2 DEF decided
    <3> QED  BY <3>1, <3>2
  <2>3. decided' = [x \in CommandId |-> IF x = Id THEN "accepted" ELSE decided[x]]
    BY <2>2 DEF decided
  <2> QED  BY <1>1, <2>1, <2>3 DEF decided
<1> DEFINE more == [i \in 1..(Len(log') - Len(log)) |-> Id]
<1>3. ids \in [1..Len(log) -> CommandId \cup {log[i].commandId : i \in 1..Len(log)}]
  BY DEF ids
<1> DEFINE S == CommandId \cup {log[i].commandId : i \in 1..Len(log)}
<1>4. more \in [1..(Len(log') - Len(log)) -> S]  BY <1>1
<1>5. ids \in Seq(S) /\ more \in Seq(S)  BY <1>1, <1>3, <1>4, SeqDef
<1>6. Len(ids) = Len(log) /\ Len(more) = Len(log') - Len(log)
  BY <1>1, <1>3, <1>4, <1>5, LenProperties
<1>7. ids' \in [1..Len(log') -> S]
  <2> SUFFICES ASSUME NEW i \in 1..Len(log') PROVE log'[i].commandId \in S
    BY DEF ids
  <2>1. CASE i \in 1..Len(log)  BY <2>1, CommittedStep DEF Inv
  <2>2. CASE i \in (Len(log) + 1)..Len(log')
    <3>1. log'[i] = [commandId |-> Id, event |-> batch[i - Len(log)]]
      BY <2>2, CommittedStep, Zenon DEF Inv
    <3> QED  BY <3>1, <1>1
  <2> QED  BY <1>1, <2>1, <2>2
<1>8. ids' \in Seq(S) /\ Len(ids') = Len(log')  BY <1>1, <1>7, SeqDef, LenProperties
<1>9. ids' = ids \o more
  <2>1. /\ ids \o more \in Seq(S) /\ Len(ids \o more) = Len(ids')
        /\ \A i \in 1..Len(log') : (ids \o more)[i] = IF i <= Len(log) THEN ids[i]
                                                      ELSE more[i - Len(log)]
    <3>1. Len(ids) + Len(more) = Len(log')  BY <1>1, <1>6
    <3>2. /\ ids \o more \in Seq(S) /\ Len(ids \o more) = Len(log')
          /\ \A i \in 1..Len(log') : (ids \o more)[i] = IF i <= Len(ids) THEN ids[i]
                                                        ELSE more[i - Len(ids)]
      <4> HIDE DEF more, S
      <4> QED  BY <1>5, <3>1, ConcatProperties
    <3> HIDE DEF more, S
    <3> QED  BY <1>6, <1>8, <3>2
  <2>2. \A i \in 1..Len(log') : ids'[i] = (ids \o more)[i]
    <3> TAKE i \in 1..Len(log')
    <3>1. CASE i <= Len(log)
      <4>1. log'[i] = log[i]  BY <1>1, <3>1, CommittedStep DEF Inv
      <4> QED  BY <1>1, <3>1, <4>1, <2>1 DEF ids
    <3>2. CASE ~(i <= Len(log))
      <4>1. i \in (Len(log) + 1)..Len(log') /\ i - Len(log) \in 1..(Len(log') - Len(log))
        BY <1>1, <3>2
      <4>2. log'[i] = [commandId |-> Id, event |-> batch[i - Len(log)]]
        BY <4>1, CommittedStep, Zenon DEF Inv
      <4> QED  BY <3>2, <4>1, <4>2, <2>1 DEF ids
    <3> QED  BY <3>1, <3>2
  <2> HIDE DEF more, S
  <2> QED  BY <1>8, <2>1, <2>2, SeqEqual
<1>10. status' = status  BY DEF status
<1> HIDE DEF S
<1> QED  BY <1>1, <1>2, <1>6, <1>8, <1>9, <1>10 DEF Promise!Accept, ids, decided, status

LEMMA RejectedInPromise ==
  ASSUME Inv, RecordRejection, NEW id \in CommandId, id = Id
  PROVE  Promise!Reject(id) \/ UNCHANGED << ids, decided, status >>
<1>1. UNCHANGED << ids, status >>  BY DEF RecordRejection, ids, status
<1>2. CASE outcome.status # "rejected"
  BY <1>1, <1>2 DEF RecordRejection, decided
<1>3. CASE outcome.status = "rejected"
  <2>1. /\ Id \in CommandId \ DOMAIN receipts
        /\ receipts' = WithReceipt(Id, [status |-> "rejected", resultSequence |-> snapshotSequence])
    BY <1>3, IdIsCommand DEF RecordRejection, Inv, AnswerInv, Typed
  <2>2. decided' = [decided EXCEPT ![Id] = "rejected"]
    BY <2>1 DEF WithReceipt, decided
  <2>3. decided[Id] = "open"  BY <2>1 DEF decided
  <2> QED  BY <1>1, <2>2, <2>3 DEF Promise!Reject, ids, decided, status
<1> QED  BY <1>2, <1>3

LEMMA AnsweredInPromise ==
  ASSUME Inv, Reply, NEW k \in Call, k = current, NEW answer, answer = outcome.status
  PROVE  \/ answer \in {"accepted", "rejected", "failed"} /\ Promise!Answer(k, answer)
         \/ UNCHANGED << ids, decided, status >>
<1>1. UNCHANGED << ids, decided >>  BY DEF Reply, ids, decided, durable
<1>2. CASE calls[current].status # "waiting"
  BY <1>1, <1>2 DEF Reply, Answered, status
<1>3. CASE calls[current].status = "waiting"
  <2>1. /\ current \in Call /\ Id \in CommandId
        /\ outcome.status \in {"accepted", "rejected", "failed"}
        /\ calls' = [calls EXCEPT ![current] = outcome]
        /\ calls \in [Call -> [status : {"idle", "waiting", "gone", "accepted", "rejected",
                                        "failed", "lost"},
                               sequence : Nat]]
    BY <1>3, IdIsCommand DEF Reply, Answered, Inv, AnswerInv, Typed, TypeOK
  <2>2. status' = [status EXCEPT ![current] = outcome.status] /\ status[current] = "waiting"
    BY <1>3, <2>1 DEF status
  <2>3. /\ outcome.status = "accepted" => decided[Id] = "accepted"
        /\ outcome.status = "rejected" => decided[Id] # "accepted"
    BY <2>1 DEF Reply, Inv, AnswerInv, decided
  <2>4. Promise!Answer(k, answer)
    BY <1>1, <2>2, <2>3 DEF Promise!Answer, ids, decided, status, Id
  <2> QED  BY <2>1, <2>4
<1> QED  BY <1>2, <1>3

LEMMA CrashInPromise ==
  ASSUME Inv, Crash
  PROVE  \E ks \in SUBSET Call : Promise!Lose(ks, "lost")
<1> DEFINE ks == {k \in Call : calls[k].status = "waiting"}
<1>1. UNCHANGED << ids, decided >>  BY DEF Crash, ids, decided, durable
<1>2. status' = [k \in Call |-> IF k \in ks THEN "lost" ELSE status[k]]
  BY DEF Crash, status
<1>3. Promise!Lose(ks, "lost")
  BY <1>1, <1>2 DEF Promise!Lose, ids, decided, status
<1> QED  BY <1>3

LEMMA PromiseStep ==
  ASSUME Inv, [Next]_vars
  PROVE  [Promise!Next]_(<< ids, decided, status >>)
<1>1. ASSUME NEW k \in Call, Dispatch(k) PROVE Promise!Ask(k)
  <2>1. UNCHANGED << ids, decided >>  BY <1>1 DEF Dispatch, ids, decided, durable
  <2>2. status' = [status EXCEPT ![k] = "waiting"] /\ status[k] = "idle"
    BY <1>1 DEF Dispatch, status, Inv, Typed, TypeOK
  <2> QED  BY <2>1, <2>2 DEF Promise!Ask, ids, decided, status
<1>2. ASSUME NEW k \in Call, GiveUp(k) PROVE Promise!Lose({k}, "gone")
  <2>1. UNCHANGED << ids, decided >>  BY <1>2 DEF GiveUp, ids, decided, durable
  <2>2. /\ status' = [c \in Call |-> IF c \in {k} THEN "gone" ELSE status[c]]
        /\ \A c \in {k} : status[c] = "waiting"
    BY <1>2 DEF GiveUp, status, Inv, Typed, TypeOK
  <2> QED  BY <2>1, <2>2 DEF Promise!Lose, ids, decided, status
<1>3. CASE Commit \/ CommitUnreported
  <2>1. PICK id \in CommandId : id = Id  BY IdIsCommand DEF Inv, Typed
  <2>2. Promise!Accept(id)  BY <1>3, <2>1, AcceptedInPromise DEF Commit, CommitUnreported
  <2> QED  BY <2>2 DEF Promise!Next
<1>4. CASE RecordRejection
  <2>1. PICK id \in CommandId : id = Id  BY IdIsCommand DEF Inv, Typed
  <2>2. Promise!Reject(id) \/ UNCHANGED << ids, decided, status >>
    BY <1>4, <2>1, RejectedInPromise
  <2> QED  BY <2>2 DEF Promise!Next
<1>5. CASE Reply
  <2>1. PICK k \in Call : k = current  BY DEF Inv, Typed, TypeOK
  <2>2. PICK answer : answer = outcome.status  OBVIOUS
  <2>3. \/ answer \in {"accepted", "rejected", "failed"} /\ Promise!Answer(k, answer)
        \/ UNCHANGED << ids, decided, status >>
    BY <1>5, <2>1, <2>2, AnsweredInPromise
  <2> QED  BY <2>3 DEF Promise!Next
<1>6. CASE Crash
  BY <1>6, CrashInPromise DEF Promise!Next
<1>7. CASE UNCHANGED << log, receipts, calls >>
  BY <1>7 DEF ids, decided, status
<1>8. \/ \E k \in Call : Dispatch(k) \/ GiveUp(k)
      \/ Commit \/ CommitUnreported \/ RecordRejection \/ Reply \/ Crash
      \/ UNCHANGED << log, receipts, calls >>
  BY DEF Next, Worker, vars, durable, Take, FindReceipt, Decide, Refuse, LookupFails,
         AppendEvent, RollBack, Adopt, Reconcile, ReconcileFails, PublishNext, AllPublished,
         RecordFails, Start
<1>9. ASSUME NEW k \in Call, Dispatch(k) \/ GiveUp(k) PROVE Promise!Next
  <2>1. CASE Dispatch(k)  BY <1>1, <2>1 DEF Promise!Next
  <2>2. CASE GiveUp(k)  BY <1>2, <2>2 DEF Promise!Next
  <2> QED  BY <1>9, <2>1, <2>2
<1> QED  BY <1>3, <1>4, <1>5, <1>6, <1>7, <1>8, <1>9

\* Without the queue, the transaction, the receipts and the failures, what is
\* left of the engine is the command log.
THEOREM EngineImplementsCommandLog == Spec => ImplementsCommandLog
<1>1. Init => Promise!Init
  <2> SUFFICES ASSUME Init PROVE Promise!Init  OBVIOUS
  <2>1. Len(log) = 0 /\ log = << >> /\ DOMAIN receipts = {}  BY EmptyIsSeq DEF Init
  <2>2. [i \in 1..Len(log) |-> log[i].commandId] = << >>  BY <2>1
  <2> QED  BY <2>1, <2>2 DEF Init, IdleCall, Promise!Init
<1>2. Inv /\ [Next]_vars => [Promise!Next]_(Promise!vars)
  BY PromiseStep DEF Promise!vars, ids, decided, status
<1> QED  BY <1>1, <1>2, InvHolds, PTL DEF Spec, ImplementsCommandLog, Promise!Spec
(***************************************************************************)
(* At rest the stream and the read model are level with the log.           *)
(***************************************************************************)
\* What the engine relies on: one read of the log returns a whole batch, and
\* for the decided batch the projector does to the read model what the
\* projections do to the tables, read back (the domain's own runs look at that).
BatchAgrees ==
  phase = "transaction" =>
    /\ IsSeq(batch) /\ Len(batch) <= ReadLimit
    /\ Snapshot(ProjectAllToTables(tables, batch, Len(log)))
         = ProjectEvents(Snapshot(tables), batch)

\* The sequence of the last event that subscribers got.
Told == firstSequence + Len(published)

\* The events after from come from the transaction in hand.
TailIsBatch(from) ==
  /\ IsSeq(batch) /\ Len(log) = from + Len(batch)
  /\ \A i \in (from + 1)..Len(log) : log[i] = [commandId |-> Id, event |-> batch[i - from]]

\* Phase by phase: how far the stream and the read model are.
LevelInv ==
  Reconciled =>
    /\ published = SequencesAfter(firstSequence, Told)
    /\ phase \in {"idle", "received", "transaction", "replying"} =>
         Told = Len(log) /\ snapshotSequence = Len(log) /\ readModel = Snapshot(tables)
    /\ phase = "committed" =>
         /\ Told = snapshotSequence /\ TailIsBatch(Told)
         /\ ProjectEvents(readModel, batch) = Snapshot(tables)
    /\ phase \in {"publishing", "reconciled"} =>
         /\ snapshotSequence = Len(log) /\ Told <= Len(log)
         /\ outbox = SequencesAfter(Told, Len(log)) /\ readModel = Snapshot(tables)
    /\ phase = "failed" =>
         /\ Told = snapshotSequence
         /\ \/ Len(log) = Told /\ readModel = Snapshot(tables)
            \/ /\ "commit" \in faults /\ TailIsBatch(Told) /\ Len(batch) <= ReadLimit
               /\ ProjectEvents(readModel, batch) = Snapshot(tables)
    /\ UnpublishedIsOneCommand

\* A fold over no events leaves the read model alone.
LEMMA NoEvents ==
  ASSUME NEW m
  PROVE  ProjectEvents(m, << >>) = m
<1> DEFINE F(iter) == [s \in SUBSET {} |->
             IF s = {} THEN m
             ELSE LET x == Max(s)
                  IN  projectEvent(iter[s \ {x}], << >>[x])]
<1>1. F([s \in {{}} |-> m]) = [s \in {{}} |-> m]
  OBVIOUS
<1>2. (CHOOSE iter : iter = F(iter)) = F(CHOOSE iter : iter = F(iter))
  BY <1>1
<1>3. (CHOOSE iter : iter = F(iter))[{}] = m
  BY <1>2
<1>4. DOMAIN << >> = {}
  BY EmptyIsSeq, LenOfSeq
<1> QED  BY <1>3, <1>4 DEF ProjectEvents, FoldLeft, MapThenFoldSet

LEMMA SequencesBetween ==
  ASSUME NEW from \in Nat, NEW to \in Nat, from <= to
  PROVE  /\ SequencesAfter(from, to) \in Seq(Nat)
         /\ Len(SequencesAfter(from, to)) = to - from
         /\ \A i \in 1..(to - from) : SequencesAfter(from, to)[i] = from + i
         /\ SequencesAfter(from, to) = << >> <=> from = to
<1>1. from \in Int /\ to \in Int /\ from >= 0 /\ to - from \in Nat  OBVIOUS
<1>2. /\ SequencesAfter(from, to) \in Seq(Nat)
      /\ Len(SequencesAfter(from, to)) = to - from
      /\ \A i \in 1..(to - from) : SequencesAfter(from, to)[i] = from + i
  BY <1>1, SequencesAfterType
<1>3. SequencesAfter(from, to) = << >> <=> Len(SequencesAfter(from, to)) = 0
  BY <1>2, EmptySeq
<1> QED  BY <1>2, <1>3

\* One more event in order.
LEMMA OneMoreSequence ==
  ASSUME NEW from \in Nat, NEW to \in Nat, from <= to
  PROVE  Append(SequencesAfter(from, to), to + 1) = SequencesAfter(from, to + 1)
<1> DEFINE s == SequencesAfter(from, to)
           t == SequencesAfter(from, to + 1)
<1>1. /\ s \in Seq(Nat) /\ Len(s) = to - from
      /\ \A i \in 1..(to - from) : s[i] = from + i
  BY SequencesBetween
<1>2. to + 1 \in Nat /\ from <= to + 1  OBVIOUS
<1>3. /\ t \in Seq(Nat) /\ Len(t) = to + 1 - from
      /\ \A i \in 1..(to + 1 - from) : t[i] = from + i
  BY <1>2, SequencesBetween
<1> HIDE DEF s, t
<1>4. /\ Append(s, to + 1) \in Seq(Nat) /\ Len(Append(s, to + 1)) = Len(s) + 1
      /\ \A i \in 1..Len(s) : Append(s, to + 1)[i] = s[i]
      /\ Append(s, to + 1)[Len(s) + 1] = to + 1
  BY <1>1, <1>2, AppendProperties
<1>5. \A i \in 1..Len(Append(s, to + 1)) : Append(s, to + 1)[i] = t[i]
  BY <1>1, <1>3, <1>4
<1>6. Append(s, to + 1) = t  BY SMTT(30), <1>1, <1>3, <1>4, <1>5, SeqEqual
<1> QED  BY <1>6 DEF s, t

LEMMA OneFewerSequence ==
  ASSUME NEW from \in Nat, NEW to \in Nat, from < to
  PROVE  /\ Head(SequencesAfter(from, to)) = from + 1
         /\ Tail(SequencesAfter(from, to)) = SequencesAfter(from + 1, to)
<1> DEFINE s == SequencesAfter(from, to)
           t == SequencesAfter(from + 1, to)
<1>1. /\ s \in Seq(Nat) /\ Len(s) = to - from /\ s # << >>
      /\ \A i \in 1..(to - from) : s[i] = from + i
  BY SequencesBetween
<1>2. from + 1 \in Nat /\ from + 1 <= to  OBVIOUS
<1>3. /\ t \in Seq(Nat) /\ Len(t) = to - (from + 1)
      /\ \A i \in 1..(to - (from + 1)) : t[i] = from + 1 + i
  BY <1>2, SequencesBetween
<1> HIDE DEF s, t
<1>4. /\ Head(s) = s[1] /\ Tail(s) \in Seq(Nat) /\ Len(Tail(s)) = Len(s) - 1
      /\ \A i \in 1..Len(Tail(s)) : Tail(s)[i] = s[i + 1]
  BY <1>1, HeadTailProperties
<1>5. \A i \in 1..Len(Tail(s)) : Tail(s)[i] = t[i]
  BY <1>1, <1>3, <1>4
<1>6. Len(Tail(s)) = Len(t)  BY <1>1, <1>3, <1>4
<1>7. Tail(s) = t  BY <1>3, <1>4, <1>5, <1>6, SeqEqual
<1>8. Head(s) = from + 1  BY <1>1, <1>4
<1> QED  BY <1>7, <1>8 DEF s, t

LEMMA LevelTypes ==
  ASSUME Inv
  PROVE  /\ Len(log) \in Nat /\ Len(published) \in Nat /\ firstSequence \in Nat /\ Told \in Nat
         /\ snapshotSequence \in Nat /\ dispatchStart \in Nat /\ firstSequence <= Told
         /\ published \in Seq(Nat)
BY LenOfSeq, LenProperties DEF Inv, Typed, TypeOK, Told

\* The commit adds the batch to the log and leaves the rest alone.
LEMMA CommittedLevel ==
  ASSUME Inv, LevelInv, BatchAgrees, Committed, Reconciled,
         UNCHANGED << readModel, snapshotSequence, published, firstSequence, batch, current >>
  PROVE  /\ published' = SequencesAfter(firstSequence', Told') /\ Told' = Told
         /\ Told = snapshotSequence /\ TailIsBatch(Told)' /\ Len(batch) <= ReadLimit
         /\ ProjectEvents(readModel, batch)' = Snapshot(tables)'
         /\ UnpublishedIsOneCommand'
<1>1. /\ phase = "transaction" /\ Told = Len(log) /\ snapshotSequence = Len(log)
      /\ readModel = Snapshot(tables) /\ published = SequencesAfter(firstSequence, Told)
  BY DEF Committed, LevelInv
<1>2. /\ IsSeq(batch) /\ Len(batch) <= ReadLimit
      /\ Snapshot(ProjectAllToTables(tables, batch, Len(log)))
           = ProjectEvents(Snapshot(tables), batch)
  BY <1>1 DEF BatchAgrees
<1>3. /\ Len(log) \in Nat /\ Len(log') = Len(log) + Len(batch)
      /\ \A i \in (Len(log) + 1)..Len(log') :
           log'[i] = [commandId |-> Id, event |-> batch[i - Len(log)]]
  BY CommittedStep DEF Inv
<1>4. Told' = Told /\ Id' = Id  BY DEF Told, Id
<1>5. TailIsBatch(Told)'
  BY <1>1, <1>2, <1>3, <1>4 DEF TailIsBatch
<1>6. ProjectEvents(readModel, batch)' = Snapshot(tables)'
  BY <1>1, <1>2 DEF Committed
<1>7. UnpublishedIsOneCommand'
  <2>1. \A i \in (Told' + 1)..Len(log') : log'[i].commandId = Id
    <3> TAKE i \in (Told' + 1)..Len(log')
    <3>1. i \in (Len(log) + 1)..Len(log')  BY <1>1, <1>4
    <3>2. log'[i] = [commandId |-> Id, event |-> batch[i - Len(log)]]  BY <1>3, <3>1
    <3> QED  BY <3>2
  <2> QED  BY <2>1 DEF UnpublishedIsOneCommand, Told
<1> QED  BY <1>1, <1>2, <1>4, <1>5, <1>6, <1>7

\* What the reconciliation reads, when the transaction left its batch.
LEMMA PersistedBatch ==
  ASSUME Inv, phase = "failed", dispatchStart = Told, TailIsBatch(Told), Len(batch) <= ReadLimit
  PROVE  /\ dispatchStart + Len(PersistedSince) = Len(log)
         /\ [i \in 1..Len(PersistedSince) |-> PersistedSince[i].event] = batch
<1> DEFINE d == dispatchStart
<1>1. /\ IsSeq(log) /\ Len(log) \in Nat /\ d \in Nat /\ ReadLimit \in Nat
      /\ IsSeq(batch) /\ Len(batch) \in Nat /\ Len(log) = d + Len(batch)
      /\ \A i \in (d + 1)..Len(log) : log[i] = [commandId |-> Id, event |-> batch[i - d]]
  BY LevelTypes, LenOfSeq, EngineAssumption DEF Inv, Typed, TailIsBatch
<1>2. Min({d + ReadLimit, Len(log)}) = Len(log)
  BY <1>1, MinOfTwo
<1>3. PersistedSince = SubSeq(log, d + 1, Len(log))
  BY <1>2 DEF PersistedSince
<1> HIDE DEF d
<1>4. PICK S : log \in Seq(S)  BY <1>1 DEF IsSeq
<1>5. \A i \in (d + 1)..Len(log) : log[i] \in S
  BY <1>1, <1>4, LenProperties
<1>6. /\ Len(PersistedSince) = Len(batch)
      /\ \A i \in 1..Len(batch) : PersistedSince[i] = log[d + 1 + i - 1]
  BY <1>1, <1>3, <1>5, SubSeqProperties
<1>7. \A i \in 1..Len(batch) : PersistedSince[i].event = batch[i]
  <2> TAKE i \in 1..Len(batch)
  <2>1. d + i \in (d + 1)..Len(log) /\ d + 1 + i - 1 = d + i /\ d + i - d = i  BY <1>1
  <2>2. log[d + i] = [commandId |-> Id, event |-> batch[d + i - d]]  BY <1>1, <2>1
  <2>3. PersistedSince[i] = log[d + i]  BY <1>6, <2>1
  <2> QED  BY <2>1, <2>2, <2>3
<1>8. batch = [i \in 1..Len(batch) |-> batch[i]]
  <2>1. PICK B : batch \in Seq(B)  BY <1>1 DEF IsSeq
  <2> QED  BY <2>1, LenProperties
<1> QED  BY <1>1, <1>6, <1>7, <1>8 DEF d

LEMMA ReconcileLevel ==
  ASSUME Inv, LevelInv, Reconcile, Reconciled
  PROVE  LevelInv'
<1> DEFINE events == [i \in 1..Len(PersistedSince) |-> PersistedSince[i].event]
           last == dispatchStart + Len(PersistedSince)
<1>1. /\ phase = "failed" /\ phase' = "reconciled" /\ outbox' = SequencesAfter(dispatchStart, last)
      /\ readModel' = ProjectEvents(readModel, events)
      /\ snapshotSequence' = IF PersistedSince = << >> THEN snapshotSequence ELSE last
      /\ UNCHANGED << log, tables, published, firstSequence, faults >>
  BY DEF Reconcile, durable, stream
<1>2. dispatchStart = Told /\ snapshotSequence = Told
  BY <1>1 DEF LevelInv, Inv, StreamInv
<1>3. IsSeq(PersistedSince) /\ Len(PersistedSince) \in Nat
  BY PersistedSinceLength DEF Inv
<1>4. CASE Len(log) = Told /\ readModel = Snapshot(tables)
  <2>1. Len(PersistedSince) = 0 /\ last = Len(log)
    BY <1>2, <1>3, <1>4, LevelTypes, PersistedSinceLength DEF Inv
  <2>2. PersistedSince = << >>  BY <1>3, <2>1, EmptyOrNot
  <2>3. events = << >>
    <3>1. events = [i \in {} |-> PersistedSince[i].event]  BY <2>1
    <3>2. << >> = [i \in {} |-> PersistedSince[i].event]  OBVIOUS
    <3> QED  BY <3>1, <3>2
  <2>4. readModel' = Snapshot(tables)'  BY <1>1, <1>4, <2>3, NoEvents
  <2> HIDE DEF last
  <2>5. snapshotSequence' = Len(log') /\ outbox' = SequencesAfter(Told', Len(log')) /\ Told' = Told
    BY <1>1, <1>2, <1>4, <2>1, <2>2 DEF Told
  <2> QED  BY <1>1, <1>4, <2>4, <2>5, LevelTypes DEF LevelInv, Reconciled, UnpublishedIsOneCommand, Told
<1>5. CASE /\ TailIsBatch(Told) /\ Len(batch) <= ReadLimit
           /\ ProjectEvents(readModel, batch) = Snapshot(tables)
  <2>1. last = Len(log) /\ events = batch
    BY <1>1, <1>2, <1>5, PersistedBatch
  <2>2. readModel' = Snapshot(tables)'  BY <1>1, <1>5, <2>1
  <2>3. snapshotSequence' = Len(log')
    <3>1. CASE PersistedSince = << >>
      BY <1>1, <1>2, <1>3, <2>1, <3>1, EmptyOrNot, LevelTypes
    <3>2. CASE PersistedSince # << >>
      BY <1>1, <2>1, <3>2
    <3> QED  BY <3>1, <3>2
  <2>4. Told' = Told /\ Told <= Len(log)
    BY <1>1, <1>2, <1>3, <2>1, LevelTypes DEF Told
  <2> HIDE DEF last, events
  <2> QED  BY <1>1, <1>2, <2>1, <2>2, <2>3, <2>4 DEF LevelInv, Reconciled, UnpublishedIsOneCommand, Told
<1> QED  BY <1>1, <1>4, <1>5 DEF LevelInv

LEMMA PublishLevel ==
  ASSUME Inv, LevelInv, PublishNext, Reconciled
  PROVE  LevelInv'
<1>1. /\ phase \in {"publishing", "reconciled"} /\ phase' = phase /\ outbox # << >>
      /\ published' = Append(published, Head(outbox)) /\ outbox' = Tail(outbox)
      /\ UNCHANGED << log, tables, readModel, snapshotSequence, firstSequence, faults >>
  BY DEF PublishNext, durable, model
<1>2. /\ published = SequencesAfter(firstSequence, Told) /\ outbox = SequencesAfter(Told, Len(log))
      /\ Told <= Len(log) /\ snapshotSequence = Len(log) /\ readModel = Snapshot(tables)
      /\ UnpublishedIsOneCommand
  BY <1>1 DEF LevelInv
<1>3. Told < Len(log)
  <2>1. CASE Told = Len(log)
    <3>1. outbox = << >>
      BY <1>2, <2>1, LevelTypes, SequencesBetween
    <3> QED  BY <1>1, <3>1
  <2> QED  BY <1>2, <2>1, LevelTypes
<1>4. Head(outbox) = Told + 1 /\ outbox' = SequencesAfter(Told + 1, Len(log))
  BY <1>1, <1>2, <1>3, LevelTypes, OneFewerSequence
<1>5. Told' = Told + 1
  BY <1>1, <1>4, LevelTypes, AppendProperties DEF Told
<1>6. published' = SequencesAfter(firstSequence', Told')
  BY <1>1, <1>2, <1>4, <1>5, LevelTypes, OneMoreSequence
<1>7. UnpublishedIsOneCommand'
  <2>1. \A i, j \in (Told + 1)..Len(log) : log[i].commandId = log[j].commandId
    BY <1>1, <1>2 DEF UnpublishedIsOneCommand, Told, LevelInv, Reconciled
  <2>2. \A i \in (Told' + 1)..Len(log') : i \in (Told + 1)..Len(log)
    BY <1>1, <1>5, LevelTypes
  <2> QED  BY <1>1, <2>1, <2>2 DEF UnpublishedIsOneCommand, Told
<1> QED  BY <1>1, <1>2, <1>3, <1>4, <1>5, <1>6, <1>7, LevelTypes DEF LevelInv

LEMMA LevelStep ==
  ASSUME Inv, LevelInv, BatchAgrees, [Next]_vars
  PROVE  LevelInv'
<1> SUFFICES ASSUME Reconciled'  PROVE LevelInv'
  BY DEF LevelInv
<1>1. Reconciled  BY FaultsStay DEF Reconciled
<1> USE DEF durable, model, stream, work
<1>2. ASSUME NEW k \in Call, Dispatch(k) \/ GiveUp(k)  PROVE LevelInv'
  BY <1>1, <1>2 DEF Dispatch, GiveUp, LevelInv, Told, TailIsBatch, Id, UnpublishedIsOneCommand,
                    Reconciled
<1>3. CASE Take \/ FindReceipt \/ Decide \/ AppendEvent \/ Reply
  BY <1>1, <1>3 DEF Take, FindReceipt, Decide, AppendEvent, Reply, LevelInv, Told,
                    UnpublishedIsOneCommand, Reconciled
<1>4. CASE Refuse \/ LookupFails \/ RollBack
  BY <1>1, <1>4 DEF Refuse, LookupFails, RollBack, Fails, LevelInv, Told, Reconciled,
                    UnpublishedIsOneCommand
<1>5. CASE Commit
  <2>1. Committed  BY <1>5 DEF Commit
  <2>2. /\ phase' = "committed"
        /\ UNCHANGED << readModel, snapshotSequence, published, firstSequence, batch, current >>
    BY <1>5 DEF Commit
  <2> QED  BY <1>1, <2>1, <2>2, CommittedLevel DEF LevelInv
<1>6. CASE CommitUnreported
  <2>1. Committed  BY <1>6 DEF CommitUnreported
  <2>2. /\ phase' = "failed" /\ "commit" \in faults'
        /\ UNCHANGED << readModel, snapshotSequence, published, firstSequence, batch, current >>
    BY <1>6 DEF CommitUnreported, Fails, Fault
  <2> QED  BY <1>1, <2>1, <2>2, CommittedLevel DEF LevelInv
<1>7. CASE Adopt
  <2>1. /\ Told = snapshotSequence /\ TailIsBatch(Told) /\ outcome.sequence = Len(log)
        /\ ProjectEvents(readModel, batch) = Snapshot(tables)
        /\ published = SequencesAfter(firstSequence, Told) /\ UnpublishedIsOneCommand
    BY <1>1, <1>7 DEF Adopt, LevelInv, Inv, StreamInv
  <2>2. Len(log) - Len(batch) = Told /\ Told <= Len(log)
    BY <2>1, LevelTypes, LenOfSeq DEF TailIsBatch
  <2>3. Told' = Told  BY <1>7 DEF Adopt, Told
  <2>4. UnpublishedIsOneCommand'
    BY <1>1, <1>7, <2>1 DEF Adopt, UnpublishedIsOneCommand, Reconciled
  <2> QED  BY <1>7, <2>1, <2>2, <2>3, <2>4 DEF Adopt, LevelInv
<1>8. CASE Reconcile
  BY <1>1, <1>8, ReconcileLevel
<1>9. CASE ReconcileFails
  <2>1. "reconcile" \in faults' /\ faults \subseteq faults'
    BY <1>9 DEF ReconcileFails, Fault
  <2>2. "commit" \notin faults  BY <2>1 DEF Reconciled
  <2>3. phase = "failed" /\ Told = snapshotSequence /\ Len(log) = Told /\ readModel = Snapshot(tables)
    BY <1>1, <1>9, <2>2 DEF ReconcileFails, LevelInv
  <2>4. outbox = SequencesAfter(Told, Len(log))
    <3>1. outbox = << >>  BY <2>3 DEF Inv, StreamInv
    <3>2. SequencesAfter(Told, Len(log)) = << >>
      BY SMTT(30), <2>3, LevelTypes, SequencesBetween
    <3> QED  BY <3>1, <3>2
  <2> QED  BY <1>1, <1>9, <2>3, <2>4, LevelTypes
           DEF ReconcileFails, LevelInv, Told, UnpublishedIsOneCommand, Reconciled
<1>10. CASE PublishNext
  BY <1>1, <1>10, PublishLevel
<1>11. CASE AllPublished \/ RecordRejection \/ RecordFails
  <2>1. /\ phase \in {"publishing", "reconciled"} /\ phase' = "replying" /\ outbox = << >>
        /\ UNCHANGED << log, tables, readModel, snapshotSequence, published, firstSequence >>
    BY <1>11 DEF AllPublished, RecordRejection, RecordFails
  <2>2. /\ outbox = SequencesAfter(Told, Len(log)) /\ Told <= Len(log) /\ UnpublishedIsOneCommand
        /\ snapshotSequence = Len(log) /\ readModel = Snapshot(tables)
        /\ published = SequencesAfter(firstSequence, Told)
    BY <1>1, <2>1 DEF LevelInv
  <2>3. Told = Len(log)
    BY <2>1, <2>2, LevelTypes, SequencesBetween
  <2> QED  BY <1>1, <2>1, <2>2, <2>3 DEF LevelInv, Told, UnpublishedIsOneCommand
<1>12. CASE Crash
  BY <1>1, <1>12 DEF Crash, LevelInv, Told, UnpublishedIsOneCommand, Reconciled
<1>13. CASE Start
  <2>1. /\ phase' = "idle" /\ published' = << >> /\ firstSequence' = Len(log) /\ log' = log
        /\ readModel' = Snapshot(tables') /\ snapshotSequence' = Len(log)
    BY <1>13 DEF Start
  <2>2. Told' = Len(log')
    BY <2>1, LevelTypes, EmptyIsSeq DEF Told
  <2>3. published' = SequencesAfter(firstSequence', Told')
    <3>1. SequencesAfter(Len(log), Len(log)) = << >>
      BY LevelTypes, SequencesBetween
    <3> QED  BY <2>1, <2>2, <3>1
  <2> QED  BY <2>1, <2>2, <2>3, LevelTypes DEF LevelInv, UnpublishedIsOneCommand, Told
<1>14. CASE UNCHANGED vars
  BY <1>1, <1>14 DEF vars, LevelInv, Told, TailIsBatch, Id, UnpublishedIsOneCommand, Reconciled
<1> QED  BY <1>2, <1>3, <1>4, <1>5, <1>6, <1>7, <1>8, <1>9, <1>10, <1>11, <1>12, <1>13, <1>14
         DEF Next, Worker

LEMMA LevelInit == Init => LevelInv
<1> SUFFICES ASSUME Init  PROVE LevelInv  OBVIOUS
<1>1. Told = 0  BY EmptyIsSeq DEF Init, Told
<1>2. SequencesAfter(0, 0) = << >>  BY SequencesBetween
<1> QED  BY <1>1, <1>2 DEF Init, LevelInv, UnpublishedIsOneCommand

\* As long as the batches that are decided fit one read and the two projections
\* agree on them, whatever fails and whenever the server stops: at rest the
\* stream has every event since the start and the read model is the one that a
\* restart would load, and the events still to be told are those of one command.
THEOREM StaysLevel == Spec /\ []BatchAgrees => []LevelWithTheLog
<1>1. Inv /\ LevelInv /\ BatchAgrees /\ [Next]_vars => LevelInv'  BY LevelStep
<1>2. LevelInv => LevelWithTheLog
  <2> SUFFICES ASSUME LevelInv  PROVE LevelWithTheLog  OBVIOUS
  <2>1. CaughtUp  BY DEF LevelInv, CaughtUp
  <2>2. UnpublishedIsOneCommand  BY DEF LevelInv, UnpublishedIsOneCommand
  <2> QED  BY <2>1, <2>2 DEF LevelWithTheLog
<1> QED  BY <1>1, <1>2, LevelInit, InvHolds, PTL DEF Spec
=============================================================================
