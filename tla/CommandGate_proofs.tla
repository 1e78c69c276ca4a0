-------------------------- MODULE CommandGate_proofs --------------------------
(***************************************************************************)
(* Proofs about the command gate, for any set of commands, and about the   *)
(* first message of a draft (FirstSend, at the end).                       *)
(*                                                                         *)
(* RunsOnlyWhenReady follows from what the deferred tells about the state  *)
(* (Gate).  QueuedInOrder needs the shape of the history: the queue is the *)
(* rest of offered, the worker holds the command just before it, and all   *)
(* commands before that have ended.                                        *)
(***************************************************************************)
EXTENDS MCIntake, SequenceTheorems, TLAPS

Ended == {"done", "refused"}

\* How many commands the worker has taken.
Taken == Len(offered) - Len(queue)

\* The deferred is settled as the state was set.
Gate ==
  /\ commandReady = "succeeded" => readiness = "ready"
  /\ commandReady = "failed" => readiness = "failed"

\* The queue is the rest of offered.
Rest ==
  /\ Len(queue) <= Len(offered)
  /\ \A i \in 1..Len(queue) : queue[i] = offered[Taken + i]

Distinct == \A i, j \in 1..Len(offered) : offered[i] = offered[j] => i = j

Holding ==
  held # NoCommand => /\ Taken >= 1
                      /\ offered[Taken] = held
                      /\ stage[held] \in {"queued", "running"}

TakenEnded ==
  \A i \in 1..Len(offered) : i <= Taken /\ offered[i] # held => stage[offered[i]] \in Ended

RestQueued ==
  \A i \in 1..Len(offered) : i > Taken => stage[offered[i]] = "queued"

OrderInv == Rest /\ Distinct /\ Holding /\ TakenEnded /\ RestQueued

IInv == TypeOK /\ Gate /\ RunsOnlyWhenReady /\ OrderInv

\* The commands of the queue were all offered, so the order is one of offered.
LEMMA OrderFromInv == TypeOK /\ OrderInv => QueuedInOrder
<1> SUFFICES ASSUME TypeOK, OrderInv,
                    NEW i \in 1..Len(offered), NEW j \in 1..Len(offered),
                    i < j, stage[offered[j]] \in {"running", "done"}
             PROVE  stage[offered[i]] \in Ended
  BY DEF QueuedInOrder, Ended
<1>1. /\ Taken \in Int
      /\ i \in Int /\ j \in Int
  BY DEF Taken, TypeOK
<1>2. j <= Taken
  BY <1>1 DEF OrderInv, RestQueued
<1>3. offered[i] # held
  <2> SUFFICES ASSUME offered[i] = held PROVE FALSE
    OBVIOUS
  <2>1. held # NoCommand
    BY GateAssumption DEF TypeOK
  <2>2. Taken \in 1..Len(offered) /\ offered[Taken] = held
    BY <2>1, <1>1, <1>2 DEF OrderInv, Holding, Rest, Taken, TypeOK
  <2>3. i = Taken
    BY <2>2 DEF OrderInv, Distinct
  <2> QED BY <2>3, <1>1, <1>2
<1> QED BY <1>1, <1>2, <1>3 DEF OrderInv, TakenEnded

\* The gate starts closed and with an empty queue.
LEMMA InitInv == Init => IInv
BY DEF Init, IInv, TypeOK, Gate, RunsOnlyWhenReady, OrderInv, Rest, Distinct, Holding,
       TakenEnded, RestQueued, Taken, Stages

\* A step that leaves the queue, the worker and the history, and changes the
\* stage of commands that were never offered only, keeps the order.
LEMMA OrderKept ==
  ASSUME IInv, UNCHANGED << queue, held, offered >>,
         stage' \in [Command -> Stages],
         \A c \in Command : (\E i \in 1..Len(offered) : offered[i] = c) => stage'[c] = stage[c]
  PROVE  OrderInv'
<1>1. \A i \in 1..Len(offered) : offered[i] \in Command /\ stage'[offered[i]] = stage[offered[i]]
  BY DEF IInv, TypeOK
<1>2. Holding'
  <2> SUFFICES ASSUME held # NoCommand PROVE Taken >= 1 /\ offered[Taken] = held
                                            /\ stage'[held] \in {"queued", "running"}
    BY DEF Holding, Taken
  <2>1. Taken >= 1 /\ offered[Taken] = held /\ stage[held] \in {"queued", "running"}
    BY DEF IInv, OrderInv, Holding
  <2>2. Taken \in 1..Len(offered)
    BY <2>1 DEF Taken, IInv, TypeOK, OrderInv, Rest
  <2> QED BY <2>1, <2>2, <1>1
<1>3. TakenEnded' /\ RestQueued'
  BY <1>1 DEF IInv, OrderInv, TakenEnded, RestQueued, Taken
<1> QED BY <1>2, <1>3 DEF IInv, OrderInv, Rest, Distinct, Taken

\* A command with one of these stages is not in the history.
LEMMA NeverOffered ==
  ASSUME IInv, NEW c \in Command,
         stage[c] \in {"none", "early"} \/ (stage[c] = "running" /\ held # c)
  PROVE  \A i \in 1..Len(offered) : offered[i] # c
<1> SUFFICES ASSUME NEW i \in 1..Len(offered), offered[i] = c PROVE FALSE
  OBVIOUS
<1>1. Taken \in Int /\ i \in Int
  BY DEF Taken, IInv, TypeOK
<1>2. CASE i > Taken
  BY <1>2 DEF IInv, OrderInv, RestQueued
<1>3. CASE i <= Taken /\ held # c
  BY <1>3 DEF IInv, OrderInv, TakenEnded, Ended
<1>4. CASE held = c
  BY <1>4, GateAssumption DEF IInv, OrderInv, Holding
<1> QED BY <1>1, <1>2, <1>3, <1>4

\* Every step keeps the inductive invariant.
LEMMA NextInv == IInv /\ [Next]_vars => IInv'
<1> SUFFICES ASSUME IInv, [Next]_vars PROVE IInv'
  OBVIOUS
<1>1. ASSUME NEW outcome \in {"ready", "failed"}, SetReadiness(outcome) PROVE IInv'
  <2>1. TypeOK' /\ Gate' /\ RunsOnlyWhenReady'
    BY <1>1 DEF SetReadiness, IInv, TypeOK, Gate, RunsOnlyWhenReady
  <2>2. OrderInv'
    BY <1>1, OrderKept DEF SetReadiness, IInv, TypeOK
  <2> QED BY <2>1, <2>2 DEF IInv
<1>2. CASE SettleCommandReady
  <2>1. TypeOK' /\ Gate' /\ RunsOnlyWhenReady'
    BY <1>2 DEF SettleCommandReady, IInv, TypeOK, Gate, RunsOnlyWhenReady
  <2>2. OrderInv'
    BY <1>2, OrderKept DEF SettleCommandReady, IInv, TypeOK
  <2> QED BY <2>1, <2>2 DEF IInv
<1>3. ASSUME NEW c \in Command, enqueueCommand(c) PROVE IInv'
  <2>1. TypeOK' /\ Gate' /\ RunsOnlyWhenReady'
    BY <1>3 DEF enqueueCommand, IInv, TypeOK, Gate, RunsOnlyWhenReady, gate, Stages
  <2>2. OrderInv'
    BY <1>3, <2>1, OrderKept, NeverOffered DEF enqueueCommand, IInv, TypeOK
  <2> QED BY <2>1, <2>2 DEF IInv
<1>4. ASSUME NEW c \in Command, Offer(c) PROVE IInv'
  <2>1. TypeOK' /\ Gate' /\ RunsOnlyWhenReady'
    BY <1>4 DEF Offer, IInv, TypeOK, Gate, RunsOnlyWhenReady, gate, Stages
  <2>2. \A i \in 1..Len(offered) : offered[i] # c /\ offered[i] \in Command
    BY <1>4, NeverOffered DEF Offer, IInv, TypeOK
  <2>3. /\ Len(offered') = Len(offered) + 1 /\ Len(queue') = Len(queue) + 1
        /\ offered'[Len(offered) + 1] = c /\ queue'[Len(queue) + 1] = c
        /\ \A i \in 1..Len(offered) : offered'[i] = offered[i]
        /\ \A i \in 1..Len(queue) : queue'[i] = queue[i]
        /\ held' = held
        /\ Len(offered) \in Nat /\ Len(queue) \in Nat
    BY <1>4 DEF Offer, IInv, TypeOK, gate
  <2>4. Taken' = Taken
    BY <2>3 DEF Taken
  <2>5. Rest'
    <3>1. Len(queue) <= Len(offered) /\ Taken = Len(offered) - Len(queue)
      BY DEF IInv, OrderInv, Rest, Taken
    <3>2. ASSUME NEW i \in 1..Len(queue) PROVE queue'[i] = offered'[Taken + i]
      <4>1. Taken + i \in 1..Len(offered)
        BY <3>1, <2>3
      <4>2. queue[i] = offered[Taken + i]
        BY DEF IInv, OrderInv, Rest
      <4> QED BY <4>1, <4>2, <2>3
    <3>3. queue'[Len(queue) + 1] = offered'[Taken + (Len(queue) + 1)]
      <4>1. Taken + (Len(queue) + 1) = Len(offered) + 1
        BY <3>1, <2>3
      <4> QED BY <4>1, <2>3
    <3>4. \A i \in 1..Len(queue') : queue'[i] = offered'[Taken' + i]
      <4> SUFFICES ASSUME NEW i \in 1..Len(queue') PROVE queue'[i] = offered'[Taken + i]
        BY <2>4
      <4>1. i \in 1..Len(queue) \/ i = Len(queue) + 1
        BY <2>3
      <4> QED BY <4>1, <3>2, <3>3
    <3>5. Len(queue') <= Len(offered')
      BY <3>1, <2>3
    <3> QED BY <3>4, <3>5 DEF Rest
  <2>6. Distinct'
    BY <2>2, <2>3 DEF Distinct, IInv, OrderInv
  <2>7. Holding'
    <3> SUFFICES ASSUME held # NoCommand
                 PROVE  Taken >= 1 /\ offered'[Taken] = held
                        /\ stage'[held] \in {"queued", "running"}
      BY <2>3, <2>4 DEF Holding
    <3>1. Taken >= 1 /\ offered[Taken] = held /\ stage[held] \in {"queued", "running"}
      BY DEF IInv, OrderInv, Holding
    <3>2. Taken \in 1..Len(offered)
      BY <3>1, <2>3 DEF Taken, IInv, OrderInv, Rest
    <3>3. held # c
      BY <3>1, <3>2, <2>2
    <3>4. stage'[held] = stage[held]
      BY <1>4, <3>3 DEF Offer, IInv, TypeOK
    <3> QED BY <3>1, <3>2, <3>4, <2>3
  <2>8. \A i \in 1..Len(offered) : stage'[offered[i]] = stage[offered[i]]
    BY <1>4, <2>2 DEF Offer, IInv, TypeOK
  <2>9. TakenEnded'
    <3> SUFFICES ASSUME NEW i \in 1..Len(offered'), i <= Taken, offered'[i] # held
                 PROVE  stage'[offered'[i]] \in Ended
      BY <2>3, <2>4 DEF TakenEnded
    <3>1. i \in 1..Len(offered)
      BY <2>3 DEF Taken
    <3> QED BY <3>1, <2>3, <2>8 DEF IInv, OrderInv, TakenEnded
  <2>10. RestQueued'
    <3> SUFFICES ASSUME NEW i \in 1..Len(offered'), i > Taken
                 PROVE  stage'[offered'[i]] = "queued"
      BY <2>4 DEF RestQueued
    <3>1. CASE i = Len(offered) + 1
      BY <3>1, <1>4, <2>3 DEF Offer, IInv, TypeOK
    <3>2. CASE i \in 1..Len(offered)
      BY <3>2, <2>3, <2>8 DEF IInv, OrderInv, RestQueued
    <3> QED BY <3>1, <3>2, <2>3
  <2> QED BY <2>1, <2>5, <2>6, <2>7, <2>9, <2>10 DEF IInv, OrderInv
<1>5. ASSUME NEW c \in Command, EndDirect(c) PROVE IInv'
  <2>1. TypeOK' /\ Gate' /\ RunsOnlyWhenReady'
    BY <1>5 DEF EndDirect, IInv, TypeOK, Gate, RunsOnlyWhenReady, gate, Stages
  <2>2. OrderInv'
    BY <1>5, <2>1, OrderKept, NeverOffered DEF EndDirect, IInv, TypeOK
  <2> QED BY <2>1, <2>2 DEF IInv
<1>6. ASSUME NEW c \in Command, Leave(c) PROVE IInv'
  <2>1. TypeOK' /\ Gate' /\ RunsOnlyWhenReady'
    BY <1>6 DEF Leave, IInv, TypeOK, Gate, RunsOnlyWhenReady, gate, Stages
  <2>2. OrderInv'
    BY <1>6, <2>1, OrderKept, NeverOffered DEF Leave, IInv, TypeOK
  <2> QED BY <2>1, <2>2 DEF IInv
<1>7. CASE Take
  <2>1. TypeOK' /\ Gate' /\ RunsOnlyWhenReady'
    BY <1>7 DEF Take, IInv, TypeOK, Gate, RunsOnlyWhenReady, gate, Stages
  <2>2. /\ held = NoCommand /\ held' = queue[1] /\ held' \in Command
        /\ Len(queue) \in Nat \ {0} /\ Len(queue') = Len(queue) - 1
        /\ \A i \in 1..Len(queue') : queue'[i] = queue[i + 1]
        /\ offered' = offered /\ stage' = stage
        /\ Len(offered) \in Nat
    BY <1>7 DEF Take, IInv, TypeOK
  <2>3. Taken' = Taken + 1 /\ Taken \in Nat /\ Taken + 1 \in 1..Len(offered)
    BY <2>2 DEF Taken, IInv, OrderInv, Rest
  <2>4. offered[Taken + 1] = held'
    BY <2>2 DEF IInv, OrderInv, Rest
  <2>5. Rest'
    <3> SUFFICES ASSUME NEW i \in 1..Len(queue') PROVE queue'[i] = offered[Taken + 1 + i]
      BY <2>2, <2>3 DEF Rest, IInv, OrderInv
    <3>1. i + 1 \in 1..Len(queue)
      BY <2>2
    <3>2. queue[i + 1] = offered[Taken + (i + 1)]
      BY <3>1 DEF IInv, OrderInv, Rest
    <3>3. Taken + (i + 1) = Taken + 1 + i
      BY <2>3
    <3> QED BY <3>2, <3>3, <2>2
  <2>6. Distinct'
    BY <2>2 DEF Distinct, IInv, OrderInv
  <2>7. Holding'
    BY <2>2, <2>3, <2>4 DEF Holding, IInv, OrderInv, RestQueued
  <2>8. TakenEnded'
    <3> SUFFICES ASSUME NEW i \in 1..Len(offered), i <= Taken + 1, offered[i] # held'
                 PROVE  stage[offered[i]] \in Ended
      BY <2>2, <2>3 DEF TakenEnded
    <3>1. i <= Taken
      BY <2>3, <2>4
    <3>2. offered[i] # held
      BY <2>2, GateAssumption DEF IInv, TypeOK
    <3> QED BY <3>1, <3>2 DEF IInv, OrderInv, TakenEnded
  <2>9. RestQueued'
    BY <2>2, <2>3 DEF RestQueued, IInv, OrderInv
  <2> QED BY <2>1, <2>5, <2>6, <2>7, <2>8, <2>9 DEF IInv, OrderInv
<1>8. CASE RunHeld \/ SettleHeld
  <2>1. TypeOK' /\ Gate' /\ RunsOnlyWhenReady'
    BY <1>8 DEF RunHeld, SettleHeld, IInv, TypeOK, Gate, RunsOnlyWhenReady, gate, Stages
  <2>2. /\ held \in Command /\ queue' = queue /\ offered' = offered
        /\ held' \in {held, NoCommand}
        /\ \A c \in Command : c # held => stage'[c] = stage[c]
        /\ held' = held => stage'[held] = "running"
        /\ held' # held => stage'[held] \in Ended
    BY <1>8 DEF RunHeld, SettleHeld, IInv, TypeOK, gate, Ended
  <2>3. /\ Taken \in 1..Len(offered) /\ offered[Taken] = held /\ Taken' = Taken
        /\ Taken \in Int
    BY <2>2, GateAssumption DEF IInv, TypeOK, OrderInv, Holding, Rest, Taken
  <2>4. \A i \in 1..Len(offered) : offered[i] \in Command /\ (offered[i] = held => i = Taken)
    BY <2>3 DEF IInv, TypeOK, OrderInv, Distinct
  <2>5. Rest' /\ Distinct'
    BY <2>2, <2>3 DEF Rest, Distinct, IInv, OrderInv
  <2>6. Holding'
    BY <2>2, <2>3 DEF Holding
  <2>7. TakenEnded'
    <3> SUFFICES ASSUME NEW i \in 1..Len(offered), i <= Taken, offered[i] # held'
                 PROVE  stage'[offered[i]] \in Ended
      BY <2>2, <2>3 DEF TakenEnded
    <3>1. CASE offered[i] = held
      BY <3>1, <2>2
    <3>2. CASE offered[i] # held
      BY <3>2, <2>2, <2>4 DEF IInv, OrderInv, TakenEnded
    <3> QED BY <3>1, <3>2
  <2>8. RestQueued'
    <3> SUFFICES ASSUME NEW i \in 1..Len(offered), i > Taken
                 PROVE  stage'[offered[i]] = "queued"
      BY <2>2, <2>3 DEF RestQueued
    <3>1. offered[i] # held
      BY <2>3, <2>4
    <3> QED BY <3>1, <2>2, <2>4 DEF IInv, OrderInv, RestQueued
  <2> QED BY <2>1, <2>5, <2>6, <2>7, <2>8 DEF IInv, OrderInv
<1>9. CASE UNCHANGED vars
  <2>1. TypeOK' /\ Gate' /\ RunsOnlyWhenReady'
    BY <1>9 DEF vars, gate, IInv, TypeOK, Gate, RunsOnlyWhenReady
  <2>2. OrderInv'
    BY <1>9, <2>1, OrderKept DEF vars, IInv, TypeOK
  <2> QED BY <2>1, <2>2 DEF IInv
<1> QED BY <1>1, <1>2, <1>3, <1>4, <1>5, <1>6, <1>7, <1>8, <1>9 DEF Next

LEMMA InvHolds == Spec => []IInv
BY InitInv, NextInv, PTL DEF Spec

\* The gate keeps its types.
THEOREM TypeCorrect == Spec => []TypeOK
<1>1. IInv => TypeOK
  BY DEF IInv
<1> QED BY <1>1, InvHolds, PTL

\* No command runs before the server is ready (makeCommandGate).
THEOREM ReadyFirst == Spec => []RunsOnlyWhenReady
<1>1. IInv => RunsOnlyWhenReady
  BY DEF IInv
<1> QED BY <1>1, InvHolds, PTL

\* Early commands run one at a time, in the order in which they came.
THEOREM InOrder == Spec => []QueuedInOrder
<1>1. IInv => QueuedInOrder
  BY OrderFromInv DEF IInv
<1> QED BY <1>1, InvHolds, PTL

\* No command overtakes the startup, nor one that was queued before it, for any
\* commands.
THEOREM KeepsOrder == Spec => []GateKeepsOrder
BY TypeCorrect, ReadyFirst, InOrder, PTL DEF GateKeepsOrder

-----------------------------------------------------------------------------
(***************************************************************************)
(* Proofs about FirstSend, for any sends.  Who creates the thread is known *)
(* whatever happens.  With a patient user, a connection that lasts and a   *)
(* cleanup that does not fail, one send is under way at a time             *)
(* (OneUnderway), the thread is as far as that send is (ThreadFollows),    *)
(* and the client is about to show what the server has (ClientFollows).    *)
(***************************************************************************)
SendBounds ==
  /\ None \notin Sends
  /\ MaxDrops \in Nat

Commands == {"create", "meta", "start", "delete"}

\* One send is under way at a time, and the engineQueue holds its command.
OneUnderway ==
  /\ \A s \in Sends : saga[s] = "idle" <=> answer[s] = "none"
  /\ \A s \in Sends : answer[s] = "ok" => saga[s] = "ok"
  /\ \A s \in Sends : answer[s] = "error" => saga[s] = "failed"
  /\ \A s \in Sends : saga[s] # "interrupted"
  /\ \A s, t \in Sends : answer[s] = "sending" /\ answer[t] = "sending" => s = t
  /\ engineQueue = << >> \/ \E s \in Sends : saga[s] \in Commands /\ engineQueue = << <<s, saga[s]>> >>
  /\ \A s \in Sends : saga[s] \in Commands => engineQueue = << <<s, saga[s]>> >>

Untouched == turns = {} /\ worktree = None /\ disk = {}

\* The worktree stays behind only when the thread could not be told of it.
Tidy == "meta" \notin failed => disk \subseteq {worktree}

Underway(s) ==
  saga[s] \in {"create", "created", "git", "meta", "setup", "start", "undo", "delete"}

\* How far the thread is when a send is.
ThreadFollows ==
  /\ \A s \in Sends :
       /\ saga[s] \in {"idle", "create"} => ~ created[s]
       /\ s \in turns => saga[s] = "ok"
       /\ saga[s] = "create" => thread = "absent" /\ "worktree" \in asks[s]
       /\ saga[s] \in {"created", "git"} =>
            thread = "live" /\ created[s] /\ Untouched /\ "worktree" \in asks[s]
       /\ saga[s] \in {"undo", "delete"} => thread = "live" /\ created[s] /\ turns = {} /\ Tidy
       /\ saga[s] = "meta" =>
            /\ thread = "live" /\ created[s] /\ turns = {} /\ worktree = None /\ disk = {s}
            /\ "worktree" \in asks[s]
       /\ saga[s] = "setup" =>
            thread = "live" /\ created[s] /\ turns = {} /\ worktree = s /\ disk = {s}
       /\ saga[s] = "start" =>
            /\ thread = "live"
            /\ turns = {} => created[s] /\ worktree = s /\ disk = {s}
            /\ turns # {} => ~ created[s] /\ "worktree" \notin asks[s]
       /\ saga[s] = "ok" => thread = "live" /\ turns # {}
  /\ thread = "absent" => Untouched
  /\ thread = "deleted" => turns = {} /\ Tidy
  /\ thread = "live" /\ turns # {} => disk \subseteq {worktree}
  /\ thread = "live" /\ turns = {} => \E s \in Sends : Underway(s) /\ saga[s] # "create"

CurrentView ==
  IF turns # {} THEN "started" ELSE IF worktree # None THEN "worktree" ELSE "empty"

\* What the client is about to show.
ClientFollows ==
  /\ link = "up"
  /\ thread = "absent" => stream = << >> /\ shown = "none" /\ route = "draft"
  /\ thread = "live" =>
       /\ \A i \in 1..Len(stream) : stream[i] \in Drafts!Views
       /\ route # "home"
       /\ stream # << >> => stream[Len(stream)] = CurrentView
       /\ stream = << >> => shown = CurrentView
       /\ stream = << >> /\ turns # {} => route = "server"
  /\ thread = "deleted" =>
       /\ stream # << >> => stream[Len(stream)] = "removed"
       /\ stream = << >> => route = "home" /\ shown = "none"

CreatedIsThere == \A s \in Sends : created[s] => thread # "absent"
AnyInv == Drafts!TypeOK /\ CreatedIsThere /\ Drafts!OneCreator
CalmInv == OneUnderway /\ ThreadFollows /\ ClientFollows

LEMMA SingletonSeq ==
  ASSUME NEW S, NEW x \in S
  PROVE  <<x>> \in Seq(S) /\ Len(<<x>>) = 1 /\ Append(<< >>, x) = <<x>> /\ Tail(<<x>>) = << >>
  <1>1. <<x>> \in Seq(S) /\ Len(<<x>>) = 1 /\ <<x>>[1] = x
    OBVIOUS
  <1>2. << >> \in Seq(S) /\ Append(<< >>, x) \in Seq(S)
    BY EmptySeq, AppendProperties
  <1>3. Len(Append(<< >>, x)) = 1 /\ Append(<< >>, x)[1] = x
    BY <1>2, EmptySeq, AppendProperties
  <1>4. Append(<< >>, x) = <<x>>
    BY <1>1, <1>2, <1>3, SeqEqual
  <1>5. <<x>> # << >>
    BY <1>1, EmptySeq
  <1>6. Len(Tail(<<x>>)) = 0 /\ Tail(<<x>>) \in Seq(S)
    BY <1>1, <1>5, HeadTailProperties
  <1> QED BY <1>1, <1>4, <1>6, EmptySeq

LEMMA TailFacts ==
  ASSUME NEW S, NEW q \in Seq(S), q # << >>
  PROVE  /\ q[1] \in {q[i] : i \in 1..Len(q)}
         /\ \A i \in 1..Len(Tail(q)) : Tail(q)[i] \in {q[j] : j \in 1..Len(q)}
         /\ Len(q) = 1 => Tail(q) = << >>
         /\ Len(q) # 1 => Tail(q) # << >> /\ Tail(q)[Len(Tail(q))] = q[Len(q)]
  <1>1. Len(q) \in Nat \ {0}
    BY EmptySeq
  <1>2. /\ Tail(q) \in Seq(S) /\ Len(Tail(q)) = Len(q) - 1
        /\ \A i \in 1..Len(Tail(q)) : Tail(q)[i] = q[i + 1]
    BY HeadTailProperties
  <1>3. 1 \in 1..Len(q) /\ \A i \in 1..Len(Tail(q)) : i + 1 \in 1..Len(q)
    BY <1>1, <1>2
  <1>4. ASSUME Len(q) = 1 PROVE Tail(q) = << >>
    <2>1. Len(Tail(q)) = 0
      BY <1>1, <1>2, <1>4
    <2> QED BY <1>2, <2>1, EmptySeq
  <1>5. ASSUME Len(q) # 1 PROVE Tail(q) # << >> /\ Tail(q)[Len(Tail(q))] = q[Len(q)]
    <2>1. Len(Tail(q)) \in 1..Len(Tail(q)) /\ Len(Tail(q)) # 0 /\ Len(Tail(q)) + 1 = Len(q)
      BY <1>1, <1>2, <1>5
    <2> QED BY <1>2, <2>1, EmptySeq
  <1> QED BY <1>2, <1>3, <1>4, <1>5

LEMMA AppendFacts ==
  ASSUME NEW S, NEW q \in Seq(S), NEW x \in S
  PROVE  /\ Append(q, x) # << >> /\ Append(q, x)[Len(Append(q, x))] = x
         /\ \A i \in 1..Len(Append(q, x)) :
              Append(q, x)[i] = x \/ Append(q, x)[i] \in {q[j] : j \in 1..Len(q)}
  <1>1. /\ Append(q, x) # << >> /\ Len(Append(q, x)) = Len(q) + 1 /\ Len(q) \in Nat
        /\ \A i \in 1..Len(q) : Append(q, x)[i] = q[i]
        /\ Append(q, x)[Len(q) + 1] = x
    BY AppendProperties, LenProperties
  <1>2. \A i \in 1..(Len(q) + 1) : i \in 1..Len(q) \/ i = Len(q) + 1
    BY <1>1
  <1> QED BY <1>1, <1>2

LEMMA UnderwayIsSending ==
  ASSUME Drafts!TypeOK, OneUnderway, NEW s \in Sends, Underway(s)
  PROVE  answer[s] = "sending"
BY DEF Drafts!TypeOK, OneUnderway, Underway

LEMMA DraftsTyped ==
  SendBounds /\ Drafts!TypeOK /\ [Drafts!Next]_<<patient, Drafts!vars>> => Drafts!TypeOK'
  <1> SUFFICES ASSUME SendBounds, Drafts!TypeOK, [Drafts!Next]_<<patient, Drafts!vars>> PROVE Drafts!TypeOK'
    OBVIOUS
  <1>s. UNCHANGED patient
    BY DEF Drafts!Next
  <1> USE <1>s
  <1> DEFINE Cmd == {"create", "meta", "start", "delete"}
             Shows == Drafts!Views \cup {"removed", "no thread"}
  <1>t. /\ engineQueue \in Seq(Sends \X Cmd) /\ stream \in Seq(Shows)
        /\ drops \in 0..MaxDrops /\ saga \in [Sends -> Drafts!Stages]
    BY DEF Drafts!TypeOK
  <1>d. ASSUME NEW s \in Sends, NEW c \in Cmd, Drafts!Dispatch(s, c)
        PROVE  saga' \in [Sends -> Drafts!Stages] /\ engineQueue' \in Seq(Sends \X Cmd)
    <2>1. engineQueue \in Seq(Sends \X Cmd) /\ <<s, c>> \in Sends \X Cmd
      BY <1>t
    <2>2. engineQueue' \in Seq(Sends \X Cmd)
      BY <1>d, <2>1, AppendProperties DEF Drafts!Dispatch
    <2>3. c \in Drafts!Stages
      BY DEF Drafts!Stages
    <2> QED BY <1>d, <1>t, <2>2, <2>3 DEF Drafts!Dispatch
  <1>e. \A s \in Sends, c \in Cmd : Drafts!Dispatch(s, c) =>
          saga' \in [Sends -> Drafts!Stages] /\ engineQueue' \in Seq(Sends \X Cmd)
    BY <1>d
  <1>1. CASE Drafts!Process
    <2>1. engineQueue[1] \in Sends \X Cmd /\ engineQueue' \in Seq(Sends \X Cmd)
      <3>1. engineQueue # << >> /\ engineQueue \in Seq(Sends \X Cmd)
        BY <1>1, <1>t DEF Drafts!Process
      <3>2. Len(engineQueue) \in Nat \ {0}
        BY <3>1, EmptySeq
      <3>3. 1 \in 1..Len(engineQueue)
        BY <3>2
      <3> QED BY <1>1, <3>1, <3>3, ElementOfSeq, HeadTailProperties DEF Drafts!Process
    <2>2. PICK s \in Sends, c \in Cmd : engineQueue[1] = <<s, c>>
      BY <2>1
    <2>a. engineQueue[1][1] = s /\ engineQueue[1][2] = c
      BY <2>2
    <2>b. Drafts!Decided(c) \in Drafts!Stages
      BY DEF Drafts!Decided, Drafts!Stages
    <2>f. Drafts!AfterFailure(s) \in Drafts!Stages
      BY DEF Drafts!AfterFailure, Drafts!Stages
    <2>c. saga' \in [Sends -> Drafts!Stages]
      <3>1. PICK x \in Drafts!Stages : saga' = saga \/ saga' = [saga EXCEPT ![s] = x]
        <4>1. saga' \in {saga, [saga EXCEPT ![s] = Drafts!Decided(c)],
                         [saga EXCEPT ![s] = Drafts!AfterFailure(s)]}
          BY <1>1, <2>a DEF Drafts!Process
        <4> QED BY <2>b, <2>f, <4>1
      <3> QED BY <1>t, <3>1
    <2>3. /\ thread' \in {"absent", "live", "deleted"}
          /\ worktree' \in Sends \cup {None}
          /\ turns' \subseteq Sends /\ failed' \subseteq MayFail
      <3>1. thread' \in {thread, "live", "deleted"} /\ worktree' \in {s, worktree}
        BY <1>1, <2>a DEF Drafts!Process
      <3>2. turns' \in {turns, turns \cup {s}}
        BY <1>1, <2>a DEF Drafts!Process
      <3>3. failed' = failed \/ (c \in MayFail /\ failed' = failed \cup {c})
        BY <1>1, <2>a DEF Drafts!Process
      <3> QED BY <3>1, <3>2, <3>3 DEF Drafts!TypeOK
    <2>d. created' \in [Sends -> BOOLEAN]
      <3>1. created \in [Sends -> BOOLEAN]
        BY DEF Drafts!TypeOK
      <3>2. PICK b \in BOOLEAN : created' = [created EXCEPT ![s] = b]
        <4>1. created[s] \in BOOLEAN
          BY <3>1
        <4>2. PICK a \in BOOLEAN :
                created' = [created EXCEPT ![s] = @ \/ (saga[s] = c /\ c = "create" /\ a)]
          BY <1>1, <2>a DEF Drafts!Process
        <4> QED BY <4>1, <4>2
      <3> QED BY <3>1, <3>2
    <2>4. Drafts!View \in Drafts!Views
      BY DEF Drafts!View, Drafts!Views
    <2>5. stream' \in Seq(Shows)
      <3>1. Drafts!View \in Shows /\ "removed" \in Shows
        BY <2>4
      <3>2. Append(stream, "removed") \in Seq(Shows) /\ Append(stream, Drafts!View) \in Seq(Shows)
        BY <1>t, <3>1, AppendProperties
      <3>3. stream' \in {stream, Append(stream, "removed"), Append(stream, Drafts!View)}
        BY <1>1 DEF Drafts!Process
      <3> QED BY <1>t, <3>2, <3>3
    <2> QED BY <1>1, <2>1, <2>c, <2>3, <2>d, <2>5 DEF Drafts!Process, Drafts!client, Drafts!TypeOK
  <1>2. CASE Drafts!Type \/ Drafts!OpenThread
    BY <1>2 DEF Drafts!Type, Drafts!OpenThread, Drafts!server, Drafts!TypeOK
  <1>3. CASE Drafts!Receive
    <2>1. stream \in Seq(Shows) /\ stream # << >>
      BY <1>3, <1>t DEF Drafts!Receive
    <2>2. stream' \in Seq(Shows)
      BY <1>3, <2>1, HeadTailProperties DEF Drafts!Receive
    <2>3. /\ shown' \in Drafts!Views \cup {"none"}
          /\ draft' \in {"plain", "promoting", "gone"}
          /\ route' \in {"draft", "server", "home"}
          /\ text' \in {"typed", "sent", "lost"}
      BY <1>3 DEF Drafts!Receive, Drafts!Upserted, Drafts!ThreadRemoved, Drafts!NoThread, Drafts!TypeOK
    <2> QED BY <1>3, <2>2, <2>3 DEF Drafts!Receive, Drafts!server, Drafts!TypeOK
  <1>4. CASE Drafts!Drop
    <2>1. << >> \in Seq(Shows)
      BY EmptySeq
    <2>2. drops' \in 0..MaxDrops
      <3>1. drops' = drops + 1 /\ drops < MaxDrops
        BY <1>4 DEF Drafts!Drop
      <3>2. MaxDrops \in Nat
        BY DEF SendBounds
      <3> HIDE DEF Shows, Cmd
      <3> QED BY <1>t, <3>1, <3>2
    <2> QED BY ZenonT(40), <1>4, <2>1, <2>2 DEF Drafts!Drop, Drafts!server, Drafts!Restored, Drafts!TypeOK
  <1>5. CASE Drafts!Reconnect
    <2>1. PICK x \in Shows : stream' = <<x>>
      BY <1>5 DEF Drafts!Reconnect, Drafts!Views
    <2>2. <<x>> \in Seq(Shows)
      BY SingletonSeq
    <2>3. stream' \in Seq(Shows)
      BY <2>1, <2>2
    <2> QED BY ZenonT(40), <1>5, <2>3 DEF Drafts!Reconnect, Drafts!server, Drafts!client, Drafts!TypeOK
  <1>6. CASE \E s \in Sends : Drafts!Saga(s)
    <2>1. PICK s \in Sends : Drafts!Saga(s)
      BY <1>6
    <2>2. saga' \in [Sends -> Drafts!Stages] /\ engineQueue' \in Seq(Sends \X Cmd)
      <3>1. \A x \in {"git", "failed"} : saga' = [saga EXCEPT ![s] = x] => saga' \in [Sends -> Drafts!Stages]
        BY <1>t DEF Drafts!Stages
      <3>2. CASE Drafts!AfterCreate(s)
        BY <1>e, <1>t, <3>1, <3>2 DEF Drafts!AfterCreate
      <3>3. CASE Drafts!WorktreeCreated(s)
        BY <1>e, <3>3 DEF Drafts!WorktreeCreated
      <3>4. CASE Drafts!WorktreeFails(s)
        BY <1>t, <3>4 DEF Drafts!WorktreeFails, Drafts!AfterFailure, Drafts!Stages
      <3>6. CASE Drafts!CleanUp(s)
        BY <1>e, <3>6 DEF Drafts!CleanUp
      <3>5. CASE Drafts!Setup(s)
        BY <1>e, <3>5 DEF Drafts!Setup
      <3> QED BY <2>1, <3>2, <3>3, <3>4, <3>5, <3>6 DEF Drafts!Saga
    <2>3. disk' \subseteq Sends
      BY <2>1 DEF Drafts!Saga, Drafts!AfterCreate, Drafts!WorktreeCreated, Drafts!WorktreeFails, Drafts!CleanUp, Drafts!Setup,
                  Drafts!TypeOK
    <2>4. UNCHANGED <<thread, worktree, turns, created, failed, link, stream, drops, asks, answer, shown,
                      draft, route, text>>
      BY <2>1 DEF Drafts!Saga, Drafts!AfterCreate, Drafts!WorktreeCreated, Drafts!WorktreeFails, Drafts!CleanUp, Drafts!Setup, Drafts!client
    <2> QED BY ZenonT(40), <2>2, <2>3, <2>4 DEF Drafts!TypeOK
  <1>7. CASE \E s \in Sends : Drafts!Interrupt(s)
    <2>1. PICK s \in Sends : Drafts!Interrupt(s)
      BY <1>7
    <2>2. saga' \in [Sends -> Drafts!Stages]
      BY <1>t, <2>1 DEF Drafts!Interrupt, Drafts!Stages
    <2>3. disk' \subseteq Sends
      BY <2>1 DEF Drafts!Interrupt, Drafts!TypeOK
    <2> QED BY ZenonT(40), <2>1, <2>2, <2>3 DEF Drafts!Interrupt, Drafts!client, Drafts!TypeOK
  <1>8. CASE \E s \in Sends : Drafts!Send(s)
    <2>1. PICK s \in Sends : Drafts!Send(s)
      BY <1>8
    <2>2. saga' \in [Sends -> Drafts!Stages] /\ engineQueue' \in Seq(Sends \X Cmd)
      <3>1. saga' = [saga EXCEPT ![s] = "git"] => saga' \in [Sends -> Drafts!Stages]
        BY <1>t DEF Drafts!Stages
      <3> QED BY <1>e, <1>t, <2>1, <3>1 DEF Drafts!Send
    <2>3. /\ asks' \in [Sends -> SUBSET {"thread", "worktree"}]
          /\ answer' \in [Sends -> {"none", "sending", "ok", "error"}]
      <3>1. PICK a \in SUBSET {"thread", "worktree"} : asks' = [asks EXCEPT ![s] = a]
        BY <2>1 DEF Drafts!Send
      <3> QED BY <2>1, <3>1 DEF Drafts!Send, Drafts!TypeOK
    <2> QED BY <2>1, <2>2, <2>3 DEF Drafts!Send, Drafts!TypeOK
  <1>9. CASE \E s \in Sends : Drafts!Answered(s)
    BY ZenonT(40), <1>9 DEF Drafts!Answered, Drafts!server, Drafts!Restored, Drafts!TypeOK
  <1>10. CASE UNCHANGED <<patient, Drafts!vars>>
    BY ZenonT(40), <1>10 DEF Drafts!vars, Drafts!server, Drafts!client, Drafts!TypeOK
  <1> QED BY <1>1, <1>2, <1>3, <1>4, <1>5, <1>6, <1>7, <1>8, <1>9, <1>10 DEF Drafts!Next

\* Only the decision on a creation makes a creator, and no thread is absent again.
LEMMA CreatorsNext ==
  SendBounds /\ AnyInv /\ [Drafts!Next]_<<patient, Drafts!vars>> => (CreatedIsThere /\ Drafts!OneCreator)'
  <1> SUFFICES ASSUME SendBounds, AnyInv, [Drafts!Next]_<<patient, Drafts!vars>>
               PROVE  (CreatedIsThere /\ Drafts!OneCreator)'
    OBVIOUS
  <1>i. Drafts!TypeOK /\ CreatedIsThere /\ Drafts!OneCreator
    BY DEF AnyInv
  <1>1. CASE Drafts!Process
    <2>1. PICK s, c : s = engineQueue[1][1] /\ c = engineQueue[1][2]
      OBVIOUS
    <2>a. PICK a \in BOOLEAN :
            /\ a => Drafts!Allowed(c)
            /\ thread' = IF ~a THEN thread
                         ELSE IF c = "create" THEN "live"
                         ELSE IF c = "delete" THEN "deleted" ELSE thread
            /\ created' = [created EXCEPT ![s] = @ \/ (saga[s] = c /\ c = "create" /\ a)]
      BY <1>1, <2>1 DEF Drafts!Process
    <2>2. \A x \in Sends : created'[x] => created[x] \/ (x = s /\ c = "create" /\ a)
      <3>1. created' = [created EXCEPT ![s] = @ \/ (saga[s] = c /\ c = "create" /\ a)]
        BY <2>a
      <3>2. \A x \in Sends : x # s => created'[x] = created[x]
        BY <1>i, <3>1 DEF Drafts!TypeOK
      <3>3. s \in Sends => created'[s] = (created[s] \/ (saga[s] = c /\ c = "create" /\ a))
        BY <1>i, <3>1 DEF Drafts!TypeOK
      <3> QED BY <3>2, <3>3
    <2>3. thread' = "absent" => thread = "absent" /\ ~ (c = "create" /\ a)
      BY <2>a
    <2>4. c = "create" /\ a => thread = "absent"
      BY <2>a DEF Drafts!Allowed
    <2>5. \A x \in Sends : created[x] => thread # "absent"
      BY <1>i DEF CreatedIsThere
    <2>6. CreatedIsThere'
      BY <2>2, <2>3, <2>5 DEF CreatedIsThere
    <2>7. \A x, y \in Sends : created'[x] /\ created'[y] => x = y
      BY <1>i, <2>2, <2>4, <2>5 DEF Drafts!OneCreator
    <2> QED BY <2>6, <2>7 DEF Drafts!OneCreator
  <1>2. CASE UNCHANGED <<created, thread>>
    BY <1>i, <1>2 DEF CreatedIsThere, Drafts!OneCreator
  <1>3. Drafts!Process \/ UNCHANGED <<created, thread>>
    BY DEF Drafts!Next, Drafts!vars, Drafts!server, Drafts!client, Drafts!Type, Drafts!OpenThread,
           Drafts!Receive, Drafts!Drop, Drafts!Reconnect, Drafts!Saga, Drafts!AfterCreate,
           Drafts!WorktreeCreated, Drafts!WorktreeFails, Drafts!CleanUp, Drafts!Setup, Drafts!Interrupt, Drafts!Send,
           Drafts!Answered
  <1> QED BY <1>1, <1>2, <1>3

\* The command that the engine decides is that of the one send under way: it is
\* accepted, or it could not be committed.
LEMMA ProcessIs ==
  ASSUME Drafts!TypeOK, CalmInv, Drafts!Process, "delete" \notin failed'
  PROVE  \E s \in Sends :
           /\ engineQueue = << <<s, saga[s]>> >> /\ engineQueue' = << >>
           /\ UNCHANGED <<disk, link, drops, asks, answer, shown, draft, route, text>>
           /\ failed \subseteq failed'
           /\ \A t \in Sends \ {s} : saga'[t] = saga[t] /\ created'[t] = created[t]
           /\ \/ /\ saga[s] = "create" /\ saga'[s] = "created" /\ thread = "absent" /\ thread' = "live"
                 /\ created'[s] /\ UNCHANGED <<worktree, turns>>
                 /\ stream' = Append(stream, CurrentView')
              \/ /\ saga[s] = "meta" /\ saga'[s] = "setup" /\ thread = "live" /\ thread' = "live"
                 /\ worktree' = s /\ created'[s] = created[s] /\ UNCHANGED turns
                 /\ stream' = Append(stream, CurrentView')
              \/ /\ saga[s] = "start" /\ saga'[s] = "ok" /\ thread = "live" /\ thread' = "live"
                 /\ turns' = turns \cup {s} /\ created'[s] = created[s] /\ UNCHANGED worktree
                 /\ stream' = Append(stream, CurrentView')
              \/ /\ saga[s] = "delete" /\ saga'[s] = "failed" /\ thread = "live" /\ thread' = "deleted"
                 /\ created'[s] = created[s] /\ UNCHANGED <<worktree, turns>>
                 /\ stream' = Append(stream, "removed")
              \/ /\ saga[s] \in {"create", "meta", "start"} /\ created'[s] = created[s]
                 /\ UNCHANGED <<thread, worktree, turns, stream>>
                 /\ saga'[s] = IF created[s] THEN "undo" ELSE "failed"
                 /\ saga[s] \in failed'
  <1>1. PICK s \in Sends : saga[s] \in Commands /\ engineQueue = << <<s, saga[s]>> >>
    BY DEF CalmInv, OneUnderway, Drafts!Process
  <1>2. engineQueue' = << >>
    <2>1. engineQueue' = Tail(engineQueue)
      BY DEF Drafts!Process
    <2> QED BY <1>1, <2>1, SingletonSeq
  <1>3. engineQueue[1][1] = s /\ engineQueue[1][2] = saga[s]
    BY <1>1
  <1>4. link = "up"
    BY DEF CalmInv, ClientFollows
  <1>5. UNCHANGED <<disk, link, drops, asks, answer, shown, draft, route, text>>
    BY DEF Drafts!Process, Drafts!client
  <1>6. Drafts!View = CurrentView'
    BY DEF Drafts!View, CurrentView
  <1>7. /\ saga[s] = "create" => thread = "absent"
        /\ saga[s] # "create" => thread = "live"
    BY <1>1 DEF CalmInv, ThreadFollows, Commands
  <1>8. Drafts!Allowed(saga[s])
    BY <1>7 DEF Drafts!Allowed
  <1>a. PICK a \in BOOLEAN :
          /\ IF a THEN failed' = failed ELSE failed' = failed \cup {saga[s]}
          /\ thread' = IF ~a THEN thread
                       ELSE IF saga[s] = "create" THEN "live"
                       ELSE IF saga[s] = "delete" THEN "deleted" ELSE thread
          /\ worktree' = IF a /\ saga[s] = "meta" THEN s ELSE worktree
          /\ turns' = IF a /\ saga[s] = "start" THEN turns \cup {s} ELSE turns
          /\ saga' = [saga EXCEPT ![s] =
                        IF a THEN Drafts!Decided(saga[s]) ELSE Drafts!AfterFailure(s)]
          /\ created' = [created EXCEPT ![s] = @ \/ (saga[s] = saga[s] /\ saga[s] = "create" /\ a)]
          /\ stream' = IF ~a THEN stream
                       ELSE IF saga[s] = "delete" THEN Append(stream, "removed")
                       ELSE IF thread' = "live" THEN Append(stream, CurrentView') ELSE stream
    BY <1>3, <1>4, <1>6, <1>8 DEF Drafts!Process
  <1>9. saga[s] = "delete" => a
    BY <1>a
  <1>10. /\ saga'[s] = IF a THEN Drafts!Decided(saga[s]) ELSE Drafts!AfterFailure(s)
         /\ \A t \in Sends \ {s} : saga'[t] = saga[t]
    BY <1>a DEF Drafts!TypeOK
  <1>11. /\ \A t \in Sends \ {s} : created'[t] = created[t]
         /\ created'[s] = (created[s] \/ (saga[s] = "create" /\ a))
    BY <1>a DEF Drafts!TypeOK
  <1>12. created[s] \in BOOLEAN
    BY DEF Drafts!TypeOK
  <1>13. /\ saga[s] = "create" /\ a => created'[s]
         /\ ~ (saga[s] = "create" /\ a) => created'[s] = created[s]
    BY <1>11, <1>12
  <1>14. /\ a => /\ saga[s] = "create" => saga'[s] = "created"
                 /\ saga[s] = "meta" => saga'[s] = "setup"
                 /\ saga[s] = "start" => saga'[s] = "ok"
                 /\ saga[s] = "delete" => saga'[s] = "failed"
         /\ ~a => saga'[s] = IF created[s] THEN "undo" ELSE "failed"
    BY <1>9, <1>10 DEF Drafts!Decided, Drafts!AfterFailure
  <1> HIDE DEF CurrentView
  <1>15. CASE a /\ saga[s] = "create"
    BY <1>1, <1>2, <1>5, <1>7, <1>a, <1>10, <1>11, <1>13, <1>14, <1>15
  <1>16. CASE a /\ saga[s] = "meta"
    BY <1>1, <1>2, <1>5, <1>7, <1>a, <1>10, <1>11, <1>13, <1>14, <1>16
  <1>17. CASE a /\ saga[s] = "start"
    BY <1>1, <1>2, <1>5, <1>7, <1>a, <1>10, <1>11, <1>13, <1>14, <1>17
  <1>18. CASE a /\ saga[s] = "delete"
    BY <1>1, <1>2, <1>5, <1>7, <1>a, <1>10, <1>11, <1>13, <1>14, <1>18
  <1>19. CASE ~a
    <2>1. saga[s] \in {"create", "meta", "start"} /\ saga[s] \in failed'
      BY <1>1, <1>9, <1>a, <1>19 DEF Commands
    <2> QED BY <1>1, <1>2, <1>5, <1>a, <1>10, <1>11, <1>13, <1>14, <1>19, <2>1
  <1> QED BY <1>1, <1>15, <1>16, <1>17, <1>18, <1>19 DEF Commands

\* A patient user sends when all is at rest: first the draft, then on.
LEMMA SendIs ==
  ASSUME SendBounds, Drafts!Orderly, Drafts!TypeOK, CalmInv, NEW s \in Sends, Drafts!Send(s)
  PROVE  /\ engineQueue = << >> /\ stream = << >>
         /\ \A t \in Sends : ~ Underway(t) /\ answer[t] # "sending"
         /\ saga[s] = "idle" /\ answer[s] = "none" /\ answer'[s] = "sending"
         /\ \A t \in Sends \ {s} :
              saga'[t] = saga[t] /\ answer'[t] = answer[t] /\ asks'[t] = asks[t]
         /\ engineQueue' = << <<s, saga'[s]>> >>
         /\ \/ thread = "absent" /\ saga'[s] = "create" /\ asks'[s] = {"thread", "worktree"}
            \/ thread = "live" /\ turns # {} /\ saga'[s] = "start" /\ asks'[s] = {}
         /\ UNCHANGED <<thread, worktree, turns, created, disk, failed, link, stream, drops, shown, draft, route>>
  <1>1. /\ stream = << >> /\ answer[s] = "none" /\ \A t \in Sends : answer[t] # "sending"
        /\ UNCHANGED <<thread, worktree, turns, created, disk, failed, link, stream, drops, shown, draft, route>>
        /\ answer' = [answer EXCEPT ![s] = "sending"]
    BY DEF Drafts!Send, Drafts!Orderly
  <1>2. \A t \in Sends : ~ Underway(t)
    BY <1>1, UnderwayIsSending DEF CalmInv
  <1>3. engineQueue = << >> /\ saga[s] = "idle"
    BY <1>1, <1>2 DEF CalmInv, OneUnderway, Underway, Commands
  <1>4. answer'[s] = "sending" /\ \A t \in Sends \ {s} : answer'[t] = answer[t]
    BY <1>1 DEF Drafts!TypeOK
  <1>5. thread = "live" => turns # {} /\ route = "server" /\ shown = "started"
    BY <1>1, <1>2 DEF CalmInv, ThreadFollows, ClientFollows, CurrentView, Underway
  <1>6. thread = "deleted" => route = "home"
    BY <1>1 DEF CalmInv, ClientFollows
  <1>7. thread = "absent" => route = "draft"
    BY DEF CalmInv, ClientFollows
  <1>8. \A c \in Commands : Drafts!Dispatch(s, c) =>
          /\ saga'[s] = c /\ \A t \in Sends \ {s} : saga'[t] = saga[t]
          /\ engineQueue' = << <<s, c>> >>
    <2>1. ASSUME NEW c \in Commands, Drafts!Dispatch(s, c)
          PROVE  /\ saga'[s] = c /\ \A t \in Sends \ {s} : saga'[t] = saga[t]
                 /\ engineQueue' = << <<s, c>> >>
      <3>1. saga' = [saga EXCEPT ![s] = c] /\ engineQueue' = Append(<< >>, <<s, c>>)
        BY <1>3, <2>1 DEF Drafts!Dispatch
      <3>2. Append(<< >>, <<s, c>>) = << <<s, c>> >>
        BY SingletonSeq
      <3> QED BY <3>1, <3>2 DEF Drafts!TypeOK
    <2> QED BY <2>1
  <1>9. thread \in {"absent", "live", "deleted"} /\ asks \in [Sends -> SUBSET {"thread", "worktree"}]
    BY DEF Drafts!TypeOK
  <1>10. CASE thread = "absent"
    <2>1. asks' = [asks EXCEPT ![s] = {"thread", "worktree"}]
      BY <1>7, <1>10 DEF Drafts!Send
    <2>2. asks'[s] = {"thread", "worktree"} /\ \A t \in Sends \ {s} : asks'[t] = asks[t]
      BY <1>9, <2>1
    <2>3. Drafts!Dispatch(s, "create") /\ "create" \in Commands
      BY <2>2 DEF Drafts!Send, Commands
    <2>4. /\ saga'[s] = "create" /\ \A t \in Sends \ {s} : saga'[t] = saga[t]
          /\ engineQueue' = << <<s, "create">> >>
      BY <1>8, <2>3
    <2> QED BY <1>1, <1>2, <1>3, <1>4, <1>10, <2>2, <2>4
  <1>11. CASE thread = "live"
    <2>1. asks' = [asks EXCEPT ![s] = {}]
      BY <1>5, <1>11 DEF Drafts!Send
    <2>2. asks'[s] = {} /\ \A t \in Sends \ {s} : asks'[t] = asks[t]
      BY <1>9, <2>1
    <2>3. Drafts!Dispatch(s, "start") /\ "start" \in Commands
      BY <2>2 DEF Drafts!Send, Commands
    <2>4. /\ saga'[s] = "start" /\ \A t \in Sends \ {s} : saga'[t] = saga[t]
          /\ engineQueue' = << <<s, "start">> >>
      BY <1>8, <2>3
    <2> QED BY <1>1, <1>2, <1>3, <1>4, <1>5, <1>11, <2>2, <2>4
  <1>12. thread # "deleted"
    BY <1>6 DEF Drafts!Send
  <1> QED BY <1>9, <1>10, <1>11, <1>12

\* The send under way goes on between its commands.
LEMMA SagaIs ==
  ASSUME Drafts!TypeOK, CalmInv, NEW s \in Sends, Drafts!Saga(s)
  PROVE  /\ engineQueue = << >> /\ Underway(s)
         /\ UNCHANGED <<thread, worktree, turns, created, failed, link, stream, drops, asks, answer,
                        shown, draft, route, text>>
         /\ \A t \in Sends \ {s} : saga'[t] = saga[t]
         /\ \/ /\ saga[s] = "created" /\ saga'[s] = "git"
               /\ engineQueue' = << >> /\ disk' = disk
            \/ /\ saga[s] = "git" /\ saga'[s] = "meta"
               /\ engineQueue' = << <<s, "meta">> >> /\ disk' = disk \cup {s}
            \/ /\ saga[s] = "git" /\ saga'[s] = "undo"
               /\ engineQueue' = << >> /\ disk' = disk
            \/ /\ saga[s] = "undo" /\ saga'[s] = "delete"
               /\ engineQueue' = << <<s, "delete">> >> /\ disk' = disk
            \/ /\ saga[s] = "setup" /\ saga'[s] = "start"
               /\ engineQueue' = << <<s, "start">> >> /\ disk' = disk
  <1> USE DEF Drafts!Saga, Drafts!AfterCreate, Drafts!WorktreeCreated, Drafts!WorktreeFails, Drafts!CleanUp, Drafts!Setup
  <1>1. saga[s] \in {"created", "git", "setup", "undo"}
    OBVIOUS
  <1>2. Underway(s) /\ saga[s] \notin Commands
    BY <1>1 DEF Underway, Commands
  <1>3. engineQueue = << >>
    <2>1. ASSUME NEW t \in Sends, saga[t] \in Commands PROVE FALSE
      <3>1. answer[t] = "sending" /\ answer[s] = "sending"
        BY <1>2, <2>1, UnderwayIsSending DEF CalmInv, Underway, Commands
      <3> QED BY <1>2, <2>1, <3>1 DEF CalmInv, OneUnderway
    <2> QED BY <2>1 DEF CalmInv, OneUnderway
  <1>4. UNCHANGED <<thread, worktree, turns, created, failed, link, stream, drops, asks, answer,
                    shown, draft, route, text>>
    BY DEF Drafts!client
  <1>5. \A c \in Commands : Drafts!Dispatch(s, c) =>
          /\ saga'[s] = c /\ \A t \in Sends \ {s} : saga'[t] = saga[t]
          /\ engineQueue' = << <<s, c>> >>
    <2>1. ASSUME NEW c \in Commands, Drafts!Dispatch(s, c)
          PROVE  /\ saga'[s] = c /\ \A t \in Sends \ {s} : saga'[t] = saga[t]
                 /\ engineQueue' = << <<s, c>> >>
      <3>1. saga' = [saga EXCEPT ![s] = c] /\ engineQueue' = Append(<< >>, <<s, c>>)
        BY <1>3, <2>1 DEF Drafts!Dispatch
      <3>2. Append(<< >>, <<s, c>>) = << <<s, c>> >>
        BY SingletonSeq
      <3> QED BY <3>1, <3>2 DEF Drafts!TypeOK
    <2> QED BY <2>1
  <1>c. "meta" \in Commands /\ "delete" \in Commands /\ "start" \in Commands
    BY DEF Commands
  <1>6. CASE Drafts!AfterCreate(s)
    <2>1. saga[s] = "created"
      BY <1>6
    <2>2. "worktree" \in asks[s]
      BY <2>1 DEF CalmInv, ThreadFollows
    <2>3. saga' = [saga EXCEPT ![s] = "git"] /\ engineQueue' = engineQueue /\ disk' = disk
      BY <1>6, <2>2
    <2> QED BY <1>2, <1>3, <1>4, <2>1, <2>3 DEF Drafts!TypeOK
  <1>7. CASE Drafts!WorktreeCreated(s)
    <2>1. saga[s] = "git" /\ Drafts!Dispatch(s, "meta") /\ disk' = disk \cup {s}
      BY <1>7
    <2> QED BY <1>2, <1>3, <1>4, <1>5, <1>c, <2>1
  <1>8. CASE Drafts!WorktreeFails(s)
    <2>1. saga[s] = "git" /\ disk' = disk
      BY <1>8
    <2>2. created[s]
      BY <2>1 DEF CalmInv, ThreadFollows
    <2>3. saga' = [saga EXCEPT ![s] = "undo"] /\ engineQueue' = engineQueue
      BY <1>8, <2>1, <2>2 DEF Drafts!AfterFailure
    <2> QED BY <1>2, <1>3, <1>4, <2>1, <2>3 DEF Drafts!TypeOK
  <1>10. CASE Drafts!CleanUp(s)
    <2>1. saga[s] = "undo" /\ Drafts!Dispatch(s, "delete") /\ disk' = disk
      BY <1>10
    <2> QED BY <1>2, <1>3, <1>4, <1>5, <1>c, <2>1
  <1>9. CASE Drafts!Setup(s)
    <2>1. saga[s] = "setup" /\ Drafts!Dispatch(s, "start") /\ disk' = disk
      BY <1>9
    <2> QED BY <1>2, <1>3, <1>4, <1>5, <1>c, <2>1
  <1> QED BY <1>6, <1>7, <1>8, <1>9, <1>10

\* The steps of the calm setting: the client's own leave the server alone.
LEMMA CalmSteps ==
  ASSUME SendBounds, Drafts!Orderly, Drafts!Orderly', Drafts!TypeOK, CalmInv,
         [Drafts!Next]_<<patient, Drafts!vars>>
  PROVE  \/ Drafts!Process
         \/ \E s \in Sends : Drafts!Saga(s)
         \/ \E s \in Sends : Drafts!Send(s)
         \/ /\ \E s \in Sends : Drafts!Answered(s)
            /\ UNCHANGED <<thread, worktree, turns, engineQueue, saga, created, disk, failed, link, stream,
                           drops, asks, shown, draft, route>>
         \/ /\ Drafts!Receive
            /\ UNCHANGED <<thread, worktree, turns, engineQueue, saga, created, disk, failed, link,
                           drops, asks, answer>>
         \/ /\ Drafts!OpenThread
            /\ UNCHANGED <<thread, worktree, turns, engineQueue, saga, created, disk, failed, link, stream,
                           drops, asks, answer, shown, draft>>
         \/ UNCHANGED <<thread, worktree, turns, engineQueue, saga, created, disk, failed, link, stream,
                        drops, asks, answer, shown, draft, route>>
  <1>1. ~ Drafts!Drop
    BY DEF Drafts!Drop, Drafts!Orderly
  <1>2. ~ Drafts!Reconnect
    BY DEF Drafts!Reconnect, CalmInv, ClientFollows
  <1>3. \A s \in Sends : ~ Drafts!Interrupt(s)
    BY DEF Drafts!Interrupt, Drafts!Finished, CalmInv, OneUnderway
  <1>4. CASE \E s \in Sends : Drafts!Answered(s)
    BY <1>4 DEF Drafts!Answered, Drafts!server
  <1>5. CASE Drafts!Receive
    BY <1>5 DEF Drafts!Receive, Drafts!server
  <1>6. CASE Drafts!OpenThread
    BY <1>6 DEF Drafts!OpenThread, Drafts!server
  <1>7. CASE Drafts!Type
    BY <1>7 DEF Drafts!Type, Drafts!server
  <1>8. CASE UNCHANGED <<patient, Drafts!vars>>
    BY <1>8 DEF Drafts!vars, Drafts!server, Drafts!client
  <1> QED BY <1>1, <1>2, <1>3, <1>4, <1>5, <1>6, <1>7, <1>8 DEF Drafts!Next

LEMMA OneUnderwayNext ==
  SendBounds /\ Drafts!Orderly /\ Drafts!Orderly' /\ Drafts!TypeOK /\ CalmInv
  /\ [Drafts!Next]_<<patient, Drafts!vars>> => OneUnderway'
  <1> SUFFICES ASSUME SendBounds, Drafts!Orderly, Drafts!Orderly', Drafts!TypeOK, CalmInv,
                      [Drafts!Next]_<<patient, Drafts!vars>>
               PROVE  OneUnderway'
    OBVIOUS
  <1>i. OneUnderway
    BY DEF CalmInv
  <1>1. CASE Drafts!Process
    <2>1. PICK s \in Sends :
            /\ engineQueue = << <<s, saga[s]>> >> /\ engineQueue' = << >> /\ answer' = answer
            /\ \A t \in Sends \ {s} : saga'[t] = saga[t]
            /\ saga[s] \in Commands /\ saga'[s] \in {"created", "setup", "ok", "undo", "failed"}
      BY <1>1, ProcessIs DEF Commands, Drafts!Orderly
    <2>2. answer[s] = "sending"
      BY <2>1, UnderwayIsSending DEF CalmInv, Underway, Commands
    <2>3. \A t \in Sends \ {s} : saga[t] \notin Commands
      BY <1>i, <2>1, <2>2, UnderwayIsSending DEF CalmInv, Underway, Commands, OneUnderway
    <2> QED BY <1>i, <2>1, <2>2, <2>3 DEF OneUnderway, Commands
  <1>2. CASE \E s \in Sends : Drafts!Saga(s)
    <2>1. PICK s \in Sends : Drafts!Saga(s)
      BY <1>2
    <2>2. /\ engineQueue = << >> /\ answer' = answer
          /\ \A t \in Sends \ {s} : saga'[t] = saga[t]
          /\ saga[s] \in {"created", "git", "setup", "undo"}
          /\ \/ saga'[s] \in {"git", "undo"} /\ engineQueue' = << >>
             \/ saga'[s] \in Commands /\ engineQueue' = << <<s, saga'[s]>> >>
      BY <2>1, SagaIs DEF Commands
    <2>3. answer[s] = "sending"
      BY <2>2, UnderwayIsSending DEF CalmInv, Underway
    <2>4. \A t \in Sends \ {s} : saga[t] \notin Commands
      BY <1>i, <2>3, UnderwayIsSending DEF CalmInv, Underway, Commands, OneUnderway
    <2> QED BY <1>i, <2>2, <2>3, <2>4 DEF OneUnderway, Commands
  <1>3. CASE \E s \in Sends : Drafts!Send(s)
    <2>1. PICK s \in Sends : Drafts!Send(s)
      BY <1>3
    <2>2. /\ \A t \in Sends : ~ Underway(t) /\ answer[t] # "sending"
          /\ answer'[s] = "sending" /\ engineQueue' = << <<s, saga'[s]>> >>
          /\ saga'[s] \in {"create", "start"}
          /\ \A t \in Sends \ {s} : saga'[t] = saga[t] /\ answer'[t] = answer[t]
      BY <2>1, SendIs
    <2> QED BY <1>i, <2>2 DEF OneUnderway, Commands, Underway
  <1>4. CASE \E s \in Sends : Drafts!Answered(s)
    <2>1. PICK s \in Sends : Drafts!Answered(s)
      BY <1>4
    <2>2. /\ UNCHANGED <<saga, engineQueue>>
          /\ answer[s] = "sending" /\ saga[s] \in {"ok", "failed"}
          /\ answer'[s] = IF saga[s] = "ok" THEN "ok" ELSE "error"
          /\ \A t \in Sends \ {s} : answer'[t] = answer[t]
      BY <2>1 DEF Drafts!Answered, Drafts!server, Drafts!TypeOK
    <2> QED BY <1>i, <2>2 DEF OneUnderway
  <1>5. CASE UNCHANGED <<saga, engineQueue, answer>>
    BY <1>i, <1>5 DEF OneUnderway
  <1> QED BY <1>1, <1>2, <1>3, <1>4, <1>5, CalmSteps

LEMMA ThreadFollowsNext ==
  SendBounds /\ Drafts!Orderly /\ Drafts!Orderly' /\ Drafts!TypeOK /\ CalmInv
  /\ [Drafts!Next]_<<patient, Drafts!vars>> => ThreadFollows'
  <1> SUFFICES ASSUME SendBounds, Drafts!Orderly, Drafts!Orderly', Drafts!TypeOK, CalmInv,
                      [Drafts!Next]_<<patient, Drafts!vars>>
               PROVE  ThreadFollows'
    OBVIOUS
  <1>i. ThreadFollows /\ OneUnderway
    BY DEF CalmInv
  <1>o. \A s, t \in Sends : Underway(s) /\ Underway(t) => s = t
    BY <1>i, UnderwayIsSending DEF OneUnderway
  <1>1. CASE Drafts!Process
    <2>1. PICK s \in Sends :
            /\ UNCHANGED <<disk, asks>> /\ failed \subseteq failed'
            /\ \A t \in Sends \ {s} : saga'[t] = saga[t] /\ created'[t] = created[t]
            /\ \/ /\ saga[s] = "create" /\ saga'[s] = "created" /\ thread = "absent" /\ thread' = "live"
                  /\ created'[s] /\ UNCHANGED <<worktree, turns>>
               \/ /\ saga[s] = "meta" /\ saga'[s] = "setup" /\ thread = "live" /\ thread' = "live"
                  /\ worktree' = s /\ created'[s] = created[s] /\ UNCHANGED turns
               \/ /\ saga[s] = "start" /\ saga'[s] = "ok" /\ thread = "live" /\ thread' = "live"
                  /\ turns' = turns \cup {s} /\ created'[s] = created[s] /\ UNCHANGED worktree
               \/ /\ saga[s] = "delete" /\ saga'[s] = "failed" /\ thread = "live" /\ thread' = "deleted"
                  /\ created'[s] = created[s] /\ UNCHANGED <<worktree, turns>>
               \/ /\ saga[s] \in {"create", "meta", "start"} /\ created'[s] = created[s]
                  /\ UNCHANGED <<thread, worktree, turns>>
                  /\ saga'[s] = IF created[s] THEN "undo" ELSE "failed"
                  /\ saga[s] \in failed'
      BY <1>1, ProcessIs DEF Drafts!Orderly
    <2>2. \A t \in Sends \ {s} : ~ Underway(t)
      BY <1>o, <2>1 DEF Underway
    <2>3. CASE saga[s] = "create" /\ saga'[s] = "created"
      BY <1>i, <2>1, <2>2, <2>3 DEF ThreadFollows, Underway, Untouched, Tidy
    <2>4. CASE saga[s] = "meta" /\ saga'[s] = "setup"
      BY <1>i, <2>1, <2>2, <2>4 DEF ThreadFollows, Underway, Untouched, Tidy
    <2>5. CASE saga[s] = "start" /\ saga'[s] = "ok"
      BY <1>i, <2>1, <2>2, <2>5 DEF ThreadFollows, Underway, Untouched, Tidy
    <2>6. CASE saga[s] = "delete"
      BY <1>i, <2>1, <2>2, <2>6 DEF ThreadFollows, Underway, Untouched, Tidy
    <2>7. CASE saga[s] = "create" /\ saga'[s] \in {"undo", "failed"}
      BY <1>i, <2>1, <2>2, <2>7 DEF ThreadFollows, Underway, Untouched, Tidy
    <2>8. CASE saga[s] = "meta" /\ saga'[s] \in {"undo", "failed"}
      BY <1>i, <2>1, <2>2, <2>8 DEF ThreadFollows, Underway, Untouched, Tidy
    <2>9. CASE saga[s] = "start" /\ saga'[s] \in {"undo", "failed"}
      BY <1>i, <2>1, <2>2, <2>9 DEF ThreadFollows, Underway, Untouched, Tidy
    <2> QED BY <2>1, <2>3, <2>4, <2>5, <2>6, <2>7, <2>8, <2>9
  <1>2. CASE \E s \in Sends : Drafts!Saga(s)
    <2>1. PICK s \in Sends : Drafts!Saga(s)
      BY <1>2
    <2>2. /\ UNCHANGED <<thread, worktree, turns, created, failed, asks>>
          /\ \A t \in Sends \ {s} : saga'[t] = saga[t]
          /\ \/ saga[s] = "created" /\ saga'[s] = "git" /\ disk' = disk
             \/ saga[s] = "git" /\ saga'[s] = "meta" /\ disk' = disk \cup {s}
             \/ saga[s] = "git" /\ saga'[s] = "undo" /\ disk' = disk
             \/ saga[s] = "undo" /\ saga'[s] = "delete" /\ disk' = disk
             \/ saga[s] = "setup" /\ saga'[s] = "start" /\ disk' = disk
      BY <2>1, SagaIs
    <2>3. \A t \in Sends \ {s} : ~ Underway(t)
      BY <1>o, <2>2 DEF Underway
    <2> QED BY <1>i, <2>2, <2>3 DEF ThreadFollows, Underway, Untouched, Tidy
  <1>3. CASE \E s \in Sends : Drafts!Send(s)
    <2>1. PICK s \in Sends : Drafts!Send(s)
      BY <1>3
    <2>2. /\ \A t \in Sends : ~ Underway(t)
          /\ \A t \in Sends \ {s} : saga'[t] = saga[t] /\ asks'[t] = asks[t]
          /\ \/ thread = "absent" /\ saga'[s] = "create" /\ asks'[s] = {"thread", "worktree"}
             \/ thread = "live" /\ turns # {} /\ saga'[s] = "start" /\ asks'[s] = {}
          /\ saga[s] = "idle"
          /\ UNCHANGED <<thread, worktree, turns, created, disk, failed>>
      BY <2>1, SendIs
    <2> QED BY <1>i, <2>2 DEF ThreadFollows, Underway, Untouched, Tidy
  <1>4. CASE UNCHANGED <<thread, worktree, turns, saga, created, disk, failed, asks>>
    BY <1>i, <1>4 DEF ThreadFollows, Underway, Untouched, Tidy
  <1> QED BY <1>1, <1>2, <1>3, <1>4, CalmSteps

LEMMA ClientFollowsNext ==
  SendBounds /\ Drafts!Orderly /\ Drafts!Orderly' /\ Drafts!TypeOK /\ CalmInv
  /\ [Drafts!Next]_<<patient, Drafts!vars>> => ClientFollows'
  <1> SUFFICES ASSUME SendBounds, Drafts!Orderly, Drafts!Orderly', Drafts!TypeOK, CalmInv,
                      [Drafts!Next]_<<patient, Drafts!vars>>
               PROVE  ClientFollows'
    OBVIOUS
  <1> DEFINE Shows == Drafts!Views \cup {"removed", "no thread"}
  <1>i. ClientFollows
    BY DEF CalmInv
  <1>s. stream \in Seq(Shows)
    BY DEF Drafts!TypeOK
  <1>e. Len(<< >>) = 0 /\ 1..0 = {}
    BY EmptySeq
  <1>v. CurrentView \in Drafts!Views /\ CurrentView' \in Drafts!Views /\ "removed" \notin Drafts!Views
    BY DEF CurrentView, Drafts!Views
  <1>1. CASE Drafts!Process
    <2>1. CASE UNCHANGED <<thread, worktree, turns, link, stream, shown, route>>
      BY <1>i, <2>1 DEF ClientFollows, CurrentView
    <2>2. CASE \E x \in Shows :
            /\ stream' = Append(stream, x) /\ UNCHANGED <<link, route>>
            /\ \/ thread \in {"absent", "live"} /\ thread' = "live" /\ x = CurrentView'
               \/ thread' = "deleted" /\ x = "removed"
      <3>1. PICK x \in Shows :
            /\ stream' = Append(stream, x) /\ UNCHANGED <<link, route>>
            /\ \/ thread \in {"absent", "live"} /\ thread' = "live" /\ x = CurrentView'
               \/ thread' = "deleted" /\ x = "removed"
        BY <2>2
      <3>2. /\ stream' # << >> /\ stream'[Len(stream')] = x
            /\ \A i \in 1..Len(stream') :
                 stream'[i] = x \/ stream'[i] \in {stream[j] : j \in 1..Len(stream)}
        <4> HIDE DEF Shows
        <4> QED BY <1>s, <3>1, AppendFacts
      <3>3. CASE thread \in {"absent", "live"} /\ thread' = "live" /\ x = CurrentView'
        <4>1. {stream[j] : j \in 1..Len(stream)} \subseteq Drafts!Views
          <5>1. CASE thread = "live"
            BY <1>i, <5>1 DEF ClientFollows
          <5>2. CASE thread = "absent"
            BY <1>e, <1>i, <5>2 DEF ClientFollows
          <5> QED BY <3>3, <5>1, <5>2
        <4>3. \A i \in 1..Len(stream') : stream'[i] \in Drafts!Views
          BY <1>v, <3>2, <3>3, <4>1
        <4>4. route' # "home"
          BY <1>i, <3>1, <3>3 DEF ClientFollows
        <4> QED BY <1>i, <3>1, <3>2, <3>3, <4>3, <4>4 DEF ClientFollows
      <3>4. CASE thread' = "deleted" /\ x = "removed"
        BY <1>i, <3>1, <3>2, <3>4 DEF ClientFollows
      <3> QED BY <3>1, <3>3, <3>4
    <2>3. Drafts!Process => \/ UNCHANGED <<thread, worktree, turns, link, stream, shown, route>>
                            \/ \E x \in Shows :
                                 /\ stream' = Append(stream, x) /\ UNCHANGED <<link, route>>
                                 /\ \/ /\ thread \in {"absent", "live"} /\ thread' = "live"
                                       /\ x = CurrentView'
                                    \/ thread' = "deleted" /\ x = "removed"
      <3>1. "removed" \in Shows /\ CurrentView' \in Shows
        BY <1>v
      <3> HIDE DEF Shows, CurrentView
      <3> QED BY <3>1, ProcessIs DEF Drafts!Orderly
    <2> QED BY <1>1, <2>1, <2>2, <2>3
  <1>2. CASE UNCHANGED <<thread, worktree, turns, link, stream, shown, route>>
    BY <1>i, <1>2 DEF ClientFollows, CurrentView
  <1>3. CASE /\ Drafts!Receive
             /\ UNCHANGED <<thread, worktree, turns, link>>
    <2>1. stream # << >> /\ stream' = Tail(stream)
      BY <1>3 DEF Drafts!Receive
    <2>2. /\ stream[1] \in {stream[i] : i \in 1..Len(stream)}
          /\ \A i \in 1..Len(stream') : stream'[i] \in {stream[j] : j \in 1..Len(stream)}
          /\ Len(stream) = 1 => stream' = << >>
          /\ Len(stream) # 1 => stream' # << >> /\ stream'[Len(stream')] = stream[Len(stream)]
      <3> HIDE DEF Shows
      <3> QED BY <1>s, <2>1, TailFacts
    <2>3. thread # "absent"
      BY <1>i, <2>1 DEF ClientFollows
    <2>6. CurrentView' = CurrentView
      BY <1>3 DEF CurrentView
    <2>7. CASE thread = "live"
      <3>1. /\ \A i \in 1..Len(stream) : stream[i] \in Drafts!Views
            /\ stream[Len(stream)] = CurrentView /\ route # "home"
        BY <1>i, <2>1, <2>7 DEF ClientFollows
      <3>3. \A i \in 1..Len(stream') : stream'[i] \in Drafts!Views
        BY <2>2, <3>1
      <3>4. stream[1] \in Drafts!Views
        BY <2>2, <3>1
      <3>5. Drafts!Upserted(stream[1])
        BY <1>3, <1>v, <3>4 DEF Drafts!Receive, Drafts!Views
      <3>6. shown' = stream[1] /\ route' # "home" /\ (stream[1] = "started" => route' = "server")
        BY <3>1, <3>5 DEF Drafts!Upserted
      <3>7. CASE Len(stream) = 1
        <4>1. shown' = CurrentView /\ (turns # {} => route' = "server")
          BY <3>1, <3>6, <3>7 DEF CurrentView
        <4> QED BY <1>i, <1>3, <2>2, <2>6, <2>7, <3>3, <3>6, <3>7, <4>1 DEF ClientFollows
      <3>8. CASE Len(stream) # 1
        BY <1>i, <1>3, <2>2, <2>6, <2>7, <3>1, <3>3, <3>6, <3>8 DEF ClientFollows
      <3> QED BY <3>7, <3>8
    <2>8. CASE thread = "deleted"
      <3>1. stream[Len(stream)] = "removed"
        BY <1>i, <2>1, <2>8 DEF ClientFollows
      <3>2. CASE Len(stream) = 1
        <4>1. Drafts!ThreadRemoved
          BY <1>3, <1>v, <3>1, <3>2 DEF Drafts!Receive, Drafts!Views
        <4> QED BY <1>i, <1>3, <2>2, <2>8, <3>2, <4>1 DEF ClientFollows, Drafts!ThreadRemoved
      <3>3. CASE Len(stream) # 1
        BY <1>i, <1>3, <2>2, <2>8, <3>1, <3>3 DEF ClientFollows
      <3> QED BY <3>2, <3>3
    <2> QED BY <2>3, <2>7, <2>8 DEF Drafts!TypeOK
  <1>4. CASE /\ Drafts!OpenThread
             /\ UNCHANGED <<thread, worktree, turns, link, stream, shown>>
    <2>1. shown # "none" /\ route' = "server"
      BY <1>4 DEF Drafts!OpenThread
    <2>2. CurrentView' = CurrentView
      BY <1>4 DEF CurrentView
    <2> QED BY <1>i, <1>4, <2>1, <2>2 DEF ClientFollows
  <1> QED BY <1>1, <1>2, <1>3, <1>4, CalmSteps, SagaIs, SendIs

LEMMA DraftsInit == SendBounds /\ Drafts!Init => AnyInv /\ CalmInv
  <1> SUFFICES ASSUME SendBounds, Drafts!Init PROVE AnyInv /\ CalmInv
    OBVIOUS
  <1> USE DEF Drafts!Init
  <1>1. Drafts!TypeOK
    BY EmptySeq DEF Drafts!TypeOK, Drafts!Stages, SendBounds
  <1>2. CreatedIsThere /\ Drafts!OneCreator
    BY DEF CreatedIsThere, Drafts!OneCreator
  <1>3. OneUnderway
    BY DEF OneUnderway, Commands
  <1>4. ThreadFollows
    BY DEF ThreadFollows, Untouched
  <1>5. ClientFollows
    BY DEF ClientFollows
  <1> QED BY <1>1, <1>2, <1>3, <1>4, <1>5 DEF AnyInv, CalmInv

\* Lost connections are counted, and the user does not change.
LEMMA HasLasted ==
  SendBounds /\ Drafts!TypeOK /\ [Drafts!Next]_<<patient, Drafts!vars>> /\ Drafts!Orderly'
  => Drafts!Orderly
  <1> SUFFICES ASSUME SendBounds, Drafts!TypeOK, [Drafts!Next]_<<patient, Drafts!vars>>, Drafts!Orderly'
               PROVE  Drafts!Orderly
    OBVIOUS
  <1>1. UNCHANGED patient /\ (drops' = drops \/ drops' = drops + 1) /\ failed \subseteq failed'
    BY DEF Drafts!Next, Drafts!vars, Drafts!client, Drafts!server, Drafts!Process, Drafts!Type,
           Drafts!OpenThread, Drafts!Receive, Drafts!Drop, Drafts!Reconnect, Drafts!Saga,
           Drafts!AfterCreate, Drafts!WorktreeCreated, Drafts!WorktreeFails, Drafts!CleanUp, Drafts!Setup,
           Drafts!Interrupt, Drafts!Send, Drafts!Answered
  <1>2. drops \in Nat
    <2>1. drops \in 0..MaxDrops
      BY DEF Drafts!TypeOK
    <2>2. MaxDrops \in Nat
      BY DEF SendBounds
    <2> QED BY <2>1, <2>2
  <1>3. drops = 0
    BY <1>1, <1>2 DEF Drafts!Orderly
  <1> QED BY <1>1, <1>3 DEF Drafts!Orderly

LEMMA CalmSendNext ==
  SendBounds /\ AnyInv /\ (Drafts!Orderly => CalmInv) /\ [Drafts!Next]_<<patient, Drafts!vars>>
  => (AnyInv /\ (Drafts!Orderly => CalmInv))'
  <1> SUFFICES ASSUME SendBounds, AnyInv, Drafts!Orderly => CalmInv,
                      [Drafts!Next]_<<patient, Drafts!vars>>
               PROVE  (AnyInv /\ (Drafts!Orderly => CalmInv))'
    OBVIOUS
  <1>1. AnyInv'
    BY DraftsTyped, CreatorsNext DEF AnyInv
  <1>2. ASSUME Drafts!Orderly' PROVE CalmInv'
    BY <1>2, HasLasted, OneUnderwayNext, ThreadFollowsNext, ClientFollowsNext DEF AnyInv, CalmInv
  <1> QED BY <1>1, <1>2

LEMMA NothingIsLeft ==
  AnyInv /\ CalmInv =>
    /\ Drafts!FailureLeavesNoThread /\ Drafts!FailedIsNotSent /\ Drafts!DraftCanBeSent
    /\ "meta" \notin failed => Drafts!NoStrayWorktree
  <1> SUFFICES ASSUME AnyInv, CalmInv
               PROVE  /\ Drafts!FailureLeavesNoThread /\ Drafts!FailedIsNotSent /\ Drafts!DraftCanBeSent
                      /\ "meta" \notin failed => Drafts!NoStrayWorktree
    OBVIOUS
  <1>1. ThreadFollows /\ OneUnderway /\ ClientFollows /\ Drafts!TypeOK
    BY DEF CalmInv, AnyInv
  <1>2. Drafts!AtRest => (thread = "live" => turns # {})
    BY <1>1 DEF ThreadFollows, Underway, Drafts!AtRest, Drafts!Finished
  <1>t. thread \in {"absent", "live", "deleted"}
    BY <1>1 DEF Drafts!TypeOK
  <1>3. Drafts!FailureLeavesNoThread
    BY <1>1, <1>2, <1>t DEF ThreadFollows, Untouched, Drafts!FailureLeavesNoThread
  <1>4. Drafts!FailedIsNotSent
    BY <1>1 DEF ThreadFollows, OneUnderway, Drafts!FailedIsNotSent
  <1>5. "meta" \notin failed => Drafts!NoStrayWorktree
    BY <1>1, <1>2, <1>t DEF ThreadFollows, Untouched, Tidy, Drafts!NoStrayWorktree
  <1>6. Drafts!DraftCanBeSent
    BY <1>1, <1>2 DEF ClientFollows, Drafts!DraftCanBeSent, Drafts!TypeOK
  <1> QED BY <1>3, <1>4, <1>5, <1>6

\* A step of the composition is one of a draft or leaves it.
LEMMA DraftSteps ==
  ASSUME [MCNext]_<<scenario, vars, sendVars>>
  PROVE  [Drafts!Next]_<<patient, Drafts!vars>>
BY DEF MCNext, sendVars, Drafts!vars, Drafts!server, Drafts!client

\* However often and whenever a draft is sent, and whatever fails, one send creates
\* its thread.  With a patient user, a connection that has lasted and a cleanup
\* that did not fail, a send that fails at any of its steps leaves no thread and no
\* turn behind, and a worktree only if the thread could not be told of it
\* (cleanupCreatedThread).
THEOREM FailedSendLeavesNothing ==
  ASSUME SendBounds
  PROVE  MCSpec => []FailureLeavesNothing
  <1>1. MCInit => AnyInv /\ (Drafts!Orderly => CalmInv)
    BY DraftsInit DEF MCInit
  <1>2. AnyInv /\ (Drafts!Orderly => CalmInv) /\ [MCNext]_<<scenario, vars, sendVars>>
        => (AnyInv /\ (Drafts!Orderly => CalmInv))'
    BY DraftSteps, CalmSendNext
  <1>3. AnyInv /\ (Drafts!Orderly => CalmInv) => FailureLeavesNothing
    BY NothingIsLeft DEF FailureLeavesNothing, Drafts!FailureLeavesNothing, AnyInv, Drafts!Orderly
  <1> QED BY <1>1, <1>2, <1>3, PTL DEF MCSpec

\* In the same case, the turn of a send that asked for a worktree starts in the one
\* that was made for it.
THEOREM TurnsStartInWorktree ==
  ASSUME SendBounds
  PROVE  MCSpec => [][Drafts!Orderly => Drafts!StartsInWorktree]_sendVars
  <1>1. MCInit => AnyInv /\ (Drafts!Orderly => CalmInv)
    BY DraftsInit DEF MCInit
  <1>2. AnyInv /\ (Drafts!Orderly => CalmInv) /\ [MCNext]_<<scenario, vars, sendVars>>
        => (AnyInv /\ (Drafts!Orderly => CalmInv))'
    BY DraftSteps, CalmSendNext
  <1>3. AnyInv /\ (Drafts!Orderly => CalmInv) /\ [MCNext]_<<scenario, vars, sendVars>>
        => [Drafts!Orderly => Drafts!StartsInWorktree]_sendVars
    <2> SUFFICES ASSUME AnyInv, CalmInv, Drafts!Orderly, [Drafts!Next]_<<patient, Drafts!vars>>,
                        NEW s \in turns' \ turns, "worktree" \in asks[s]
                 PROVE  worktree = s /\ s \in disk
      BY DraftSteps DEF Drafts!Orderly, Drafts!StartsInWorktree
    <2>1. Drafts!TypeOK /\ ThreadFollows
      BY DEF AnyInv, CalmInv
    <2>2. turns' # turns
      OBVIOUS
    <2>4. Drafts!Process
      BY <2>2 DEF Drafts!Next, Drafts!vars, Drafts!client, Drafts!server, Drafts!Type,
           Drafts!OpenThread, Drafts!Receive, Drafts!Drop, Drafts!Reconnect, Drafts!Saga,
           Drafts!AfterCreate, Drafts!WorktreeCreated, Drafts!WorktreeFails, Drafts!CleanUp,
           Drafts!Setup, Drafts!Interrupt, Drafts!Send, Drafts!Answered
    <2>3. failed' = failed
      BY <2>2, <2>4 DEF Drafts!Process
    <2>5. s \in Sends /\ saga[s] = "start"
      BY <2>1, <2>3, <2>4, ProcessIs DEF Drafts!Orderly
    <2> QED BY <2>1, <2>5 DEF ThreadFollows
  <1> QED BY <1>1, <1>2, <1>3, PTL DEF MCSpec
=============================================================================
