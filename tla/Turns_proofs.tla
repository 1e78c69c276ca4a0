------------------------------ MODULE Turns_proofs ------------------------------
(***************************************************************************)
(* Turns on their way to the provider, for any turns and modes and         *)
(* whatever may fail: the types of what is kept; where requests and sweeps *)
(* do not overlap and nothing fails, that a session which runs is known,   *)
(* and that a stop holds; and where sweeps begin at any time, that no      *)
(* session is lost, and that the reaper takes no turn that ran when it     *)
(* read.  Then the answer of a turn, for any delivery mode, white space    *)
(* and bounds: whatever fails, what is buffered will be found; and as long *)
(* as nothing fails, the messages are the answer.                          *)
(***************************************************************************)
EXTENDS MCTurns, SequenceTheorems, WellFoundedInduction, TLAPS

(* The types of the variables, by name: few steps look into them.          *)
CallRecord ==
  [op : {"none", "start", "send", "interrupt", "stop"},
   pc : {"idle", "spawning", "asking", "astray", "broken", "hung", "closing", "done", "failed"},
   mode : Mode \cup {None}, turn : Turn \cup {None}]
BindingRecord ==
  [status : {"none", "running", "stopped"}, mode : Mode \cup {None}, idle : BOOLEAN]
WorkerRecord ==
  [pc : {"idle", "starting", "asking", "stopping", "reset", "stopped"},
   turn : Turn \cup {None}, mode : Mode \cup {None}, session : ThreadSession \cup {None}]
SenderRecord ==
  [pc : {"none", "forked", "sending", "reset", "done"}, session : ThreadSession \cup {None}]
ThreadRecord == [mode : Mode, deleted : BOOLEAN, session : ThreadSession \cup {None}]

SessTyped ==
  /\ live \in Session \cup {None}
  /\ orphans \in Nat
  /\ binding \in BindingRecord
  /\ call \in [Process -> CallRecord]
  /\ emitted \in Seq(RuntimeEvent)

FlowTyped ==
  /\ overlap \in {"none", "sweeps", "all"}
  /\ thread \in ThreadRecord
  /\ intents \in Seq(Intent)
  /\ worker \in WorkerRecord
  /\ sender \in [Turn -> SenderRecord]
  /\ outcome \in [Turn -> {"none", "requested", "sent", "failed"}]
  /\ deletion \in {"none", "queued", "stopping", "done"}
  /\ reaper \in {"idle", "due", "stopping"}
  /\ ingest \in ThreadSession \cup {None}
  /\ stopped \in BOOLEAN
  /\ used \in [Bounded -> Nat]
  /\ running \in Turn \cup {None}

(* Whatever overlaps or fails: a call fits what it waits for.              *)
CallFits(p) ==
  /\ call[p].pc = "asking" => live # None
  /\ call[p].pc = "spawning" => call[p].mode \in Mode
  /\ call[p].op = "send" => call[p].turn \in Turn
  /\ call[p].pc \in {"astray", "closing"} => binding.status # "none"

BindingFits ==
  /\ live # None => binding.status # "none"
  /\ binding.status # "none" => binding.mode \in Mode

SessInv == SessTyped /\ BindingFits /\ \A p \in Process : CallFits(p)

WorkerFits ==
  /\ worker.pc = "starting" => worker.mode \in Mode
  /\ worker.pc = "reset" => worker.turn \in Turn

AnyInv == SessInv /\ FlowTyped /\ WorkerFits

-----------------------------------------------------------------------------
(* Where requests do not overlap and nothing fails: one reactor or sender  *)
(* at a time has something to do.                                          *)
Busy(p) ==
  \/ p = "worker" /\ (intents # <<>> \/ worker # IdleWorker)
  \/ p \in Turn /\ sender[p].pc \notin {"none", "done"}
  \/ p = "deletion" /\ deletion \notin {"none", "done"}
  \/ p = "reaper" /\ reaper # "idle"

OneAtATime ==
  /\ \A p, q \in Process : Busy(p) /\ Busy(q) => p = q
  /\ intents # <<>> => worker = IdleWorker /\ Len(intents) = 1

(* What waits is no further than its call.                                 *)
Calls(p, op, pcs) == call[p].op = op /\ call[p].pc \in pcs

WorkerCalls ==
  \/ worker.pc \in {"idle", "stopped"} /\ Idle("worker")
  \/ worker.pc = "starting" /\ Calls("worker", "start", {"spawning", "done"})
  \/ worker.pc = "asking" /\ Calls("worker", "interrupt", {"asking", "done"})
  \/ worker.pc = "stopping" /\ Calls("worker", "stop", {"closing", "done"})

SenderCalls(t) ==
  \/ sender[t].pc \in {"none", "forked", "done"} /\ Idle(t)
  \/ sender[t].pc = "sending" /\ Calls(t, "send", {"asking", "done"}) /\ call[t].turn = t

StopperCalls ==
  /\ IF deletion = "stopping" THEN Calls("deletion", "stop", {"closing", "done", "failed"})
     ELSE Idle("deletion")
  /\ IF reaper = "stopping" THEN Calls("reaper", "stop", {"closing", "done", "failed"})
     ELSE Idle("reaper")

CallsAreKnown == WorkerCalls /\ StopperCalls /\ \A t \in Turn : SenderCalls(t)

(* There is a session just when the one who is at work has left it so.     *)
Spawning == worker.pc = "starting" /\ ~Done("worker")

LiveFits ==
  /\ live # None => live.alive /\ live.by \notin Turn /\ binding.status = "running"
  /\ orphans = 0
  /\ Spawning => live = None
  /\ worker.pc = "starting" /\ Done("worker") => live # None /\ live.turn = None
  /\ worker.pc = "asking" => live # None
  /\ worker.pc \in {"stopping", "stopped"} => live = None
  /\ \A t \in Turn : sender[t].pc \in {"forked", "sending"} => live # None
  /\ deletion = "stopping" => live = None
  /\ reaper = "stopping" => live = None
  /\ reaper = "due" /\ live # None => live.turn = None

(* The turn that the thread has when an event is read, and the one that it *)
(* has then: what is read fits, and leads to the turn of the session.      *)
TurnAfter(event) == IF event.type = "turn.started" THEN event.turn ELSE None
Fits(event, t) ==
  CASE event.type = "turn.completed" -> t \in {None, event.turn}
    [] event.type = "session.exited" -> TRUE
    [] OTHER -> t = None

TurnBefore(events, shown, i) == IF i = 1 THEN shown ELSE TurnAfter(events[i - 1])
LeadTo(events, shown, last) ==
  /\ \A i \in 1..Len(events) : Fits(events[i], TurnBefore(events, shown, i))
  /\ last = IF events = <<>> THEN shown ELSE TurnAfter(events[Len(events)])

ShownTurn ==
  IF ingest # None THEN ingest.turn
  ELSE IF thread.session = None THEN None ELSE thread.session.turn
LiveTurn == IF live = None THEN None ELSE live.turn
TurnsFollow == LeadTo(emitted, ShownTurn, LiveTurn)

(* The thread comes to say whether there is a session.                     *)
ShownStopped ==
  IF ingest # None THEN ingest.status = "stopped"
  ELSE thread.session = None \/ thread.session.status = "stopped"
EndStopped(events, shown) ==
  IF events = <<>> THEN shown ELSE events[Len(events)].type = "session.exited"

StatusFollows == ~Spawning => (EndStopped(emitted, ShownStopped) <=> live = None)

(* A request finds the thread as it was asked for, but for a turn that has *)
(* ended.                                                                  *)
Waits == intents # <<>>
Undone ==
  /\ \A i \in 1..Len(emitted) : emitted[i].type = "turn.completed"
  /\ ingest # None => ingest.status = "ready"
  /\ hasSession <=> live # None

StopComes ==
  worker.pc \in {"stopping", "stopped"} \/ (Waits /\ intents[1].type = "stop")
StopKept ==
  stopped =>
    /\ StopComes \/ (live = None /\ thread.session # None)
    /\ Waits => intents[1].type # "turn"
    /\ worker.pc # "starting"
    /\ \A t \in Turn : sender[t].pc \in {"none", "done"}

CalmInv ==
  /\ OneAtATime /\ CallsAreKnown /\ LiveFits
  /\ TurnsFollow /\ StatusFollows /\ (Waits => Undone) /\ StopKept

-----------------------------------------------------------------------------
(* What the records are made of.                                           *)
LEMMA TypesAre == SessTyped /\ FlowTyped => TypeOK
BY DEF SessTyped, FlowTyped, TypeOK, SessionsTypeOK, CallRecord, BindingRecord, WorkerRecord,
       SenderRecord, ThreadRecord

LEMMA EventIs ==
  ASSUME NEW e \in RuntimeEvent
  PROVE  /\ e.type \in {"session.started", "session.exited", "turn.started", "turn.completed"}
         /\ e.type \in {"turn.started", "turn.completed"} => e.turn \in Turn
BY DEF RuntimeEvent

LEMMA EventMade ==
  /\ [type |-> "session.started"] \in RuntimeEvent
  /\ [type |-> "session.exited"] \in RuntimeEvent
  /\ \A t \in Turn : [type |-> "turn.started", turn |-> t] \in RuntimeEvent
  /\ \A t \in Turn : [type |-> "turn.completed", turn |-> t] \in RuntimeEvent
BY DEF RuntimeEvent

LEMMA CallIs ==
  ASSUME NEW c \in CallRecord
  PROVE  /\ c.op \in {"none", "start", "send", "interrupt", "stop"}
         /\ c.mode \in Mode \cup {None} /\ c.turn \in Turn \cup {None}
BY DEF CallRecord

LEMMA CallMade ==
  ASSUME NEW o \in {"none", "start", "send", "interrupt", "stop"},
         NEW c \in {"idle", "spawning", "asking", "astray", "broken", "hung", "closing", "done", "failed"},
         NEW m \in Mode \cup {None}, NEW t \in Turn \cup {None}
  PROVE  [op |-> o, pc |-> c, mode |-> m, turn |-> t] \in CallRecord
BY DEF CallRecord

LEMMA CallMoved ==
  ASSUME NEW r \in CallRecord,
         NEW c \in {"idle", "spawning", "asking", "astray", "broken", "hung", "closing", "done", "failed"}
  PROVE  LET s == [r EXCEPT !.pc = c]
         IN  s \in CallRecord /\ s.pc = c /\ s.op = r.op /\ s.mode = r.mode /\ s.turn = r.turn
BY DEF CallRecord

LEMMA NoCallIs == NoCall \in CallRecord /\ NoCall.pc = "idle" /\ NoCall.op = "none"
BY DEF NoCall, CallRecord

LEMMA StopCall ==
  ASSUME NEW c \in {"closing", "done", "failed"}
  PROVE  LET s == [NoCall EXCEPT !.op = "stop", !.pc = c]
         IN  s \in CallRecord /\ s.pc = c /\ s.op = "stop"
BY DEF NoCall, CallRecord

LEMMA SessionIs ==
  ASSUME NEW s \in Session
  PROVE  /\ s # None /\ s.mode \in Mode /\ s.turn \in Turn \cup {None}
         /\ s.alive \in BOOLEAN /\ s.by \in Process
BY TurnFlowAssumption DEF Session

LEMMA SessionTurn ==
  ASSUME NEW s \in Session, NEW t \in Turn \cup {None}
  PROVE  LET r == [s EXCEPT !.turn = t]
         IN  r \in Session /\ r # None /\ r.turn = t /\ r.alive = s.alive /\ r.by = s.by
BY TurnFlowAssumption DEF Session

LEMMA SessionDead ==
  ASSUME NEW s \in Session
  PROVE  LET r == [s EXCEPT !.alive = FALSE, !.turn = None]
         IN  r \in Session /\ r.turn = None /\ r.by = s.by
BY TurnFlowAssumption DEF Session

LEMMA SessionNew ==
  ASSUME NEW m \in Mode, NEW p \in Process
  PROVE  LET r == [mode |-> m, turn |-> None, alive |-> TRUE, by |-> p]
         IN  r \in Session /\ r # None /\ r.turn = None /\ r.alive /\ r.by = p
<1>1. [mode |-> m, turn |-> None, alive |-> TRUE, by |-> p] \in Session
  BY DEF Session
<1> QED BY <1>1, TurnFlowAssumption

(* What is emitted arrives, or is lost with the send that reads it.        *)
LEMMA EmitIs ==
  ASSUME NEW es \in Seq(RuntimeEvent), emitted \in Seq(RuntimeEvent), Emit(es)
  PROVE  /\ emitted' \in Seq(RuntimeEvent)
         /\ emitted' = emitted \/ emitted' = emitted \o es
         /\ live.by \notin Turn => emitted' = emitted \o es
<1>1. emitted' = emitted \/ emitted' = emitted \o es
  BY Zenon DEF Emit
<1>2. emitted \o es \in Seq(RuntimeEvent)
  OBVIOUS
<1>3. live.by \notin Turn => emitted' = emitted \o es
  BY Zenon DEF Emit
<1> QED BY <1>1, <1>2, <1>3

LEMMA OneEmitted ==
  ASSUME NEW x \in RuntimeEvent, emitted \in Seq(RuntimeEvent), Emit(<<x>>)
  PROVE  /\ emitted' \in Seq(RuntimeEvent)
         /\ emitted' = emitted \/ emitted' = Append(emitted, x)
         /\ live.by \notin Turn => emitted' = Append(emitted, x)
<1>1. <<x>> \in Seq(RuntimeEvent) /\ emitted \o <<x>> = Append(emitted, x)
  OBVIOUS
<1> QED BY <1>1, EmitIs

LEMMA EndOfTurnIs ==
  ASSUME live \in Session
  PROVE  /\ EndOfTurn \in Seq(RuntimeEvent)
         /\ live.turn = None => EndOfTurn = <<>>
         /\ live.turn # None =>
              /\ live.turn \in Turn
              /\ [type |-> "turn.completed", turn |-> live.turn] \in RuntimeEvent
              /\ EndOfTurn = <<[type |-> "turn.completed", turn |-> live.turn]>>
<1>1. CASE live.turn = None
  BY <1>1 DEF EndOfTurn
<1>2. CASE live.turn # None
  <2>1. live.turn \in Turn
    BY <1>2, SessionIs
  <2>2. [type |-> "turn.completed", turn |-> live.turn] \in RuntimeEvent
    BY <2>1, EventMade
  <2> QED BY <1>2, <2>1, <2>2 DEF EndOfTurn
<1> QED BY <1>1, <1>2

LEMMA EndEmitted ==
  ASSUME live \in Session, emitted \in Seq(RuntimeEvent), Emit(EndOfTurn)
  PROVE  /\ emitted' \in Seq(RuntimeEvent)
         /\ live.turn = None => emitted' = emitted
         /\ \/ emitted' = emitted
            \/ /\ live.turn \in Turn
               /\ emitted' = Append(emitted, [type |-> "turn.completed", turn |-> live.turn])
         /\ live.by \notin Turn /\ live.turn # None =>
              emitted' = Append(emitted, [type |-> "turn.completed", turn |-> live.turn])
<1>1. CASE live.turn = None
  <2>1. emitted \o <<>> = emitted
    OBVIOUS
  <2> QED BY <1>1, <2>1, EndOfTurnIs, EmitIs
<1>2. CASE live.turn # None
  BY <1>2, EndOfTurnIs, OneEmitted
<1> QED BY <1>1, <1>2

(* What an upsert does. *)
LEMMA Upserted ==
  ASSUME SessInv, NEW s \in {"running", "stopped"}, NEW m \in Mode \cup {None}, Upsert(s, m)
  PROVE  /\ binding' \in BindingRecord /\ binding'.status = s /\ ~binding'.idle
         /\ m = None => binding'.mode = binding.mode
         /\ m # None => binding'.mode = m
<1>1. binding \in BindingRecord
  BY DEF SessInv, SessTyped
<1> QED BY <1>1 DEF Upsert, BindingRecord

(* The calls that lose their session. *)
LEMMA AbandonedCalls ==
  ASSUME NEW c \in [Process -> CallRecord], NEW hung
  PROVE  /\ Abandoned(c, hung) \in [Process -> CallRecord]
         /\ \A p \in Process :
              /\ c[p].pc = "asking" => Abandoned(c, hung)[p].pc \in {"broken", "hung"}
              /\ c[p].pc # "asking" => Abandoned(c, hung)[p] = c[p]
              /\ Abandoned(c, hung)[p].op = c[p].op /\ Abandoned(c, hung)[p].mode = c[p].mode
              /\ Abandoned(c, hung)[p].turn = c[p].turn
<1>1. ASSUME NEW p \in Process
      PROVE  /\ Abandoned(c, hung)[p] \in CallRecord
             /\ c[p].pc = "asking" => Abandoned(c, hung)[p].pc \in {"broken", "hung"}
             /\ c[p].pc # "asking" => Abandoned(c, hung)[p] = c[p]
             /\ Abandoned(c, hung)[p].op = c[p].op /\ Abandoned(c, hung)[p].mode = c[p].mode
             /\ Abandoned(c, hung)[p].turn = c[p].turn
  <2>1. PICK r \in CallRecord : r = c[p]
    OBVIOUS
  <2>2. PICK k \in {"broken", "hung"} : k = IF p \in hung THEN "hung" ELSE "broken"
    OBVIOUS
  <2>3. Abandoned(c, hung)[p] = IF r.pc = "asking" THEN [r EXCEPT !.pc = k] ELSE r
    BY <2>1, <2>2 DEF Abandoned
  <2>4. k \in {"idle", "spawning", "asking", "astray", "broken", "hung", "closing", "done", "failed"}
    BY <2>2
  <2>5. /\ [r EXCEPT !.pc = k] \in CallRecord
        /\ [r EXCEPT !.pc = k].pc = k
        /\ [r EXCEPT !.pc = k].op = r.op
        /\ [r EXCEPT !.pc = k].mode = r.mode
        /\ [r EXCEPT !.pc = k].turn = r.turn
    BY <2>4 DEF CallRecord
  <2> QED BY <2>1, <2>2, <2>3, <2>5
<1>2. Abandoned(c, hung) = [p \in Process |-> Abandoned(c, hung)[p]]
  BY DEF Abandoned
<1> QED BY <1>1, <1>2

LEMMA AstrayCalls ==
  ASSUME NEW c \in [Process -> CallRecord]
  PROVE  /\ Astray(c) \in [Process -> CallRecord]
         /\ \A p \in Process :
              /\ Astray(c)[p].pc = (IF c[p].pc = "asking" THEN "astray" ELSE c[p].pc)
              /\ Astray(c)[p].op = c[p].op /\ Astray(c)[p].mode = c[p].mode
              /\ Astray(c)[p].turn = c[p].turn
              /\ c[p].pc # "asking" => Astray(c)[p] = c[p]
<1>1. ASSUME NEW p \in Process
      PROVE  /\ Astray(c)[p] \in CallRecord
             /\ Astray(c)[p].pc = (IF c[p].pc = "asking" THEN "astray" ELSE c[p].pc)
             /\ Astray(c)[p].op = c[p].op /\ Astray(c)[p].mode = c[p].mode
             /\ Astray(c)[p].turn = c[p].turn
             /\ c[p].pc # "asking" => Astray(c)[p] = c[p]
  <2>1. c[p] \in CallRecord
    OBVIOUS
  <2>2. Astray(c)[p] = IF c[p].pc = "asking" THEN [c[p] EXCEPT !.pc = "astray"] ELSE c[p]
    BY DEF Astray
  <2>3. /\ [c[p] EXCEPT !.pc = "astray"] \in CallRecord
        /\ [c[p] EXCEPT !.pc = "astray"].pc = "astray"
        /\ [c[p] EXCEPT !.pc = "astray"].op = c[p].op
        /\ [c[p] EXCEPT !.pc = "astray"].mode = c[p].mode
        /\ [c[p] EXCEPT !.pc = "astray"].turn = c[p].turn
    BY <2>1, CallMoved
  <2> QED BY <2>1, <2>2, <2>3
<1>2. Astray(c) = [p \in Process |-> Astray(c)[p]]
  BY DEF Astray
<1> QED BY <1>1, <1>2

-----------------------------------------------------------------------------
(* The steps of the provider service keep what always holds.               *)
LEMMA SpawnSess ==
  ASSUME SessInv, NEW p \in Process, NEW o \in {"start", "send", "interrupt"},
         NEW m \in Mode, NEW t \in Turn \cup {None}, o = "send" => t \in Turn,
         Spawn(p, o, m, t), UNCHANGED <<orphans, binding>>
  PROVE  SessInv'
<1> DEFINE c == [call EXCEPT ![p] = [op |-> o, pc |-> "spawning", mode |-> m, turn |-> t]]
<1>1. c \in [Process -> CallRecord]
  BY CallMade DEF SessInv, SessTyped
<1>2. \A q \in Process : c[q] = IF q = p THEN [op |-> o, pc |-> "spawning", mode |-> m, turn |-> t]
                                ELSE call[q]
  BY DEF SessInv, SessTyped
<1>3. CASE live = None
  <2>1. call' = c /\ UNCHANGED <<live, emitted, orphans, binding>>
    BY <1>3 DEF Spawn
  <2>2. SessTyped' /\ BindingFits'
    BY <1>1, <2>1 DEF SessInv, SessTyped, BindingFits
  <2>3. \A q \in Process : CallFits(q)'
    BY <1>2, <2>1 DEF SessInv, CallFits
  <2> QED BY <2>2, <2>3 DEF SessInv
<1>4. CASE live # None
  <2>1. live' = None /\ UNCHANGED <<orphans, binding>>
    BY <1>4 DEF Spawn
  <2>0. PICK hung : call' = Abandoned(c, hung)
    BY <1>4 DEF Spawn
  <2>2. emitted' \in Seq(RuntimeEvent)
    <3>1. live \in Session /\ emitted \in Seq(RuntimeEvent)
      BY <1>4 DEF SessInv, SessTyped
    <3>2. Emit(<<[type |-> "session.exited"]>>) \/ Emit(EndOfTurn)
      BY <1>4 DEF Spawn
    <3> QED BY <3>1, <3>2, EventMade, OneEmitted, EndEmitted
  <2>3. SessTyped' /\ BindingFits'
    BY <1>1, <2>0, <2>1, <2>2, AbandonedCalls DEF SessInv, SessTyped, BindingFits
  <2>4. ASSUME NEW q \in Process  PROVE CallFits(q)'
    <3> HIDE DEF c
    <3>1. /\ c[q].pc = "asking" => call'[q].pc \in {"broken", "hung"}
          /\ c[q].pc # "asking" => call'[q].pc = c[q].pc
          /\ call'[q].op = c[q].op /\ call'[q].mode = c[q].mode /\ call'[q].turn = c[q].turn
      BY <1>1, <2>0, AbandonedCalls
    <3> QED BY <1>2, <2>1, <3>1 DEF SessInv, CallFits
  <2> QED BY <2>3, <2>4 DEF SessInv
<1> QED BY <1>3, <1>4

LEMMA RouteSess ==
  ASSUME SessInv, NEW p \in Process, NEW o \in {"send", "interrupt"},
         NEW t \in Turn \cup {None}, o = "send" => t \in Turn, Route(p, o, t)
  PROVE  SessInv'
<1>1. UNCHANGED <<orphans, binding>>
  BY DEF Route
<1>2. ASSUME binding.status # "none", Spawn(p, o, binding.mode, t)  PROVE SessInv'
  <2>1. binding.mode \in Mode
    BY <1>2 DEF SessInv, BindingFits
  <2> QED BY <1>1, <1>2, <2>1, SpawnSess
<1>3. ASSUME live # None, UNCHANGED <<live, emitted>>, NEW k \in {"asking", "hung", "done"},
             call' = [call EXCEPT ![p] = [op |-> o, mode |-> None, turn |-> t, pc |-> k]]
      PROVE  SessInv'
  <2>1. [op |-> o, mode |-> None, turn |-> t, pc |-> k] \in CallRecord
    BY DEF CallRecord
  <2>2. SessTyped' /\ BindingFits'
    BY <1>1, <1>3, <2>1 DEF SessInv, SessTyped, BindingFits
  <2>3. \A q \in Process : CallFits(q)'
    BY <1>1, <1>3 DEF SessInv, SessTyped, CallFits
  <2> QED BY <2>2, <2>3 DEF SessInv
<1> QED BY <1>2, <1>3 DEF Route

(* A call that goes on, and the others that stay or lose their session.    *)
LEMMA CallsMove ==
  ASSUME NEW cs \in [Process -> CallRecord], NEW p \in Process, NEW ds,
         NEW c \in {"idle", "spawning", "asking", "astray", "broken", "hung", "closing", "done", "failed"},
         ds = [cs EXCEPT ![p].pc = c]
  PROVE  /\ ds \in [Process -> CallRecord]
         /\ ds[p].pc = c /\ ds[p].op = cs[p].op /\ ds[p].mode = cs[p].mode
         /\ ds[p].turn = cs[p].turn
         /\ \A q \in Process : q # p => ds[q] = cs[q]
<1>1. cs[p] \in CallRecord
  OBVIOUS
<1>2. /\ [cs[p] EXCEPT !.pc = c] \in CallRecord
      /\ [cs[p] EXCEPT !.pc = c].pc = c /\ [cs[p] EXCEPT !.pc = c].op = cs[p].op
      /\ [cs[p] EXCEPT !.pc = c].mode = cs[p].mode /\ [cs[p] EXCEPT !.pc = c].turn = cs[p].turn
  BY <1>1 DEF CallRecord
<1>3. ds = [q \in Process |-> IF q = p THEN [cs[p] EXCEPT !.pc = c] ELSE cs[q]]
  OBVIOUS
<1> QED BY <1>2, <1>3

(* A call that ends.                                                       *)
CallEnded(ds, cs, p, c) ==
  /\ ds \in [Process -> CallRecord]
  /\ ds[p].pc = c /\ ds[p].op = cs[p].op /\ ds[p].turn = cs[p].turn
  /\ \A q \in Process : q # p => ds[q] = cs[q]

LEMMA CallIsEnded ==
  ASSUME NEW cs \in [Process -> CallRecord], NEW p \in Process, NEW c \in {"done", "failed"},
         NEW ds, ds = [cs EXCEPT ![p].pc = c]
  PROVE  CallEnded(ds, cs, p, c)
BY CallsMove DEF CallEnded

LEMMA MovedSess ==
  ASSUME SessInv, NEW p \in Process, NEW c \in {"done", "failed"},
         call' = [call EXCEPT ![p].pc = c], live' \in Session \cup {None}, orphans' = orphans,
         live = None <=> live' = None, emitted' \in Seq(RuntimeEvent),
         UNCHANGED binding \/ \E s \in {"running", "stopped"} : Upsert(s, None),
         binding.status = "none" => UNCHANGED binding
  PROVE  SessInv'
<1>0. call \in [Process -> CallRecord]
  BY DEF SessInv, SessTyped
<1>1. /\ call' \in [Process -> CallRecord]
      /\ call'[p].pc = c /\ call'[p].op = call[p].op /\ call'[p].turn = call[p].turn
      /\ \A q \in Process : q # p => call'[q] = call[q]
  <2>1. PICK d : d = [call EXCEPT ![p].pc = c]
    OBVIOUS
  <2>2. CallEnded(d, call, p, c)
    BY <1>0, <2>1, CallIsEnded
  <2> QED BY <2>1, <2>2 DEF CallEnded
<1>2. /\ binding' \in BindingRecord /\ binding'.mode = binding.mode
      /\ binding'.status = "none" <=> binding.status = "none"
  BY Upserted DEF SessInv, SessTyped
<1>3. SessTyped' /\ BindingFits'
  BY <1>1, <1>2 DEF SessInv, SessTyped, BindingFits
<1>4. ASSUME NEW q \in Process  PROVE CallFits(q)'
  BY <1>1, <1>2 DEF SessInv, CallFits
<1> QED BY <1>3, <1>4 DEF SessInv

LEMMA SpawnedSess == ASSUME SessInv, NEW p \in Process, Spawned(p)  PROVE SessInv'
<1>1. call \in [Process -> CallRecord] /\ call[p] \in CallRecord /\ call[p].mode \in Mode
      /\ CallFits(p) /\ call[p].pc = "spawning"
  BY DEF Spawned, SessInv, SessTyped, CallFits
<1>2. live' \in Session /\ live' # None
  <2>1. [mode |-> call[p].mode, turn |-> None, alive |-> TRUE, by |-> p] \in Session
    BY <1>1, SessionNew
  <2> QED BY <2>1, SessionIs DEF Spawned
<1>3. PICK c \in {"done", "asking"} : call' = [Astray(call) EXCEPT ![p].pc = c]
  BY DEF Spawned
<1>4. /\ call' \in [Process -> CallRecord] /\ call'[p].pc = c
      /\ call'[p].op = call[p].op /\ call'[p].turn = call[p].turn
      /\ \A q \in Process : q # p => call'[q] = Astray(call)[q]
  <2>1. PICK cs \in [Process -> CallRecord] : cs = Astray(call)
    BY <1>1, AstrayCalls
  <2>2. cs[p].op = call[p].op /\ cs[p].turn = call[p].turn
    BY <1>1, <2>1, AstrayCalls
  <2>3. PICK ds : ds = [cs EXCEPT ![p].pc = c]
    BY Zenon
  <2>4. /\ ds \in [Process -> CallRecord] /\ ds[p].pc = c
        /\ ds[p].op = cs[p].op /\ ds[p].turn = cs[p].turn
        /\ \A q \in Process : q # p => ds[q] = cs[q]
    BY <2>3, CallsMove
  <2> QED BY <1>3, <2>1, <2>2, <2>3, <2>4
<1>5. binding' \in BindingRecord /\ binding'.status = "running" /\ binding'.mode \in Mode
  <2>1. Upsert("running", call[p].mode) /\ call[p].mode # None
    BY <1>1, TurnFlowAssumption DEF Spawned
  <2> QED BY <1>1, <2>1, Upserted
<1>6. emitted' \in Seq(RuntimeEvent) /\ orphans' \in Nat
  BY EventMade DEF SessInv, SessTyped, Spawned
<1>7. SessTyped' /\ BindingFits'
  BY <1>2, <1>4, <1>5, <1>6 DEF SessTyped, BindingFits
<1>8. ASSUME NEW q \in Process  PROVE CallFits(q)'
  <2>1. call'[q].op = call[q].op /\ call'[q].turn = call[q].turn
    BY <1>1, <1>4, AstrayCalls
  <2>2. call'[q].pc = "spawning" => call[q].pc = "spawning" /\ call'[q].mode = call[q].mode
    BY <1>1, <1>4, AstrayCalls
  <2> QED BY <1>2, <1>5, <2>1, <2>2 DEF SessInv, CallFits
<1> QED BY <1>7, <1>8 DEF SessInv

LEMMA SpawnFailsSess == ASSUME SessInv, NEW p \in Process, SpawnFails(p)  PROVE SessInv'
<1>1. live \in Session \cup {None} /\ emitted \in Seq(RuntimeEvent)
  BY DEF SessInv, SessTyped
<1> QED BY <1>1, MovedSess DEF SpawnFails

LEMMA TurnRefusedSess == ASSUME SessInv, NEW p \in Process, TurnRefused(p)  PROVE SessInv'
<1>1. live \in Session \cup {None} /\ emitted \in Seq(RuntimeEvent)
  BY DEF SessInv, SessTyped
<1> QED BY <1>1, MovedSess DEF TurnRefused

LEMMA AcceptedSess == ASSUME SessInv, NEW p \in Process, TurnAccepted(p)  PROVE SessInv'
<1>1. live \in Session /\ call[p].turn \in Turn /\ binding.status # "none"
      /\ emitted \in Seq(RuntimeEvent)
  BY DEF TurnAccepted, SessInv, SessTyped, CallFits, BindingFits
<1>2. live' \in Session /\ live' # None /\ live.turn \in Turn \cup {None} /\ live # None
  BY <1>1, SessionTurn, SessionIs DEF TurnAccepted
<1>3. emitted' \in Seq(RuntimeEvent)
  <2>1. [type |-> "turn.started", turn |-> call[p].turn] \in RuntimeEvent
    BY <1>1, EventMade
  <2>2. PICK x \in Seq(RuntimeEvent) :
          x = EndOfTurn \o <<[type |-> "turn.started", turn |-> call[p].turn]>>
    <3>1. EndOfTurn \in Seq(RuntimeEvent)
      BY <1>1, EndOfTurnIs
    <3>2. \A e \in RuntimeEvent : EndOfTurn \o <<e>> \in Seq(RuntimeEvent)
      BY <3>1
    <3> QED BY <2>1, <3>2
  <2>3. Emit(x)
    BY <2>2 DEF TurnAccepted
  <2> QED BY <1>1, <2>3, EmitIs
<1> QED BY <1>1, <1>2, <1>3, MovedSess DEF TurnAccepted

LEMMA InterruptedSess == ASSUME SessInv, NEW p \in Process, Interrupted(p)  PROVE SessInv'
<1>1. live \in Session /\ emitted \in Seq(RuntimeEvent)
  BY DEF Interrupted, SessInv, SessTyped, CallFits
<1>2. live' \in Session /\ live' # None /\ live.turn \in Turn \cup {None} /\ live # None
  BY <1>1, SessionTurn, SessionIs DEF Interrupted
<1>3. emitted' \in Seq(RuntimeEvent)
  BY <1>1, EndEmitted DEF Interrupted
<1> QED BY <1>1, <1>2, <1>3, MovedSess DEF Interrupted

LEMMA AnsweredSess == ASSUME SessInv, NEW p \in Process, AnsweredAstray(p)  PROVE SessInv'
<1>1. /\ live \in Session \cup {None} /\ emitted \in Seq(RuntimeEvent) /\ binding.status # "none"
      /\ call[p].op = "send" => call[p].turn \in Turn
  BY DEF AnsweredAstray, SessInv, SessTyped, CallFits
<1>2. CASE call[p].op = "send"
  <2>1. /\ [type |-> "turn.started", turn |-> call[p].turn] \in RuntimeEvent
        /\ [type |-> "turn.completed", turn |-> call[p].turn] \in RuntimeEvent
    BY <1>1, <1>2, EventMade
  <2>2. \A x \in RuntimeEvent : <<x>> \in Seq(RuntimeEvent)
    OBVIOUS
  <2>3. /\ \A x, y \in Seq(RuntimeEvent) : x \o y \in Seq(RuntimeEvent)
        /\ <<>> \in Seq(RuntimeEvent)
    OBVIOUS
  <2>4. PICK end \in BOOLEAN : emitted' = emitted
          \o <<[type |-> "turn.started", turn |-> call[p].turn]>>
          \o (IF end THEN <<[type |-> "turn.completed", turn |-> call[p].turn]>> ELSE <<>>)
    BY <1>2 DEF AnsweredAstray
  <2>5. emitted' \in Seq(RuntimeEvent)
    BY <1>1, <2>1, <2>2, <2>3, <2>4
  <2>6. Upsert("running", None)
    BY <1>2 DEF AnsweredAstray
  <2> QED BY <1>1, <2>5, <2>6, MovedSess DEF AnsweredAstray
<1>3. CASE call[p].op # "send"
  <2>1. UNCHANGED <<live, orphans, binding, emitted>> /\ call' = [call EXCEPT ![p].pc = "done"]
    BY <1>3 DEF AnsweredAstray
  <2> QED BY <1>1, <2>1, MovedSess
<1> QED BY <1>2, <1>3

LEMMA RefusedSess == ASSUME SessInv, NEW p \in Process, Refused(p)  PROVE SessInv'
<1>1. live \in Session \cup {None} /\ emitted \in Seq(RuntimeEvent)
  BY DEF SessInv, SessTyped
<1> QED BY <1>1, MovedSess DEF Refused

LEMMA ClosedSess == ASSUME SessInv, NEW p \in Process, Closed(p)  PROVE SessInv'
<1>1. live \in Session \cup {None} /\ emitted \in Seq(RuntimeEvent) /\ binding.status # "none"
  BY DEF Closed, SessInv, SessTyped, CallFits
<1> QED BY <1>1, MovedSess DEF Closed

LEMMA StopSess == ASSUME SessInv, NEW p \in Process, StopSession(p)  PROVE SessInv'
<1>0. live \in Session \cup {None} /\ emitted \in Seq(RuntimeEvent) /\ orphans' = orphans
      /\ orphans \in Nat /\ call \in [Process -> CallRecord] /\ binding \in BindingRecord
  BY DEF StopSession, SessInv, SessTyped
<1>1. ASSUME NEW c \in {"closing", "done", "failed"}, UNCHANGED <<live, emitted>>, c # "closing",
             call' = [call EXCEPT ![p] = [NoCall EXCEPT !.op = "stop", !.pc = c]],
             binding' = binding \/ (Upsert("stopped", None) /\ binding.status # "none")
      PROVE  SessInv'
  <2>1. /\ call' \in [Process -> CallRecord]
        /\ call'[p].pc = c /\ call'[p].op = "stop"
        /\ \A q \in Process : q # p => call'[q] = call[q]
    BY <1>0, <1>1, StopCall
  <2>2. /\ binding' \in BindingRecord /\ binding'.mode = binding.mode
        /\ binding'.status = "none" <=> binding.status = "none"
    BY <1>0, <1>1, Upserted
  <2>3. SessTyped' /\ BindingFits'
    BY <1>0, <1>1, <2>1, <2>2 DEF SessInv, SessTyped, BindingFits
  <2>4. ASSUME NEW q \in Process  PROVE CallFits(q)'
    BY <1>1, <2>1, <2>2 DEF SessInv, CallFits
  <2> QED BY <2>3, <2>4 DEF SessInv
<1>2. ASSUME binding.status # "none", live' = None, UNCHANGED binding,
             emitted' \in Seq(RuntimeEvent), NEW hung,
             call' = [Abandoned(call, hung) EXCEPT ![p] = [NoCall EXCEPT !.op = "stop", !.pc = "closing"]]
      PROVE  SessInv'
  <2>1. /\ call' \in [Process -> CallRecord]
        /\ call'[p].pc = "closing" /\ call'[p].op = "stop"
        /\ \A q \in Process : q # p => call'[q] = Abandoned(call, hung)[q]
    BY <1>0, <1>2, StopCall, AbandonedCalls
  <2>2. SessTyped' /\ BindingFits'
    BY <1>0, <1>2, <2>1 DEF SessInv, SessTyped, BindingFits
  <2>3. ASSUME NEW q \in Process, q # p  PROVE CallFits(q)'
    <3>1. /\ call[q].pc = "asking" => call'[q].pc \in {"broken", "hung"}
          /\ call[q].pc # "asking" => call'[q].pc = call[q].pc
          /\ call'[q].op = call[q].op /\ call'[q].mode = call[q].mode
          /\ call'[q].turn = call[q].turn
      BY <1>0, <2>1, <2>3, AbandonedCalls
    <3> QED BY <1>2, <3>1 DEF SessInv, CallFits
  <2>4. CallFits(p)'
    BY <1>2, <2>1 DEF CallFits
  <2> QED BY <2>2, <2>3, <2>4 DEF SessInv
<1>3. CASE binding.status # "none" /\ live # None
  <2>1. Emit(<<[type |-> "session.exited"]>>) /\ live' = None /\ UNCHANGED binding
    BY <1>3 DEF StopSession
  <2>2. PICK hung :
          call' = [Abandoned(call, hung) EXCEPT ![p] = [NoCall EXCEPT !.op = "stop", !.pc = "closing"]]
    BY <1>3 DEF StopSession
  <2>3. emitted' \in Seq(RuntimeEvent)
    BY <1>0, <2>1, EventMade, OneEmitted
  <2> QED BY <1>2, <1>3, <2>1, <2>2, <2>3
<1>4. CASE ~(binding.status # "none" /\ live # None)
  BY <1>1, <1>4 DEF StopSession
<1> QED BY <1>3, <1>4

LEMMA ReturnSess ==
  ASSUME SessInv, NEW p \in Process, Return(p), UNCHANGED <<live, orphans, binding, emitted>>
  PROVE  SessInv' /\ Idle(p)' /\ \A q \in Process : q # p => call'[q] = call[q]
<1>1. /\ call' \in [Process -> CallRecord] /\ call'[p] = NoCall
      /\ \A q \in Process : q # p => call'[q] = call[q]
  BY NoCallIs DEF Return, SessInv, SessTyped
<1>2. SessTyped' /\ BindingFits'
  BY <1>1 DEF SessInv, SessTyped, BindingFits
<1>3. ASSUME NEW q \in Process  PROVE CallFits(q)'
  BY <1>1, NoCallIs DEF SessInv, CallFits
<1> QED BY <1>1, <1>2, <1>3, NoCallIs DEF SessInv, Idle

(* The calls stay, as long as there is a session for those that ask.       *)
LEMMA SameCallsSess ==
  ASSUME SessInv, UNCHANGED <<orphans, call>>, live' \in Session \cup {None},
         live = None <=> live' = None, emitted' \in Seq(RuntimeEvent), binding' \in BindingRecord,
         binding'.status = binding.status, binding'.mode = binding.mode
  PROVE  SessInv'
<1>1. SessTyped' /\ BindingFits'
  BY DEF SessInv, SessTyped, BindingFits
<1>2. \A q \in Process : CallFits(q)'
  BY DEF SessInv, CallFits
<1> QED BY <1>1, <1>2 DEF SessInv

LEMMA SameSess == ASSUME SessInv, UNCHANGED sessionVars  PROVE SessInv'
BY SameCallsSess DEF SessInv, SessTyped, sessionVars

LEMMA CompletesSess == ASSUME SessInv, TurnCompletes  PROVE SessInv'
<1>1. live \in Session /\ live.turn \in Turn /\ emitted \in Seq(RuntimeEvent) /\ live # None
      /\ binding \in BindingRecord
  BY SessionIs DEF TurnCompletes, SessInv, SessTyped
<1>2. live' \in Session /\ live' # None
  BY <1>1, SessionTurn DEF TurnCompletes
<1>3. emitted' \in Seq(RuntimeEvent)
  BY <1>1, EndEmitted DEF TurnCompletes
<1> QED BY <1>1, <1>2, <1>3, SameCallsSess DEF TurnCompletes

LEMMA DiesSess == ASSUME SessInv, ProcessDies  PROVE SessInv'
<1>1. live \in Session /\ emitted \in Seq(RuntimeEvent) /\ call \in [Process -> CallRecord]
  BY DEF ProcessDies, SessInv, SessTyped
<1>2. PICK hung : call' = Abandoned(call, hung)
  BY DEF ProcessDies
<1>3. live' \in Session \cup {None} /\ emitted' \in Seq(RuntimeEvent)
  <2>1. [live EXCEPT !.alive = FALSE, !.turn = None] \in Session
    BY <1>1, SessionDead, Zenon
  <2>2. emitted' \in Seq(RuntimeEvent)
    BY <1>1, EventMade, OneEmitted DEF ProcessDies
  <2> QED BY <2>1, <2>2 DEF ProcessDies
<1>4. SessTyped' /\ BindingFits'
  BY <1>1, <1>2, <1>3, AbandonedCalls DEF ProcessDies, SessInv, SessTyped, BindingFits
<1>5. ASSUME NEW q \in Process  PROVE CallFits(q)'
  <2>1. /\ call[q].pc = "asking" => call'[q].pc \in {"broken", "hung"}
        /\ call[q].pc # "asking" => call'[q].pc = call[q].pc
        /\ call'[q].op = call[q].op /\ call'[q].mode = call[q].mode
        /\ call'[q].turn = call[q].turn
    BY <1>1, <1>2, AbandonedCalls
  <2> QED BY <2>1 DEF ProcessDies, SessInv, CallFits
<1> QED BY <1>4, <1>5 DEF SessInv

-----------------------------------------------------------------------------
(* The records of the flow.                                                *)
LEMMA ThreadSessionMade ==
  ASSUME NEW s \in {"ready", "running", "stopped"}, NEW m \in Mode, NEW t \in Turn \cup {None}
  PROVE  /\ [status |-> s, mode |-> m, turn |-> t] \in ThreadSession
         /\ [status |-> s, mode |-> m, turn |-> t] # None
<1>1. [status |-> s, mode |-> m, turn |-> t] \in ThreadSession
  BY DEF ThreadSession
<1> QED BY <1>1, TurnFlowAssumption DEF ThreadSession

LEMMA ThreadSessionIs ==
  ASSUME NEW s \in ThreadSession
  PROVE  /\ s # None /\ s.status \in {"ready", "running", "stopped"}
         /\ s.mode \in Mode /\ s.turn \in Turn \cup {None}
BY TurnFlowAssumption DEF ThreadSession

LEMMA ThreadIs ==
  ASSUME FlowTyped
  PROVE  thread.mode \in Mode /\ thread.session \in ThreadSession \cup {None}
         /\ thread.deleted \in BOOLEAN
BY DEF FlowTyped, ThreadRecord

LEMMA ThreadSet ==
  ASSUME FlowTyped, NEW s \in ThreadSession \cup {None}, SetThreadSession(s)
  PROVE  thread' \in ThreadRecord /\ thread'.session = s /\ thread'.mode = thread.mode
BY DEF FlowTyped, ThreadRecord, SetThreadSession

LEMMA WorkerIs ==
  ASSUME FlowTyped
  PROVE  /\ worker.turn \in Turn \cup {None} /\ worker.mode \in Mode \cup {None}
         /\ worker.session \in ThreadSession \cup {None}
         /\ worker.pc \in {"idle", "starting", "asking", "stopping", "reset", "stopped"}
BY DEF FlowTyped, WorkerRecord

LEMMA WorkerMade ==
  ASSUME NEW c \in {"idle", "starting", "asking", "stopping", "reset", "stopped"},
         NEW t \in Turn \cup {None}, NEW m \in Mode \cup {None}, NEW s \in ThreadSession \cup {None}
  PROVE  [pc |-> c, turn |-> t, mode |-> m, session |-> s] \in WorkerRecord
BY DEF WorkerRecord

LEMMA IdleWorkerIs ==
  /\ IdleWorker \in WorkerRecord /\ IdleWorker.pc = "idle"
  /\ \A c \in {"idle", "starting", "asking", "stopping", "reset", "stopped"} :
       /\ [IdleWorker EXCEPT !.pc = c] \in WorkerRecord
       /\ [IdleWorker EXCEPT !.pc = c].pc = c /\ (c # "idle" => [IdleWorker EXCEPT !.pc = c] # IdleWorker)
       /\ \A m \in Mode : /\ [IdleWorker EXCEPT !.pc = c, !.mode = m] \in WorkerRecord
                          /\ [IdleWorker EXCEPT !.pc = c, !.mode = m].pc = c
                          /\ [IdleWorker EXCEPT !.pc = c, !.mode = m].mode = m
                          /\ [IdleWorker EXCEPT !.pc = c, !.mode = m].turn = None
                          /\ c # "idle" => [IdleWorker EXCEPT !.pc = c, !.mode = m] # IdleWorker
BY Zenon DEF IdleWorker, WorkerRecord

LEMMA SenderIs ==
  ASSUME FlowTyped, NEW t \in Turn
  PROVE  /\ sender[t].pc \in {"none", "forked", "sending", "reset", "done"}
         /\ sender[t].session \in ThreadSession \cup {None}
BY DEF FlowTyped, SenderRecord

LEMMA SenderMade ==
  ASSUME FlowTyped, NEW t \in Turn, NEW c \in {"none", "forked", "sending", "reset", "done"},
         NEW s \in ThreadSession \cup {None}
  PROVE  LET new == [sender EXCEPT ![t] = [pc |-> c, session |-> s]]
         IN  /\ new \in [Turn -> SenderRecord] /\ new[t].pc = c
             /\ \A u \in Turn : u # t => new[u] = sender[u]
<1>1. [pc |-> c, session |-> s] \in SenderRecord
  BY DEF SenderRecord
<1> QED BY <1>1 DEF FlowTyped

LEMMA SenderMoved ==
  ASSUME FlowTyped, NEW t \in Turn, NEW c \in {"none", "forked", "sending", "reset", "done"}
  PROVE  LET new == [sender EXCEPT ![t].pc = c]
         IN  /\ new \in [Turn -> SenderRecord] /\ new[t].pc = c
             /\ \A u \in Turn : u # t => new[u] = sender[u]
<1>1. sender[t] \in SenderRecord /\ sender \in [Turn -> SenderRecord]
  BY DEF FlowTyped
<1>2. [sender[t] EXCEPT !.pc = c] \in SenderRecord /\ [sender[t] EXCEPT !.pc = c].pc = c
  BY <1>1 DEF SenderRecord
<1> QED BY <1>1, <1>2

LEMMA IntentMade ==
  /\ \A t \in Turn : [type |-> "turn", turn |-> t] \in Intent
  /\ \A k \in {"mode", "interrupt", "stop"} : [type |-> k] \in Intent
BY DEF Intent

LEMMA IntentIs ==
  ASSUME NEW i \in Intent
  PROVE  /\ i.type \in {"turn", "mode", "interrupt", "stop"}
         /\ i.type = "turn" => i.turn \in Turn
BY DEF Intent

LEMMA ResetIs ==
  ASSUME NEW s \in ThreadSession \cup {None}
  PROVE  ResetSession(s) \in ThreadSession \cup {None}
<1>1. CASE s = None
  BY <1>1 DEF ResetSession
<1>2. CASE s \in ThreadSession
  BY <1>2, ThreadSessionIs DEF ResetSession, ThreadSession
<1> QED BY <1>1, <1>2

LEMMA NextIs ==
  ASSUME NEW e \in RuntimeEvent, NEW t \in Turn \cup {None}, NEW m \in Mode
  PROVE  /\ NextSession(e, t, m) \in ThreadSession
         /\ NextSession(e, t, m).turn = IF e.type = "turn.started" THEN e.turn
                                        ELSE IF e.type = "session.started" THEN t ELSE None
         /\ NextSession(e, t, m).status = "stopped" <=> e.type = "session.exited"
         /\ e.type = "turn.completed" => NextSession(e, t, m).status = "ready"
<1>1. CASE e.type = "turn.started"
  <2>1. NextSession(e, t, m) = [status |-> "running", turn |-> e.turn, mode |-> m]
    BY <1>1 DEF NextSession
  <2> QED BY <1>1, <2>1, EventIs DEF ThreadSession
<1>2. CASE e.type = "turn.completed"
  <2>1. NextSession(e, t, m) = [status |-> "ready", turn |-> None, mode |-> m]
    BY <1>2 DEF NextSession
  <2> QED BY <1>2, <2>1 DEF ThreadSession
<1>3. CASE e.type = "session.exited"
  <2>1. NextSession(e, t, m) = [status |-> "stopped", turn |-> None, mode |-> m]
    BY <1>3 DEF NextSession
  <2> QED BY <1>3, <2>1 DEF ThreadSession
<1>4. CASE e.type = "session.started"
  <2>1. NextSession(e, t, m) =
          [status |-> IF t = None THEN "ready" ELSE "running", turn |-> t, mode |-> m]
    BY <1>4 DEF NextSession
  <2> QED BY <1>4, <2>1 DEF ThreadSession
<1> QED BY <1>1, <1>2, <1>3, <1>4, EventIs

LEMMA UsedGrows ==
  ASSUME FlowTyped, NEW k \in Bounded, Use(k)
  PROVE  used' \in [Bounded -> Nat] /\ used'[k] > 0 /\ \A j \in Bounded : used'[j] >= used[j]
BY DEF FlowTyped, Use

LEMMA ProcessesAre ==
  /\ \A t \in Turn : t \in Process /\ t # "worker" /\ t # "deletion" /\ t # "reaper"
  /\ "worker" \in Process /\ "deletion" \in Process /\ "reaper" \in Process
  /\ \A p \in Process : p \in Turn \/ p \in {"worker", "deletion", "reaper"}
BY TurnFlowAssumption DEF Reactors

-----------------------------------------------------------------------------
(* Every action keeps what always holds.                                   *)
LEMMA StartTurnAny == ASSUME AnyInv, UNCHANGED overlap, running' \in Turn \cup {None}, NEW t \in Turn, StartTurn(t)  PROVE AnyInv'
<1>1. SessInv'
  BY SameSess DEF AnyInv, StartTurn
<1>2. intents' \in Seq(Intent)
  <2>1. [type |-> "turn", turn |-> t] \in Intent /\ intents \in Seq(Intent)
    BY IntentMade DEF AnyInv, FlowTyped
  <2> QED BY <2>1 DEF StartTurn
<1>3. FlowTyped' /\ WorkerFits'
  BY <1>2 DEF AnyInv, FlowTyped, WorkerFits, StartTurn
<1> QED BY <1>1, <1>3 DEF AnyInv

LEMMA SetModeAny == ASSUME AnyInv, UNCHANGED overlap, running' \in Turn \cup {None}, NEW m \in Mode, SetMode(m)  PROVE AnyInv'
<1>1. SessInv'
  BY SameSess DEF AnyInv, SetMode
<1>2. intents' \in Seq(Intent)
  <2>1. [type |-> "mode"] \in Intent /\ intents \in Seq(Intent)
    BY IntentMade DEF AnyInv, FlowTyped
  <2> QED BY <2>1 DEF SetMode
<1>3. thread' \in ThreadRecord
  BY DEF AnyInv, FlowTyped, SetMode, ThreadRecord
<1>4. used' \in [Bounded -> Nat]
  BY UsedGrows DEF AnyInv, SetMode, Bounded
<1>5. FlowTyped' /\ WorkerFits'
  BY <1>2, <1>3, <1>4 DEF AnyInv, FlowTyped, WorkerFits, SetMode
<1> QED BY <1>1, <1>5 DEF AnyInv

LEMMA RequestInterruptAny == ASSUME AnyInv, UNCHANGED overlap, running' \in Turn \cup {None}, RequestInterrupt  PROVE AnyInv'
<1>1. SessInv'
  BY SameSess DEF AnyInv, RequestInterrupt
<1>2. intents' \in Seq(Intent)
  <2>1. [type |-> "interrupt"] \in Intent /\ intents \in Seq(Intent)
    BY IntentMade DEF AnyInv, FlowTyped
  <2> QED BY <2>1 DEF RequestInterrupt
<1>3. used' \in [Bounded -> Nat]
  BY UsedGrows DEF AnyInv, RequestInterrupt, Bounded
<1>4. FlowTyped' /\ WorkerFits'
  BY <1>2, <1>3 DEF AnyInv, FlowTyped, WorkerFits, RequestInterrupt
<1> QED BY <1>1, <1>4 DEF AnyInv

LEMMA RequestStopAny == ASSUME AnyInv, UNCHANGED overlap, running' \in Turn \cup {None}, RequestStop  PROVE AnyInv'
<1>1. SessInv'
  BY SameSess DEF AnyInv, RequestStop
<1>2. intents' \in Seq(Intent)
  <2>1. [type |-> "stop"] \in Intent /\ intents \in Seq(Intent)
    BY IntentMade DEF AnyInv, FlowTyped
  <2> QED BY <2>1 DEF RequestStop
<1>3. used' \in [Bounded -> Nat]
  BY UsedGrows DEF AnyInv, RequestStop, Bounded
<1>4. FlowTyped' /\ WorkerFits'
  BY <1>2, <1>3 DEF AnyInv, FlowTyped, WorkerFits, RequestStop
<1> QED BY <1>1, <1>4 DEF AnyInv

LEMMA DeleteThreadAny == ASSUME AnyInv, UNCHANGED overlap, running' \in Turn \cup {None}, DeleteThread  PROVE AnyInv'
<1>1. SessInv'
  BY SameSess DEF AnyInv, DeleteThread
<1>2. thread' \in ThreadRecord
  BY DEF AnyInv, FlowTyped, DeleteThread, ThreadRecord
<1>3. used' \in [Bounded -> Nat]
  BY UsedGrows DEF AnyInv, DeleteThread, Bounded
<1>4. FlowTyped' /\ WorkerFits'
  BY <1>2, <1>3 DEF AnyInv, FlowTyped, WorkerFits, DeleteThread
<1> QED BY <1>1, <1>4 DEF AnyInv

(* What the reactor may do with an intent.                                 *)
LEMMA StartSess ==
  ASSUME SessInv, NEW p \in Process, NEW m \in Mode, StartSession(p, m)
  PROVE  SessInv'
BY SpawnSess DEF StartSession

LEMMA TakeIntentAny == ASSUME AnyInv, UNCHANGED overlap, running' \in Turn \cup {None}, TakeIntent  PROVE AnyInv'
<1>0. SessInv /\ FlowTyped /\ "worker" \in Process /\ thread.mode \in Mode
  BY ProcessesAre, ThreadIs DEF AnyInv
<1>1. intents \in Seq(Intent) /\ intents # <<>> /\ intents' \in Seq(Intent) /\ Head(intents) \in Intent
  BY <1>0 DEF FlowTyped, TakeIntent
<1>2. UNCHANGED <<thread, outcome, stopped, used, deletion, reaper, ingest, overlap>>
  BY DEF TakeIntent, engineVars
<1>3. SUFFICES SessInv' /\ worker' \in WorkerRecord /\ sender' \in [Turn -> SenderRecord] /\ WorkerFits'
  BY <1>0, <1>1, <1>2 DEF AnyInv, FlowTyped
<1>4. worker \in WorkerRecord /\ worker = IdleWorker /\ sender \in [Turn -> SenderRecord]
  BY <1>0 DEF FlowTyped, TakeIntent
<1>5. CASE UNCHANGED <<sessionVars, worker>> /\ sender' \in [Turn -> SenderRecord]
  BY <1>0, <1>4, <1>5, SameSess, IdleWorkerIs, Zenon DEF WorkerFits
<1>6. ASSUME NEW t \in Turn, TakeTurn(t)  PROVE SessInv' /\ worker' \in WorkerRecord
                                                /\ sender' \in [Turn -> SenderRecord] /\ WorkerFits'
  <2>1. CASE keepsSession
    <3>1. Fork(t) /\ UNCHANGED <<sessionVars, worker>>
      BY <1>6, <2>1 DEF TakeTurn
    <3>2. sender' \in [Turn -> SenderRecord]
      BY <1>0, <3>1, SenderMade DEF Fork
    <3> QED BY <1>5, <3>1, <3>2
  <2>2. CASE ~keepsSession
    <3>1. /\ StartSession("worker", thread.mode) /\ UNCHANGED sender
          /\ worker' = [pc |-> "starting", turn |-> t, mode |-> thread.mode, session |-> None]
      BY <1>6, <2>2 DEF TakeTurn
    <3>2. worker' \in WorkerRecord /\ worker'.pc = "starting" /\ worker'.mode = thread.mode
      BY <1>0, <3>1, WorkerMade
    <3> QED BY <1>0, <1>4, <3>1, <3>2, StartSess DEF WorkerFits
  <2> QED BY <2>1, <2>2
<1>7. CASE Head(intents).type = "turn" /\ TakeTurn(Head(intents).turn)
  BY <1>1, <1>6, <1>7, IntentIs
<1>8. CASE TakeMode
  <2>1. CASE hasSession /\ ~keepsSession
    <3>1. /\ StartSession("worker", thread.mode) /\ UNCHANGED sender
          /\ worker' = [IdleWorker EXCEPT !.pc = "starting", !.mode = thread.mode]
      BY <1>8, <2>1 DEF TakeMode
    <3> QED BY <1>0, <1>4, <3>1, StartSess, IdleWorkerIs, Zenon DEF WorkerFits
  <2> QED BY <1>4, <1>5, <1>8, <2>1 DEF TakeMode
<1>9. CASE TakeInterrupt
  <2>1. CASE hasSession
    <3>1. /\ Route("worker", "interrupt", None) /\ UNCHANGED sender
          /\ worker' = [IdleWorker EXCEPT !.pc = "asking"]
      BY <1>9, <2>1 DEF TakeInterrupt
    <3>2. SessInv'
      BY <1>0, <3>1, RouteSess
    <3> QED BY <1>4, <3>1, <3>2, IdleWorkerIs, Zenon DEF WorkerFits
  <2> QED BY <1>4, <1>5, <1>9, <2>1 DEF TakeInterrupt
<1>10. CASE TakeStop
  <2>1. CASE hasSession
    <3>1. /\ StopSession("worker") /\ UNCHANGED sender
          /\ worker' = [IdleWorker EXCEPT !.pc = "stopping"]
      BY <1>10, <2>1 DEF TakeStop
    <3>2. SessInv'
      BY <1>0, <3>1, StopSess
    <3> QED BY <1>4, <3>1, <3>2, IdleWorkerIs, Zenon DEF WorkerFits
  <2>2. CASE ~hasSession
    <3>1. worker' = [IdleWorker EXCEPT !.pc = "stopped"] /\ UNCHANGED <<sessionVars, sender>>
      BY <1>10, <2>2 DEF TakeStop
    <3> QED BY <1>0, <1>4, <3>1, SameSess, IdleWorkerIs, Zenon DEF WorkerFits
  <2> QED BY <2>1, <2>2
<1> QED BY <1>7, <1>8, <1>9, <1>10 DEF TakeIntent

LEMMA BindSessionAny == ASSUME AnyInv, UNCHANGED overlap, running' \in Turn \cup {None}, BindSession  PROVE AnyInv'
<1>0. SessInv /\ FlowTyped /\ "worker" \in Process /\ worker.mode \in Mode
      /\ worker.turn \in Turn \cup {None} /\ sender \in [Turn -> SenderRecord]
  BY ProcessesAre, WorkerIs DEF AnyInv, WorkerFits, BindSession, FlowTyped
<1>1. SessInv'
  BY <1>0, ReturnSess DEF BindSession
<1>2. thread' \in ThreadRecord
  <2>1. [status |-> "ready", mode |-> worker.mode, turn |-> None] \in ThreadSession
    BY <1>0, ThreadSessionMade
  <2> QED BY <1>0, <2>1, ThreadSet DEF BindSession
<1>3. sender' \in [Turn -> SenderRecord]
  BY <1>0, SenderMade DEF BindSession, Fork
<1>4. FlowTyped' /\ WorkerFits'
  BY <1>0, <1>2, <1>3, IdleWorkerIs, Zenon DEF FlowTyped, WorkerFits, BindSession, engineVars
<1> QED BY <1>1, <1>4 DEF AnyInv

LEMMA StartFailedAny == ASSUME AnyInv, UNCHANGED overlap, running' \in Turn \cup {None}, StartFailed  PROVE AnyInv'
<1>0. SessInv /\ FlowTyped /\ "worker" \in Process /\ worker.mode \in Mode
      /\ worker.turn \in Turn \cup {None} /\ worker \in WorkerRecord
      /\ thread.session \in ThreadSession \cup {None}
  BY ProcessesAre, WorkerIs, ThreadIs DEF AnyInv, WorkerFits, StartFailed, FlowTyped
<1>1. SessInv'
  BY <1>0, ReturnSess DEF StartFailed
<1>2. worker' \in WorkerRecord /\ WorkerFits'
  <2>1. ResetSession(thread.session) \in ThreadSession \cup {None}
    BY <1>0, ResetIs
  <2>2. CASE worker.turn = None
    BY <2>2, IdleWorkerIs, Zenon DEF StartFailed, WorkerFits
  <2>3. CASE worker.turn # None
    <3>1. worker' = [worker EXCEPT !.pc = "reset", !.session = ResetSession(thread.session)]
      BY <2>3 DEF StartFailed
    <3>2. worker' \in WorkerRecord /\ worker'.pc = "reset" /\ worker'.turn = worker.turn
      BY <1>0, <2>1, <3>1 DEF WorkerRecord
    <3> QED BY <1>0, <2>3, <3>2 DEF WorkerFits
  <2> QED BY <2>2, <2>3
<1>3. FlowTyped'
  BY <1>0, <1>2 DEF FlowTyped, StartFailed, engineVars
<1> QED BY <1>1, <1>2, <1>3 DEF AnyInv

LEMMA ReportStartFailedAny == ASSUME AnyInv, UNCHANGED overlap, running' \in Turn \cup {None}, ReportStartFailed  PROVE AnyInv'
<1>0. SessInv /\ FlowTyped /\ worker.turn \in Turn /\ worker.session \in ThreadSession \cup {None}
  BY WorkerIs DEF AnyInv, WorkerFits, ReportStartFailed
<1>1. SessInv'
  BY <1>0, SameSess DEF ReportStartFailed
<1>2. thread' \in ThreadRecord
  BY <1>0, ThreadSet DEF ReportStartFailed, FlowTyped
<1>3. FlowTyped' /\ WorkerFits'
  BY <1>0, <1>2, IdleWorkerIs, Zenon DEF FlowTyped, WorkerFits, ReportStartFailed
<1> QED BY <1>1, <1>3 DEF AnyInv

LEMMA InterruptReturnsAny == ASSUME AnyInv, UNCHANGED overlap, running' \in Turn \cup {None}, InterruptReturns  PROVE AnyInv'
<1>0. SessInv /\ FlowTyped /\ "worker" \in Process
  BY ProcessesAre DEF AnyInv
<1>1. SessInv'
  BY <1>0, ReturnSess DEF InterruptReturns
<1>2. FlowTyped' /\ WorkerFits'
  BY <1>0, IdleWorkerIs, Zenon DEF FlowTyped, WorkerFits, InterruptReturns, engineVars
<1> QED BY <1>1, <1>2 DEF AnyInv

LEMMA StopReturnsAny == ASSUME AnyInv, UNCHANGED overlap, running' \in Turn \cup {None}, StopReturns  PROVE AnyInv'
<1>0. SessInv /\ FlowTyped /\ "worker" \in Process
  BY ProcessesAre DEF AnyInv
<1>1. SessInv'
  BY <1>0, ReturnSess DEF StopReturns
<1>2. worker' \in WorkerRecord /\ worker'.pc \in {"idle", "stopped"}
  BY IdleWorkerIs, Zenon DEF StopReturns
<1>3. FlowTyped' /\ WorkerFits'
  BY <1>0, <1>2 DEF FlowTyped, WorkerFits, StopReturns, engineVars
<1> QED BY <1>1, <1>3 DEF AnyInv

LEMMA SetStoppedAny == ASSUME AnyInv, UNCHANGED overlap, running' \in Turn \cup {None}, SetStopped  PROVE AnyInv'
<1>0. SessInv /\ FlowTyped
  BY DEF AnyInv
<1>1. SessInv'
  BY <1>0, SameSess DEF SetStopped
<1>2. PICK m : m = IF thread.session = None THEN FullAccess ELSE thread.session.mode
  OBVIOUS
<1>3. m \in Mode
  BY <1>0, <1>2, ThreadIs, ThreadSessionIs, TurnFlowAssumption
<1>4. SetThreadSession([status |-> "stopped", turn |-> None, mode |-> m])
  BY <1>2 DEF SetStopped
<1>5. [status |-> "stopped", turn |-> None, mode |-> m] \in ThreadSession
  BY <1>3 DEF ThreadSession
<1>6. thread' \in ThreadRecord
  BY <1>0, <1>4, <1>5, ThreadSet
<1>7. FlowTyped' /\ WorkerFits'
  BY <1>0, <1>6, IdleWorkerIs, Zenon DEF FlowTyped, WorkerFits, SetStopped, engineVars
<1> QED BY <1>1, <1>7 DEF AnyInv

LEMMA SendAny == ASSUME AnyInv, UNCHANGED overlap, running' \in Turn \cup {None}, NEW t \in Turn, Send(t)  PROVE AnyInv'
<1>0. SessInv /\ FlowTyped /\ t \in Process
  BY ProcessesAre DEF AnyInv
<1>1. SessInv'
  BY <1>0, RouteSess DEF Send
<1>2. sender' \in [Turn -> SenderRecord]
  BY <1>0, SenderMoved DEF Send
<1>3. FlowTyped' /\ WorkerFits'
  BY <1>2 DEF AnyInv, FlowTyped, WorkerFits, Send, engineVars
<1> QED BY <1>1, <1>3 DEF AnyInv

LEMMA SendReturnsAny == ASSUME AnyInv, UNCHANGED overlap, running' \in Turn \cup {None}, NEW t \in Turn, SendReturns(t)  PROVE AnyInv'
<1>0. SessInv /\ FlowTyped /\ t \in Process
  BY ProcessesAre DEF AnyInv
<1>1. SessInv'
  BY <1>0, ReturnSess DEF SendReturns
<1>2. sender' \in [Turn -> SenderRecord]
  BY <1>0, SenderMoved DEF SendReturns
<1>3. FlowTyped' /\ WorkerFits'
  BY <1>2 DEF AnyInv, FlowTyped, WorkerFits, SendReturns, engineVars
<1> QED BY <1>1, <1>3 DEF AnyInv

LEMMA SendFailsAny == ASSUME AnyInv, UNCHANGED overlap, running' \in Turn \cup {None}, NEW t \in Turn, SendFails(t)  PROVE AnyInv'
<1>0. SessInv /\ FlowTyped /\ t \in Process
  BY ProcessesAre DEF AnyInv
<1>1. SessInv'
  BY <1>0, ReturnSess DEF SendFails
<1>2. ResetSession(thread.session) \in ThreadSession \cup {None}
  BY <1>0, ResetIs, ThreadIs
<1>3. sender' \in [Turn -> SenderRecord]
  BY <1>0, <1>2, SenderMade DEF SendFails
<1>4. FlowTyped' /\ WorkerFits'
  BY <1>3 DEF AnyInv, FlowTyped, WorkerFits, SendFails, engineVars
<1> QED BY <1>1, <1>4 DEF AnyInv

LEMMA ReportSendFailedAny ==
  ASSUME AnyInv, UNCHANGED overlap, running' \in Turn \cup {None}, NEW t \in Turn, ReportSendFailed(t)  PROVE AnyInv'
<1>0. SessInv /\ FlowTyped /\ sender[t].session \in ThreadSession \cup {None}
  BY SenderIs DEF AnyInv
<1>1. SessInv'
  BY <1>0, SameSess DEF ReportSendFailed
<1>2. thread' \in ThreadRecord
  BY <1>0, ThreadSet DEF ReportSendFailed, FlowTyped
<1>3. sender' \in [Turn -> SenderRecord]
  BY <1>0, SenderMade DEF ReportSendFailed
<1>4. FlowTyped' /\ WorkerFits'
  BY <1>2, <1>3 DEF AnyInv, FlowTyped, WorkerFits, ReportSendFailed, engineVars
<1> QED BY <1>1, <1>4 DEF AnyInv

LEMMA StopDeletedAny == ASSUME AnyInv, UNCHANGED overlap, running' \in Turn \cup {None}, StopDeleted  PROVE AnyInv'
<1>1. SessInv'
  BY StopSess, ProcessesAre DEF AnyInv, StopDeleted
<1>2. FlowTyped' /\ WorkerFits'
  BY DEF AnyInv, FlowTyped, WorkerFits, StopDeleted, engineVars
<1> QED BY <1>1, <1>2 DEF AnyInv

LEMMA StopDeletedReturnsAny == ASSUME AnyInv, UNCHANGED overlap, running' \in Turn \cup {None}, StopDeletedReturns  PROVE AnyInv'
<1>1. SessInv'
  BY ReturnSess, ProcessesAre DEF AnyInv, StopDeletedReturns
<1>2. FlowTyped' /\ WorkerFits'
  BY DEF AnyInv, FlowTyped, WorkerFits, StopDeletedReturns, engineVars
<1> QED BY <1>1, <1>2 DEF AnyInv

LEMMA GrowIdleAny == ASSUME AnyInv, UNCHANGED overlap, running' \in Turn \cup {None}, GrowIdle  PROVE AnyInv'
<1>1. binding \in BindingRecord /\ live \in Session \cup {None} /\ emitted \in Seq(RuntimeEvent)
  BY DEF AnyInv, SessInv, SessTyped
<1>2. binding' \in BindingRecord /\ binding'.status = binding.status /\ binding'.mode = binding.mode
  BY <1>1 DEF GrowIdle, BindingRecord
<1>3. SessInv'
  BY <1>1, <1>2, SameCallsSess DEF AnyInv, GrowIdle
<1>4. FlowTyped' /\ WorkerFits'
  BY DEF AnyInv, FlowTyped, WorkerFits, GrowIdle, engineVars
<1> QED BY <1>3, <1>4 DEF AnyInv

LEMMA SweepAny == ASSUME AnyInv, UNCHANGED overlap, running' \in Turn \cup {None}, Sweep  PROVE AnyInv'
<1>1. SessInv'
  BY SameSess DEF AnyInv, Sweep
<1>2. FlowTyped' /\ WorkerFits'
  BY DEF AnyInv, FlowTyped, WorkerFits, Sweep, engineVars
<1> QED BY <1>1, <1>2 DEF AnyInv

LEMMA ReapAny == ASSUME AnyInv, UNCHANGED overlap, running' \in Turn \cup {None}, Reap  PROVE AnyInv'
<1>1. SessInv'
  BY StopSess, ProcessesAre DEF AnyInv, Reap
<1>2. FlowTyped' /\ WorkerFits'
  BY DEF AnyInv, FlowTyped, WorkerFits, Reap, engineVars
<1> QED BY <1>1, <1>2 DEF AnyInv

LEMMA ReapReturnsAny == ASSUME AnyInv, UNCHANGED overlap, running' \in Turn \cup {None}, ReapReturns  PROVE AnyInv'
<1>1. SessInv'
  BY ReturnSess, ProcessesAre DEF AnyInv, ReapReturns
<1>2. FlowTyped' /\ WorkerFits'
  BY DEF AnyInv, FlowTyped, WorkerFits, ReapReturns, engineVars
<1> QED BY <1>1, <1>2 DEF AnyInv

(* The event that is read, and the turn and mode that it meets.            *)
LEMMA ReadEventDoes ==
  ASSUME AnyInv, ReadEvent
  PROVE  \E e \in RuntimeEvent, t \in Turn \cup {None}, m \in Mode :
           /\ e = Head(emitted) /\ t = IF thread.session = None THEN None ELSE thread.session.turn
           /\ ingest' = IF Applies(e, t) THEN NextSession(e, t, m) ELSE None
<1>1. emitted \in Seq(RuntimeEvent) /\ Head(emitted) \in RuntimeEvent
  BY DEF AnyInv, SessInv, SessTyped, ReadEvent
<1>2. thread.session \in ThreadSession \cup {None}
  BY ThreadIs DEF AnyInv
<1>3. PICK t : t = IF thread.session = None THEN None ELSE thread.session.turn
  OBVIOUS
<1>4. PICK m : m = IF thread.session = None THEN FullAccess ELSE thread.session.mode
  OBVIOUS
<1>5. t \in Turn \cup {None} /\ m \in Mode
  BY <1>2, <1>3, <1>4, ThreadSessionIs, TurnFlowAssumption
<1> QED BY <1>1, <1>3, <1>4, <1>5 DEF ReadEvent

LEMMA ReadEventAny == ASSUME AnyInv, UNCHANGED overlap, running' \in Turn \cup {None}, ReadEvent  PROVE AnyInv'
<1>1. emitted \in Seq(RuntimeEvent) /\ emitted' \in Seq(RuntimeEvent)
      /\ live \in Session \cup {None} /\ binding \in BindingRecord
  BY DEF AnyInv, SessInv, SessTyped, ReadEvent
<1>2. SessInv'
  BY <1>1, SameCallsSess DEF AnyInv, ReadEvent
<1>3. ingest' \in ThreadSession \cup {None}
  BY ReadEventDoes, NextIs
<1>4. FlowTyped' /\ WorkerFits'
  BY <1>3 DEF AnyInv, FlowTyped, WorkerFits, ReadEvent, engineVars
<1> QED BY <1>2, <1>4 DEF AnyInv

LEMMA DispatchSessionAny == ASSUME AnyInv, UNCHANGED overlap, running' \in Turn \cup {None}, DispatchSession  PROVE AnyInv'
<1>1. SessInv'
  BY SameSess DEF AnyInv, DispatchSession
<1>2. thread' \in ThreadRecord
  BY ThreadSet DEF AnyInv, FlowTyped, DispatchSession
<1>3. FlowTyped' /\ WorkerFits'
  BY <1>2 DEF AnyInv, FlowTyped, WorkerFits, DispatchSession, engineVars
<1> QED BY <1>1, <1>3 DEF AnyInv

LEMMA ServiceStepAny == ASSUME AnyInv, UNCHANGED overlap, running' \in Turn \cup {None}, ServiceStep  PROVE AnyInv'
<1>1. SessInv'
  BY SpawnedSess, ClosedSess, AcceptedSess, InterruptedSess, AnsweredSess, RefusedSess, CompletesSess
     DEF AnyInv, ServiceStep, Resume
<1>2. FlowTyped' /\ WorkerFits'
  BY DEF AnyInv, FlowTyped, WorkerFits, ServiceStep, engineVars
<1> QED BY <1>1, <1>2 DEF AnyInv

LEMMA FaultAny == ASSUME AnyInv, UNCHANGED overlap, running' \in Turn \cup {None}, Fault  PROVE AnyInv'
<1>1. SessInv'
  BY SpawnFailsSess, TurnRefusedSess, DiesSess DEF AnyInv, Fault
<1>2. used' \in [Bounded -> Nat]
  BY UsedGrows DEF AnyInv, Fault, Bounded
<1>3. FlowTyped' /\ WorkerFits'
  BY <1>2 DEF AnyInv, FlowTyped, WorkerFits, Fault, engineVars
<1> QED BY <1>1, <1>3 DEF AnyInv

LEMMA HeardIs == ASSUME AnyInv  PROVE HeardTurn \in Turn \cup {None}
BY SessionIs DEF AnyInv, SessInv, SessTyped, HeardTurn

LEMMA RunningIs ==
  ASSUME AnyInv, Next  PROVE running' \in Turn \cup {None}
<1>1. running' \in {HeardTurn, running}
  BY DEF Next
<1> QED BY <1>1, HeardIs DEF AnyInv, FlowTyped

LEMMA NextAny == ASSUME AnyInv, Next  PROVE AnyInv'
BY RunningIs, StartTurnAny, SendAny, SendReturnsAny, SendFailsAny, ReportSendFailedAny, SetModeAny,
   RequestInterruptAny, RequestStopAny, DeleteThreadAny, TakeIntentAny, BindSessionAny,
   StartFailedAny, ReportStartFailedAny, InterruptReturnsAny, StopReturnsAny, SetStoppedAny,
   StopDeletedAny, StopDeletedReturnsAny, GrowIdleAny, SweepAny, ReapAny, ReapReturnsAny,
   ReadEventAny, DispatchSessionAny, ServiceStepAny, FaultAny
   DEF Next

LEMMA StillAny == ASSUME AnyInv, UNCHANGED <<overlap, vars, running>>  PROVE AnyInv'
BY DEF AnyInv, SessInv, SessTyped, BindingFits, CallFits, FlowTyped, WorkerFits, vars

LEMMA InitAny == ASSUME Init  PROVE AnyInv
<1>1. SessTyped
  BY NoCallIs DEF Init, SessionsInit, SessTyped, BindingRecord
<1>2. BindingFits /\ \A p \in Process : CallFits(p)
  BY NoCallIs DEF Init, SessionsInit, BindingFits, CallFits
<1>3. thread \in ThreadRecord
  BY DEF Init, ThreadRecord
<1>4. sender \in [Turn -> SenderRecord]
  BY DEF Init, SenderRecord
<1>5. used \in [Bounded -> Nat] /\ intents \in Seq(Intent)
      /\ outcome \in [Turn -> {"none", "requested", "sent", "failed"}]
  BY DEF Init
<1>6. FlowTyped
  BY <1>3, <1>4, <1>5, IdleWorkerIs, Zenon DEF Init, FlowTyped
<1>7. WorkerFits
  BY IdleWorkerIs, Zenon DEF Init, WorkerFits
<1> QED BY <1>1, <1>2, <1>6, <1>7 DEF AnyInv, SessInv

-----------------------------------------------------------------------------
(* Events that lead from the shown turn to that of the session.            *)
LEMMA LeadOn ==
  ASSUME NEW es \in Seq(RuntimeEvent), NEW e \in RuntimeEvent, NEW s, NEW l,
         LeadTo(es, s, l), Fits(e, l)
  PROVE  /\ LeadTo(Append(es, e), s, TurnAfter(e))
         /\ \A shown : EndStopped(Append(es, e), shown) <=> e.type = "session.exited"
<1> DEFINE fs == Append(es, e)
<1>1. /\ Len(fs) = Len(es) + 1 /\ fs # <<>> /\ fs[Len(fs)] = e /\ Len(es) \in Nat
      /\ \A i \in 1..Len(es) : fs[i] = es[i]
      /\ es = <<>> <=> Len(es) = 0
  OBVIOUS
<1> HIDE DEF fs
<1>2. ASSUME NEW i \in 1..Len(fs)  PROVE Fits(fs[i], TurnBefore(fs, s, i))
  <2>1. CASE i <= Len(es)
    <3>1. Fits(es[i], TurnBefore(es, s, i)) /\ fs[i] = es[i]
      BY <1>1, <2>1 DEF LeadTo
    <3>2. i # 1 => fs[i - 1] = es[i - 1]
      BY <1>1, <2>1
    <3> QED BY <3>1, <3>2 DEF TurnBefore
  <2>2. CASE i = Len(es) + 1
    <3>1. i # 1 => fs[i - 1] = es[Len(es)] /\ es # <<>>
      BY <1>1, <2>2
    <3>2. i = 1 => es = <<>>
      BY <1>1, <2>2
    <3>3. TurnBefore(fs, s, i) = l
      BY <3>1, <3>2 DEF TurnBefore, LeadTo
    <3> QED BY <1>1, <2>2, <3>3
  <2> QED BY <1>1, <2>1, <2>2
<1>3. LeadTo(fs, s, TurnAfter(e))
  BY <1>1, <1>2 DEF LeadTo
<1>4. \A shown : EndStopped(fs, shown) <=> e.type = "session.exited"
  BY <1>1 DEF EndStopped
<1> QED BY <1>3, <1>4 DEF fs

LEMMA LeadRest ==
  ASSUME NEW es \in Seq(RuntimeEvent), es # <<>>, NEW s, NEW l, LeadTo(es, s, l)
  PROVE  /\ Fits(Head(es), s)
         /\ LeadTo(Tail(es), TurnAfter(Head(es)), l)
         /\ \A shown : EndStopped(es, shown)
                         <=> EndStopped(Tail(es), Head(es).type = "session.exited")
<1> DEFINE fs == Tail(es)
<1>0. /\ Len(es) \in Nat /\ Len(es) >= 1 /\ Head(es) = es[1]
      /\ Len(fs) = Len(es) - 1 /\ fs \in Seq(RuntimeEvent)
      /\ \A i \in 1..Len(fs) : fs[i] = es[i + 1]
  BY HeadTailProperties, EmptySeq
<1> HIDE DEF fs
<1>1. /\ Len(fs) = Len(es) - 1 /\ fs \in Seq(RuntimeEvent) /\ Len(es) \in Nat /\ Len(es) >= 1
      /\ \A i \in 1..Len(fs) : fs[i] = es[i + 1]
      /\ fs = <<>> <=> Len(es) = 1
      /\ Head(es) = es[1]
  <2>1. fs = <<>> <=> Len(fs) = 0
    BY <1>0, EmptySeq
  <2> QED BY <1>0, <2>1
<1>2. Fits(es[1], s)
  <2>1. 1 \in 1..Len(es)
    BY <1>1
  <2> QED BY <2>1 DEF LeadTo, TurnBefore
<1>3. ASSUME NEW i \in 1..Len(fs)  PROVE Fits(fs[i], TurnBefore(fs, TurnAfter(es[1]), i))
  <2>1. i + 1 \in 1..Len(es) /\ i + 1 # 1 /\ (i + 1) - 1 = i
    BY <1>1
  <2>2. Fits(es[i + 1], TurnAfter(es[i]))
    BY <2>1 DEF LeadTo, TurnBefore
  <2>3. i # 1 => fs[i - 1] = es[i]
    BY <1>1
  <2> QED BY <1>1, <2>2, <2>3 DEF TurnBefore
<1>4. fs # <<>> => fs[Len(fs)] = es[Len(es)]
  BY <1>1
<1>5. fs = <<>> => Len(es) = 1
  BY <1>1
<1>6. LeadTo(fs, TurnAfter(es[1]), l)
  BY <1>3, <1>4, <1>5 DEF LeadTo
<1>7. \A shown : EndStopped(es, shown) <=> EndStopped(fs, es[1].type = "session.exited")
  BY <1>4, <1>5 DEF EndStopped
<1> QED BY <1>1, <1>2, <1>6, <1>7 DEF fs

(* A thread that is told of no turn does not mislead what follows.         *)
LEMMA LeadFromNone ==
  ASSUME NEW es \in Seq(RuntimeEvent), NEW s, NEW l, LeadTo(es, s, l), es = <<>> => l = None
  PROVE  LeadTo(es, None, l)
<1>1. ASSUME NEW i \in 1..Len(es)  PROVE Fits(es[i], TurnBefore(es, None, i))
  <2>1. Fits(es[i], TurnBefore(es, s, i))
    BY DEF LeadTo
  <2> QED BY <2>1 DEF TurnBefore, Fits
<1> QED BY <1>1 DEF LeadTo

-----------------------------------------------------------------------------
(* Who has something to do does it alone.                                  *)
OthersRest(p) ==
  /\ p # "worker" => intents = <<>> /\ worker = IdleWorker
  /\ p # "deletion" => deletion \in {"none", "done"}
  /\ p # "reaper" => reaper = "idle"
  /\ \A t \in Turn : t # p => sender[t].pc \in {"none", "done"}

LEMMA Alone ==
  ASSUME FlowTyped, OneAtATime, NEW p \in Process, Busy(p)
  PROVE  OthersRest(p)
<1>1. \A q \in Process : q # p => ~Busy(q)
  BY DEF OneAtATime
<1> QED BY <1>1, ProcessesAre DEF Busy, OthersRest, FlowTyped

(* The same of the state that a step leads to.                             *)
LEMMA StaysAloneNext ==
  ASSUME NEW p \in Process, OthersRest(p)',
         intents' # <<>> => worker' = IdleWorker /\ Len(intents') = 1
  PROVE  OneAtATime'
<1>1. \A q \in Process : Busy(q)' => q = p
  BY ProcessesAre DEF Busy, OthersRest
<1> QED BY <1>1 DEF OneAtATime

(* Who acts alone accounts for all the calls that there are.               *)
LEMMA CallsOfOne ==
  ASSUME NEW p \in Process, OthersRest(p)', \A q \in Process : q # p => Idle(q)',
         p = "worker" => WorkerCalls', p \in Turn => SenderCalls(p)',
         p \in {"deletion", "reaper"} => StopperCalls'
  PROVE  CallsAreKnown'
<1>1. WorkerCalls'
  BY ProcessesAre, IdleWorkerIs, Zenon DEF OthersRest, WorkerCalls
<1>2. StopperCalls'
  BY ProcessesAre DEF OthersRest, StopperCalls
<1>3. ASSUME NEW t \in Turn  PROVE SenderCalls(t)'
  BY ProcessesAre DEF OthersRest, SenderCalls
<1> QED BY <1>1, <1>2, <1>3 DEF CallsAreKnown

(* Nothing waits while one is busy, but what the reactor has not yet taken. *)
LEMMA NothingWaits ==
  ASSUME FlowTyped, OneAtATime, NEW p \in Process, Busy(p), p = "worker" => worker.pc # "idle"
  PROVE  intents = <<>>
BY Alone, IdleWorkerIs, Zenon DEF OthersRest, OneAtATime

LEMMA NoneHangs ==
  ASSUME CallsAreKnown, NEW p \in Process
  PROVE  ~Hangs(p)
BY ProcessesAre DEF CallsAreKnown, WorkerCalls, StopperCalls, SenderCalls, Calls, Idle, Hangs

LEMMA RestsAll ==
  ASSUME CalmInv, AtRest
  PROVE  \A p \in Process : OthersRest(p)
<1>1. ~Hangs("worker") /\ \A t \in Turn : ~Hangs(t)
  BY NoneHangs, ProcessesAre DEF CalmInv
<1> QED BY <1>1 DEF AtRest, Handled, NothingOnItsWay, OthersRest

LEMMA WorkerBusy ==
  ASSUME FlowTyped
  PROVE  worker.pc # "idle" => Busy("worker") /\ worker # IdleWorker
BY IdleWorkerIs, Zenon DEF Busy

(* Who rests has no call.                                                  *)
LEMMA RestHasNoCall ==
  ASSUME CallsAreKnown, NEW p \in Process, OthersRest(p)
  PROVE  \A q \in Process : q # p => Idle(q)
<1> SUFFICES ASSUME NEW q \in Process, q # p  PROVE Idle(q)
  OBVIOUS
<1>1. CASE q = "worker"
  BY <1>1, IdleWorkerIs, Zenon DEF CallsAreKnown, WorkerCalls, OthersRest
<1>2. CASE q \in {"deletion", "reaper"}
  BY <1>2 DEF CallsAreKnown, StopperCalls, OthersRest
<1>3. CASE q \in Turn
  BY <1>3 DEF CallsAreKnown, SenderCalls, OthersRest
<1> QED BY <1>1, <1>2, <1>3, ProcessesAre

(* StopKept of what it depends on.                                         *)
LEMMA StopKeptStays ==
  ASSUME StopKept, UNCHANGED <<stopped, intents, worker, sender>>,
         live = None => live' = None, thread.session # None => thread'.session # None
  PROVE  StopKept'
BY DEF StopKept, StopComes, Waits

-----------------------------------------------------------------------------
(* Requests, which find all at rest.                                       *)
LEMMA RestSays ==
  ASSUME AnyInv, CalmInv, AtRest
  PROVE  /\ emitted = <<>> /\ ingest = None /\ intents = <<>> /\ worker = IdleWorker
         /\ worker.pc = "idle" /\ ~Spawning
         /\ hasSession <=> live # None
         /\ ShownTurn = LiveTurn
         /\ stopped => live = None /\ thread.session # None
         /\ \A t \in Turn : sender[t].pc \in {"none", "done"}
<1>1. emitted = <<>> /\ ingest = None /\ intents = <<>> /\ worker = IdleWorker
      /\ worker.pc = "idle" /\ ~Spawning /\ \A t \in Turn : sender[t].pc \in {"none", "done"}
  <2>1. ~Hangs("worker") /\ \A t \in Turn : ~Hangs(t)
    BY NoneHangs, ProcessesAre DEF CalmInv
  <2> QED BY <2>1, IdleWorkerIs, Zenon DEF AtRest, Handled, NothingOnItsWay, Spawning
<1>2. hasSession <=> live # None
  BY <1>1 DEF CalmInv, StatusFollows, EndStopped, ShownStopped, hasSession
<1>3. ShownTurn = LiveTurn
  BY <1>1 DEF CalmInv, TurnsFollow, LeadTo
<1>4. stopped => live = None /\ thread.session # None
  BY <1>1 DEF CalmInv, StopKept, StopComes, Waits
<1> QED BY <1>1, <1>2, <1>3, <1>4

LEMMA RequestCalm ==
  ASSUME AnyInv, CalmInv, AtRest, NEW x \in Intent, intents' = Append(intents, x),
         UNCHANGED <<sessionVars, worker, sender, deletion, reaper, ingest>>,
         thread'.session = thread.session,
         stopped' => x.type = "stop" \/ (stopped /\ x.type # "turn")
  PROVE  CalmInv'
<1>1. intents' = <<x>> /\ Len(intents') = 1 /\ intents' # <<>> /\ intents'[1] = x
  <2>1. intents = <<>>
    BY RestSays
  <2> QED BY <2>1
<1>2. OneAtATime'
  <2>1. OthersRest("worker")
    BY RestsAll, ProcessesAre
  <2>2. OthersRest("worker")'
    BY <2>1 DEF OthersRest
  <2>3. worker' = IdleWorker
    BY RestSays
  <2>4. "worker" \in Process
    BY ProcessesAre
  <2> QED BY <1>1, <2>2, <2>3, <2>4, StaysAloneNext
<1>3. UNCHANGED <<live, orphans, binding, call, emitted, worker, sender, deletion, reaper, ingest>>
  BY DEF sessionVars
<1>4. CallsAreKnown' /\ LiveFits'
  BY <1>3 DEF CalmInv, CallsAreKnown, WorkerCalls, StopperCalls, SenderCalls, Calls, Idle, LiveFits,
              Spawning, Done
<1>5. TurnsFollow' /\ StatusFollows'
  BY <1>3 DEF CalmInv, TurnsFollow, StatusFollows, ShownTurn, ShownStopped, LiveTurn, Spawning, Done
<1>6. Undone'
  BY <1>3, RestSays DEF Undone, hasSession
<1>7. StopKept'
  BY <1>1, <1>3, RestSays DEF StopKept, StopComes, Waits
<1> QED BY <1>2, <1>4, <1>5, <1>6, <1>7 DEF CalmInv

LEMMA DeleteCalm ==
  ASSUME AnyInv, CalmInv, AtRest, DeleteThread
  PROVE  CalmInv'
<1>1. OneAtATime'
  <2>1. OthersRest("deletion")
    BY RestsAll, ProcessesAre
  <2>2. OthersRest("deletion")' /\ intents' = <<>>
    BY <2>1, RestSays DEF OthersRest, DeleteThread
  <2> QED BY <2>2, StaysAloneNext, ProcessesAre
<1>2. UNCHANGED <<live, orphans, binding, call, emitted, intents, worker, sender, reaper, ingest, stopped>>
      /\ thread'.session = thread.session /\ deletion' = "queued" /\ intents' = <<>>
      /\ Idle("deletion") /\ deletion # "stopping"
  <2>1. deletion # "stopping"
    BY DEF AtRest, Handled
  <2>2. thread'.session = thread.session
    BY DEF DeleteThread, AnyInv, FlowTyped, ThreadRecord
  <2> QED BY <2>1, <2>2, RestSays DEF DeleteThread, sessionVars, CalmInv, CallsAreKnown, StopperCalls
<1>3. CallsAreKnown' /\ LiveFits'
  BY <1>2 DEF CalmInv, CallsAreKnown, WorkerCalls, StopperCalls, SenderCalls, Calls, Idle, LiveFits,
              Spawning, Done
<1>4. TurnsFollow' /\ StatusFollows'
  BY <1>2 DEF CalmInv, TurnsFollow, StatusFollows, ShownTurn, ShownStopped, LiveTurn, Spawning, Done
<1>5. ~Waits'
  BY <1>2 DEF Waits
<1>6. StopKept'
  BY <1>2, StopKeptStays DEF CalmInv
<1> QED BY <1>1, <1>3, <1>4, <1>5, <1>6 DEF CalmInv

LEMMA RequestsCalm ==
  ASSUME AnyInv, CalmInv, overlap = "none"
  PROVE  /\ \A t \in Turn : StartTurn(t) => CalmInv'
         /\ \A m \in Mode : SetMode(m) => CalmInv'
         /\ RequestInterrupt \/ RequestStop \/ DeleteThread => CalmInv'
<1>1. ASSUME NEW t \in Turn, StartTurn(t)  PROVE CalmInv'
  BY <1>1, RequestCalm, IntentMade DEF StartTurn, Undisturbed
<1>2. ASSUME NEW m \in Mode, SetMode(m)  PROVE CalmInv'
  <2>1. thread'.session = thread.session
    BY <1>2 DEF SetMode, AnyInv, FlowTyped, ThreadRecord
  <2> QED BY <1>2, <2>1, RequestCalm, IntentMade DEF SetMode, Undisturbed
<1>3. CASE RequestInterrupt
  BY <1>3, RequestCalm, IntentMade DEF RequestInterrupt, Undisturbed
<1>4. CASE RequestStop
  BY <1>4, RequestCalm, IntentMade DEF RequestStop, Undisturbed
<1>5. CASE DeleteThread
  BY <1>5, DeleteCalm DEF DeleteThread, Undisturbed
<1> QED BY <1>1, <1>2, <1>3, <1>4, <1>5

LEMMA GrowIdleCalm == ASSUME AnyInv, CalmInv, GrowIdle  PROVE CalmInv'
<1>1. UNCHANGED <<live, orphans, call, emitted, thread, intents, worker, sender, deletion, reaper,
                  ingest, stopped>>
  BY DEF GrowIdle, engineVars
<1>2. binding'.status = binding.status
  BY DEF GrowIdle, AnyInv, SessInv, SessTyped, BindingRecord
<1>3. OneAtATime'
  BY <1>1 DEF CalmInv, OneAtATime, Busy
<1>4. CallsAreKnown' /\ LiveFits'
  BY <1>1, <1>2 DEF CalmInv, CallsAreKnown, WorkerCalls, StopperCalls, SenderCalls, Calls, Idle,
              LiveFits, Spawning, Done
<1>5. TurnsFollow' /\ StatusFollows' /\ (Waits => Undone)'
  BY <1>1 DEF CalmInv, TurnsFollow, StatusFollows, ShownTurn, ShownStopped, LiveTurn, Spawning, Done,
              Waits, Undone, hasSession
<1>6. StopKept'
  BY <1>1, StopKeptStays DEF CalmInv
<1> QED BY <1>3, <1>4, <1>5, <1>6 DEF CalmInv

LEMMA SweepCalm == ASSUME AnyInv, CalmInv, overlap = "none", Sweep  PROVE CalmInv'
<1>0. AtRest
  BY DEF Sweep
<1>1. UNCHANGED <<live, orphans, binding, call, emitted, thread, intents, worker, sender, deletion,
                  ingest, stopped>> /\ reaper' = "due" /\ reaper = "idle"
  BY DEF Sweep, engineVars, sessionVars
<1>2. intents' = <<>>
  BY <1>0, <1>1, RestSays
<1>3. OneAtATime'
  <2>1. OthersRest("reaper")
    BY <1>0, RestsAll, ProcessesAre
  <2>2. OthersRest("reaper")'
    BY <1>1, <2>1 DEF OthersRest
  <2> QED BY <1>2, <2>2, StaysAloneNext, ProcessesAre
<1>4. live # None => live.turn = None
  BY <1>0, RestSays DEF Sweep, ShownTurn, LiveTurn
<1>5. CallsAreKnown'
  BY <1>1 DEF CalmInv, CallsAreKnown, WorkerCalls, StopperCalls, SenderCalls, Calls, Idle
<1>6. LiveFits'
  BY <1>1, <1>4 DEF CalmInv, LiveFits, Spawning, Done
<1>7. TurnsFollow' /\ StatusFollows' /\ ~Waits'
  BY <1>1, <1>2 DEF CalmInv, TurnsFollow, StatusFollows, ShownTurn, ShownStopped, LiveTurn, Spawning,
              Done, Waits
<1>8. StopKept'
  BY <1>1, StopKeptStays DEF CalmInv
<1> QED BY <1>3, <1>5, <1>6, <1>7, <1>8 DEF CalmInv

-----------------------------------------------------------------------------
(* The ingestion and the provider, which go on whatever is under way.      *)
LEMMA SameRest ==
  ASSUME CalmInv, UNCHANGED <<call, intents, worker, sender, deletion, reaper>>
  PROVE  OneAtATime' /\ CallsAreKnown' /\ (Spawning' <=> Spawning)
<1>1. OneAtATime'
  BY DEF CalmInv, OneAtATime, Busy
<1>2. CallsAreKnown'
  BY DEF CalmInv, CallsAreKnown, WorkerCalls, StopperCalls, SenderCalls, Calls, Idle
<1>3. Spawning' <=> Spawning
  BY DEF Spawning, Done
<1> QED BY <1>1, <1>2, <1>3

LEMMA ReadEventCalm == ASSUME AnyInv, CalmInv, ReadEvent  PROVE CalmInv'
<1>1. UNCHANGED <<live, orphans, binding, call, thread, intents, worker, sender, deletion, reaper,
                  stopped>> /\ ingest = None /\ emitted # <<>> /\ emitted' = Tail(emitted)
  BY DEF ReadEvent, engineVars
<1>2. PICK e \in RuntimeEvent, t \in Turn \cup {None}, m \in Mode :
        /\ e = Head(emitted) /\ t = IF thread.session = None THEN None ELSE thread.session.turn
        /\ ingest' = IF Applies(e, t) THEN NextSession(e, t, m) ELSE None
  BY ReadEventDoes
<1>3. t = ShownTurn
  BY <1>1, <1>2 DEF ShownTurn
<1>4. emitted \in Seq(RuntimeEvent)
  BY DEF AnyInv, SessInv, SessTyped
<1>5. /\ Fits(e, t) /\ LeadTo(emitted', TurnAfter(e), LiveTurn)
      /\ \A shown : EndStopped(emitted, shown) <=> EndStopped(emitted', e.type = "session.exited")
  BY <1>1, <1>2, <1>3, <1>4, LeadRest DEF CalmInv, TurnsFollow
<1>6. Applies(e, t) /\ (e.type = "session.started" => t = None)
  BY <1>5, EventIs DEF Fits, Applies
<1>7. /\ ingest' = NextSession(e, t, m) /\ ingest' # None /\ ingest'.turn = TurnAfter(e)
      /\ ingest'.status = "stopped" <=> e.type = "session.exited"
      /\ e.type = "turn.completed" => ingest'.status = "ready"
  <2>1. ingest' = NextSession(e, t, m) /\ NextSession(e, t, m) \in ThreadSession
    BY <1>2, <1>6, NextIs
  <2>2. ingest' # None
    BY <2>1, ThreadSessionIs
  <2>3. NextSession(e, t, m).turn = TurnAfter(e)
    BY <1>6, NextIs DEF TurnAfter
  <2>4. /\ NextSession(e, t, m).status = "stopped" <=> e.type = "session.exited"
        /\ e.type = "turn.completed" => NextSession(e, t, m).status = "ready"
    BY NextIs
  <2> QED BY <2>1, <2>2, <2>3, <2>4
<1>8. OneAtATime' /\ CallsAreKnown' /\ (Spawning' <=> Spawning)
  BY <1>1, SameRest
<1>9. LiveFits'
  BY <1>1, <1>8 DEF CalmInv, LiveFits, Done
<1>10. TurnsFollow'
  BY <1>1, <1>5, <1>7 DEF TurnsFollow, ShownTurn, LiveTurn
<1>11. StatusFollows'
  BY <1>1, <1>5, <1>7, <1>8 DEF CalmInv, StatusFollows, ShownStopped
<1>12. ASSUME Waits'  PROVE Undone'
  <2>1. Undone
    BY <1>1, <1>12 DEF CalmInv, Waits
  <2>2. /\ Len(emitted) \in Nat /\ Len(emitted) >= 1 /\ e = emitted[1]
        /\ Len(emitted') = Len(emitted) - 1
        /\ \A i \in 1..Len(emitted') : emitted'[i] = emitted[i + 1]
    BY <1>1, <1>2, <1>4, HeadTailProperties, EmptySeq
  <2>3. e.type = "turn.completed"
    BY <2>1, <2>2 DEF Undone
  <2>4. \A i \in 1..Len(emitted') : emitted'[i].type = "turn.completed"
    BY <2>1, <2>2 DEF Undone
  <2> QED BY <1>1, <1>7, <2>1, <2>3, <2>4 DEF Undone, hasSession
<1>13. StopKept'
  BY <1>1, StopKeptStays DEF CalmInv
<1> QED BY <1>8, <1>9, <1>10, <1>11, <1>12, <1>13 DEF CalmInv

LEMMA DispatchSessionCalm == ASSUME AnyInv, CalmInv, DispatchSession  PROVE CalmInv'
<1>1. UNCHANGED <<live, orphans, binding, call, emitted, intents, worker, sender, deletion, reaper,
                  stopped>> /\ ingest # None /\ ingest' = None /\ ingest \in ThreadSession
  BY DEF DispatchSession, engineVars, sessionVars, AnyInv, FlowTyped
<1>2. thread'.session = ingest
  BY <1>1, ThreadSet DEF DispatchSession, AnyInv
<1>3. OneAtATime' /\ CallsAreKnown' /\ (Spawning' <=> Spawning)
  BY <1>1, SameRest
<1>4. LiveFits'
  BY <1>1, <1>3 DEF CalmInv, LiveFits, Done
<1>5. ShownTurn' = ShownTurn /\ ShownStopped' = ShownStopped
  BY <1>1, <1>2 DEF ShownTurn, ShownStopped
<1>6. TurnsFollow'
  BY <1>1, <1>5 DEF CalmInv, TurnsFollow, LiveTurn
<1>7. StatusFollows'
  BY <1>1, <1>3, <1>5 DEF CalmInv, StatusFollows
<1>8. ASSUME Waits'  PROVE Undone'
  <2>1. Undone /\ Waits
    BY <1>1, <1>8 DEF CalmInv, Waits
  <2>2. ~Spawning
    BY <2>1, IdleWorkerIs, Zenon DEF CalmInv, OneAtATime, Waits, Spawning
  <2>3. ingest.status = "ready"
    BY <1>1, <2>1 DEF Undone
  <2>4. ~EndStopped(emitted, ShownStopped)
    <3>1. CASE emitted = <<>>
      BY <1>1, <2>3, <3>1 DEF EndStopped, ShownStopped
    <3>2. CASE emitted # <<>>
      <4>1. Len(emitted) \in 1..Len(emitted)
        BY <3>2, EmptySeq DEF AnyInv, SessInv, SessTyped
      <4> QED BY <2>1, <3>2, <4>1 DEF EndStopped, Undone
    <3> QED BY <3>1, <3>2
  <2>5. live # None
    BY <2>2, <2>4 DEF CalmInv, StatusFollows
  <2> QED BY <1>1, <1>2, <2>1, <2>3, <2>5 DEF Undone, hasSession
<1>9. StopKept'
  BY <1>1, <1>2, StopKeptStays DEF CalmInv
<1> QED BY <1>3, <1>4, <1>6, <1>7, <1>8, <1>9 DEF CalmInv

LEMMA TurnCompletesCalm ==
  ASSUME AnyInv, CalmInv, TurnCompletes,
         UNCHANGED <<thread, intents, worker, sender, engineVars, deletion, reaper, ingest>>
  PROVE  CalmInv'
<1>1. UNCHANGED <<orphans, binding, call, thread, intents, worker, sender, deletion, reaper, ingest,
                  stopped>> /\ live \in Session /\ live # None /\ live.turn \in Turn
      /\ emitted \in Seq(RuntimeEvent)
  BY SessionIs DEF TurnCompletes, engineVars, AnyInv, SessInv, SessTyped
<1>2. live' # None /\ live'.turn = None /\ live'.alive = live.alive /\ live'.by = live.by
  BY <1>1, SessionTurn DEF TurnCompletes
<1>3. PICK e \in RuntimeEvent : /\ e = [type |-> "turn.completed", turn |-> live.turn]
                                /\ emitted' = Append(emitted, e)
  <2>1. live.by \notin Turn /\ live.turn # None
    BY <1>1 DEF CalmInv, LiveFits, TurnCompletes
  <2>2. emitted' = Append(emitted, [type |-> "turn.completed", turn |-> live.turn])
    BY <1>1, <2>1, EndEmitted DEF TurnCompletes
  <2> QED BY <1>1, <2>2, EventMade
<1>4. e.type = "turn.completed" /\ Fits(e, live.turn) /\ TurnAfter(e) = None
  BY <1>3 DEF Fits, TurnAfter
<1>5. /\ LeadTo(emitted', ShownTurn, None)
      /\ \A shown : ~EndStopped(emitted', shown)
  <2>1. LeadTo(emitted, ShownTurn, live.turn)
    BY <1>1 DEF CalmInv, TurnsFollow, LiveTurn
  <2> QED BY <1>1, <1>3, <1>4, <2>1, LeadOn
<1>6. OneAtATime' /\ CallsAreKnown' /\ (Spawning' <=> Spawning)
  BY <1>1, SameRest
<1>7. LiveFits'
  BY <1>1, <1>2, <1>6 DEF CalmInv, LiveFits, Done
<1>8. TurnsFollow' /\ StatusFollows'
  BY <1>1, <1>2, <1>5 DEF TurnsFollow, StatusFollows, ShownTurn, LiveTurn
<1>9. ASSUME Waits'  PROVE Undone'
  <2>1. Undone
    BY <1>1, <1>9 DEF CalmInv, Waits
  <2>2. \A i \in 1..Len(emitted') : emitted'[i].type = "turn.completed"
    BY <1>1, <1>3, <1>4, <2>1 DEF Undone
  <2> QED BY <1>1, <1>2, <2>1, <2>2 DEF Undone, hasSession
<1>10. StopKept'
  BY <1>1, StopKeptStays DEF CalmInv
<1> QED BY <1>6, <1>7, <1>8, <1>9, <1>10 DEF CalmInv

-----------------------------------------------------------------------------
(* A session is started while nobody asks: the one that there was goes.    *)
LEMMA SpawnAlone ==
  ASSUME AnyInv, CalmInv, OthersRest("worker"), NEW m \in Mode, StartSession("worker", m)
  PROVE  /\ live' = None /\ UNCHANGED <<orphans, binding>>
         /\ call'["worker"].op = "start" /\ call'["worker"].pc = "spawning"
         /\ \A q \in Process : q # "worker" => Idle(q)'
         /\ LeadTo(emitted', ShownTurn, None)
<1> DEFINE c == [call EXCEPT !["worker"] =
                   [op |-> "start", pc |-> "spawning", mode |-> m, turn |-> None]]
<1>1. /\ call \in [Process -> CallRecord] /\ emitted \in Seq(RuntimeEvent)
      /\ live \in Session \cup {None} /\ "worker" \in Process
  BY ProcessesAre DEF AnyInv, SessInv, SessTyped
<1>2. /\ c \in [Process -> CallRecord] /\ c["worker"].op = "start" /\ c["worker"].pc = "spawning"
      /\ \A q \in Process : q # "worker" => c[q].pc = "idle"
  <2>1. \A q \in Process : q # "worker" => call[q].pc = "idle"
    BY <1>1, RestHasNoCall DEF CalmInv, Idle
  <2>2. [op |-> "start", pc |-> "spawning", mode |-> m, turn |-> None] \in CallRecord
    BY CallMade
  <2> QED BY <1>1, <2>1, <2>2
<1>3. UNCHANGED <<orphans, binding>>
  BY DEF StartSession
<1>4. LeadTo(emitted, ShownTurn, LiveTurn)
  BY DEF CalmInv, TurnsFollow
<1>5. CASE live = None
  <2>1. call' = c /\ UNCHANGED <<live, emitted>>
    BY <1>5 DEF StartSession, Spawn
  <2>2. LiveTurn = None
    BY <1>5 DEF LiveTurn
  <2> HIDE DEF c
  <2>3. LeadTo(emitted', ShownTurn, None)
    BY <1>4, <2>1, <2>2
  <2> QED BY <1>2, <1>3, <1>5, <2>1, <2>3 DEF Idle
<1>6. CASE live # None
  <2>1. live' = None /\ \E hung : call' = Abandoned(c, hung)
    BY <1>6 DEF StartSession, Spawn
  <2>2. live.turn \in Turn \cup {None} /\ LiveTurn = live.turn
    BY <1>1, <1>6, SessionIs DEF LiveTurn
  <2>3. LeadTo(emitted', ShownTurn, None)
    <3>1. CASE emitted' = Append(emitted, [type |-> "session.exited"])
      BY <1>1, <1>4, <3>1, LeadOn, EventMade DEF Fits, TurnAfter
    <3>2. CASE live.turn = None /\ emitted' = emitted
      BY <1>4, <2>2, <3>2
    <3>3. CASE live.turn # None /\ emitted' = Append(emitted, [type |-> "turn.completed", turn |-> live.turn])
      <4>1. live.turn \in Turn
        BY <2>2, <3>3
      <4> QED BY <1>1, <1>4, <2>2, <3>3, <4>1, LeadOn, EventMade DEF Fits, TurnAfter
    <3>4. live \in Session /\ live.by \notin Turn
      BY <1>1, <1>6 DEF CalmInv, LiveFits
    <3>5. Emit(<<[type |-> "session.exited"]>>) \/ Emit(EndOfTurn)
      BY <1>6 DEF StartSession, Spawn
    <3>6. \/ emitted' = Append(emitted, [type |-> "session.exited"])
          \/ live.turn = None /\ emitted' = emitted
          \/ live.turn # None /\ emitted' = Append(emitted, [type |-> "turn.completed", turn |-> live.turn])
      BY <1>1, <3>4, <3>5, EventMade, OneEmitted, EndEmitted
    <3> QED BY <3>1, <3>2, <3>3, <3>6
  <2> HIDE DEF c
  <2>4. \A q \in Process : call'[q] = c[q]
    <3>1. \A q \in Process : c[q].pc # "asking"
      BY <1>2, Zenon
    <3> QED BY <1>2, <2>1, <3>1, AbandonedCalls
  <2> QED BY <1>1, <1>2, <1>3, <2>1, <2>3, <2>4 DEF Idle
<1> QED BY <1>5, <1>6

(* A session is stopped while nobody asks.                                 *)
LEMMA StopAlone ==
  ASSUME AnyInv, CalmInv, NEW p \in Process, OthersRest(p), ~Spawning, StopSession(p)
  PROVE  /\ live' = None /\ UNCHANGED orphans
         /\ Calls(p, "stop", {"closing", "done", "failed"})'
         /\ live # None => call'[p].pc = "closing"
         /\ \A q \in Process : q # p => Idle(q)'
         /\ LeadTo(emitted', ShownTurn, None)
         /\ EndStopped(emitted', ShownStopped)
<1>1. /\ call \in [Process -> CallRecord] /\ emitted \in Seq(RuntimeEvent)
      /\ live \in Session \cup {None}
  BY DEF AnyInv, SessInv, SessTyped
<1>2. \A q \in Process : call[q].pc = "idle"
  <2>1. call[p].pc = "idle"
    BY DEF StopSession, Idle
  <2> QED BY <2>1, RestHasNoCall DEF CalmInv, Idle
<1>3. LeadTo(emitted, ShownTurn, LiveTurn)
  BY DEF CalmInv, TurnsFollow
<1>4. live = None => EndStopped(emitted, ShownStopped) /\ LiveTurn = None
  BY DEF CalmInv, StatusFollows, LiveTurn
<1>5. ASSUME live = None, UNCHANGED <<live, emitted, orphans>>, NEW k \in {"done", "failed"},
             call' = [call EXCEPT ![p] = [NoCall EXCEPT !.op = "stop", !.pc = k]]
      PROVE  /\ live' = None /\ UNCHANGED orphans
             /\ Calls(p, "stop", {"closing", "done", "failed"})'
             /\ live # None => call'[p].pc = "closing"
             /\ \A q \in Process : q # p => Idle(q)'
             /\ LeadTo(emitted', ShownTurn, None)
             /\ EndStopped(emitted', ShownStopped)
  <2>1. call'[p].pc = k /\ call'[p].op = "stop" /\ \A q \in Process : q # p => call'[q] = call[q]
    BY <1>1, <1>5, StopCall
  <2> QED BY <1>2, <1>3, <1>4, <1>5, <2>1 DEF Calls, Idle
<1>6. CASE live = None
  <2>1. binding.status = "none" \/ binding.status # "none"
    OBVIOUS
  <2> QED BY <1>5, <1>6, <2>1 DEF StopSession
<1>7. CASE live # None
  <2>1. binding.status # "none"
    BY <1>7 DEF AnyInv, SessInv, BindingFits
  <2>2. /\ live' = None /\ UNCHANGED orphans
        /\ emitted' = Append(emitted, [type |-> "session.exited"])
    <3>1. live.by \notin Turn /\ Emit(<<[type |-> "session.exited"]>>)
      BY <1>7, <2>1 DEF CalmInv, LiveFits, StopSession
    <3> QED BY <1>1, <1>7, <2>1, <3>1, EventMade, OneEmitted DEF StopSession
  <2>0. PICK hung :
          call' = [Abandoned(call, hung) EXCEPT ![p] = [NoCall EXCEPT !.op = "stop", !.pc = "closing"]]
    BY <1>7, <2>1 DEF StopSession
  <2>3. /\ call'[p].pc = "closing" /\ call'[p].op = "stop"
        /\ \A q \in Process : q # p => call'[q] = Abandoned(call, hung)[q]
    BY <1>1, <2>0, StopCall, AbandonedCalls
  <2>4. \A q \in Process : q # p => call'[q] = call[q]
    BY <1>1, <1>2, <2>3, AbandonedCalls
  <2>5. LeadTo(emitted', ShownTurn, None) /\ EndStopped(emitted', ShownStopped)
    BY <1>1, <1>3, <2>2, LeadOn, EventMade DEF Fits, TurnAfter
  <2> QED BY <1>2, <2>2, <2>3, <2>4, <2>5 DEF Calls, Idle
<1> QED BY <1>6, <1>7

-----------------------------------------------------------------------------
(* The command reactor takes what it was asked for.                        *)
LEMMA TakesOne ==
  ASSUME AnyInv, CalmInv, TakeIntent
  PROVE  /\ worker = IdleWorker /\ worker.pc = "idle" /\ ~Spawning /\ Undone
         /\ intents' = <<>> /\ Head(intents) \in Intent /\ intents[1] = Head(intents) /\ Waits
         /\ OthersRest("worker") /\ \A q \in Process : Idle(q)
         /\ \A t \in Turn : sender[t].pc \in {"none", "done"}
         /\ UNCHANGED <<thread, stopped, used, deletion, reaper, ingest>>
         /\ reaper = "idle" /\ deletion # "stopping" /\ thread.mode \in Mode
<1>1. worker = IdleWorker /\ intents # <<>> /\ intents' = Tail(intents) /\ Waits
      /\ intents \in Seq(Intent) /\ "worker" \in Process
  BY ProcessesAre DEF TakeIntent, AnyInv, FlowTyped, Waits
<1>2. Len(intents) = 1 /\ intents' = <<>> /\ Head(intents) \in Intent /\ intents[1] = Head(intents)
  BY <1>1 DEF CalmInv, OneAtATime
<1>3. OthersRest("worker")
  BY <1>1, Alone DEF Busy, AnyInv, CalmInv
<1>4. \A q \in Process : Idle(q)
  BY <1>1, <1>3, RestHasNoCall, IdleWorkerIs, Zenon DEF CalmInv, CallsAreKnown, WorkerCalls
<1>5. worker.pc = "idle" /\ ~Spawning
  BY <1>1, IdleWorkerIs, Zenon DEF Spawning
<1>6. UNCHANGED <<thread, stopped, used, deletion, reaper, ingest>>
  BY DEF TakeIntent, engineVars
<1>7. \A t \in Turn : sender[t].pc \in {"none", "done"}
  BY <1>3, ProcessesAre DEF OthersRest
<1>8. reaper = "idle" /\ deletion # "stopping"
  BY <1>3 DEF OthersRest
<1>9. thread.mode \in Mode
  BY ThreadIs DEF AnyInv
<1> QED BY <1>1, <1>2, <1>3, <1>4, <1>5, <1>6, <1>7, <1>8, <1>9 DEF CalmInv

LEMMA TakesNothing ==
  ASSUME AnyInv, CalmInv, TakeIntent, UNCHANGED <<sessionVars, worker, sender>>,
         Head(intents).type \in {"mode", "interrupt"}
  PROVE  CalmInv'
<1>1. UNCHANGED <<live, orphans, binding, call, emitted, worker, sender, thread, stopped, deletion,
                  reaper, ingest>> /\ intents' = <<>>
  BY TakesOne DEF sessionVars
<1>2. OthersRest("worker")'
  BY <1>1, TakesOne DEF OthersRest
<1>3. OneAtATime'
  BY <1>1, <1>2, StaysAloneNext, ProcessesAre
<1>4. CallsAreKnown'
  BY <1>1 DEF CalmInv, CallsAreKnown, WorkerCalls, StopperCalls, SenderCalls, Calls, Idle
<1>5. LiveFits' /\ TurnsFollow' /\ StatusFollows'
  BY <1>1 DEF CalmInv, LiveFits, TurnsFollow, StatusFollows, ShownTurn, ShownStopped, LiveTurn,
              Spawning, Done
<1>6. ~Waits'
  BY <1>1 DEF Waits
<1>7. StopKept'
  <2>1. ~StopComes
    BY TakesOne DEF StopComes
  <2>2. stopped => live = None /\ thread.session # None
    BY <2>1 DEF CalmInv, StopKept
  <2> QED BY <1>1, <1>6, <2>2, TakesOne DEF StopKept
<1> QED BY <1>3, <1>4, <1>5, <1>6, <1>7 DEF CalmInv

LEMMA TakesStart ==
  ASSUME AnyInv, CalmInv, TakeIntent, StartSession("worker", thread.mode), UNCHANGED sender,
         worker' # IdleWorker, worker'.pc = "starting",
         Head(intents).type = "turn" \/ (Head(intents).type = "mode" /\ hasSession)
  PROVE  CalmInv'
<1>1. /\ UNCHANGED <<orphans, binding, thread, sender, stopped, deletion, reaper, ingest>>
      /\ intents' = <<>> /\ live' = None /\ LeadTo(emitted', ShownTurn, None)
      /\ call'["worker"].op = "start" /\ call'["worker"].pc = "spawning"
      /\ \A q \in Process : q # "worker" => Idle(q)'
      /\ "worker" \in Process
  BY TakesOne, SpawnAlone, ProcessesAre
<1>2. OthersRest("worker")'
  BY <1>1, TakesOne DEF OthersRest
<1>3. OneAtATime'
  BY <1>1, <1>2, StaysAloneNext
<1>4. CallsAreKnown'
  <2>1. WorkerCalls'
    BY <1>1 DEF WorkerCalls, Calls
  <2> QED BY <1>1, <1>2, <2>1, CallsOfOne, ProcessesAre
<1>5. Spawning'
  BY <1>1 DEF Spawning, Done
<1>6. LiveFits'
  BY <1>1, <1>5, TakesOne DEF CalmInv, LiveFits, Spawning
<1>7. TurnsFollow'
  BY <1>1 DEF TurnsFollow, ShownTurn, LiveTurn
<1>8. StatusFollows' /\ ~Waits'
  BY <1>1, <1>5 DEF StatusFollows, Waits
<1>9. ~stopped
  <2>1. CASE Head(intents).type = "turn"
    BY <2>1, TakesOne DEF CalmInv, StopKept
  <2>2. CASE Head(intents).type = "mode" /\ hasSession
    <3>1. ~StopComes /\ live # None
      BY <2>2, TakesOne DEF StopComes, Undone
    <3> QED BY <3>1 DEF CalmInv, StopKept
  <2> QED BY <2>1, <2>2
<1>10. StopKept'
  BY <1>1, <1>9 DEF StopKept
<1> QED BY <1>3, <1>4, <1>6, <1>7, <1>8, <1>10 DEF CalmInv

LEMMA TakesFork ==
  ASSUME AnyInv, CalmInv, TakeIntent, NEW t \in Turn, Fork(t), UNCHANGED <<sessionVars, worker>>,
         Head(intents).type = "turn", keepsSession
  PROVE  CalmInv'
<1>1. UNCHANGED <<live, orphans, binding, call, emitted, worker, thread, stopped, deletion,
                  reaper, ingest>> /\ intents' = <<>> /\ live # None
  BY TakesOne DEF sessionVars, keepsSession
<1>2. sender'[t].pc = "forked" /\ \A u \in Turn : u # t => sender'[u] = sender[u]
  <2>1. FlowTyped /\ sender' = [sender EXCEPT ![t] = [pc |-> "forked", session |-> None]]
    BY DEF AnyInv, Fork
  <2> QED BY <2>1 DEF FlowTyped
<1>3. t \in Process /\ t # "worker" /\ t # "deletion" /\ t # "reaper"
  BY ProcessesAre
<1>4. OthersRest(t)'
  BY <1>1, <1>2, <1>3, TakesOne DEF OthersRest
<1>5. OneAtATime'
  BY <1>1, <1>3, <1>4, StaysAloneNext
<1>6. CallsAreKnown'
  <2>1. \A q \in Process : Idle(q)'
    BY <1>1, TakesOne DEF Idle
  <2>2. SenderCalls(t)'
    BY <1>2, <1>3, <2>1 DEF SenderCalls
  <2> QED BY <1>3, <1>4, <2>1, <2>2, CallsOfOne
<1>7. LiveFits' /\ TurnsFollow' /\ StatusFollows'
  BY <1>1, TakesOne DEF CalmInv, LiveFits, TurnsFollow, StatusFollows, ShownTurn, ShownStopped,
                        LiveTurn, Spawning, Done
<1>8. ~Waits' /\ ~stopped
  BY <1>1, TakesOne DEF Waits, CalmInv, StopKept
<1>9. StopKept'
  BY <1>1, <1>8 DEF StopKept
<1> QED BY <1>5, <1>6, <1>7, <1>8, <1>9 DEF CalmInv

LEMMA TakesAsk ==
  ASSUME AnyInv, CalmInv, TakeIntent, Route("worker", "interrupt", None), UNCHANGED sender,
         worker' # IdleWorker, worker'.pc = "asking", Head(intents).type = "interrupt", hasSession
  PROVE  CalmInv'
<1>1. live # None /\ live.alive /\ "worker" \in Process
  BY TakesOne, ProcessesAre DEF Undone, CalmInv, LiveFits
<1>2. /\ UNCHANGED <<live, emitted, orphans, binding>>
      /\ call' = [call EXCEPT !["worker"] =
                    [op |-> "interrupt", mode |-> None, turn |-> None, pc |-> "asking"]]
  BY <1>1, Zenon DEF Route
<1>3. /\ call'["worker"].op = "interrupt" /\ call'["worker"].pc = "asking"
      /\ \A q \in Process : q # "worker" => Idle(q)'
  BY <1>1, <1>2, TakesOne DEF AnyInv, SessInv, SessTyped, Idle
<1>4. UNCHANGED <<thread, sender, stopped, deletion, reaper, ingest>> /\ intents' = <<>>
  BY TakesOne
<1>5. OthersRest("worker")'
  BY <1>4, TakesOne DEF OthersRest
<1>6. OneAtATime'
  BY <1>1, <1>4, <1>5, StaysAloneNext
<1>7. CallsAreKnown'
  <2>1. WorkerCalls'
    BY <1>3 DEF WorkerCalls, Calls
  <2> QED BY <1>1, <1>3, <1>5, <2>1, CallsOfOne, ProcessesAre
<1>8. ~Spawning'
  BY DEF Spawning
<1>9. LiveFits'
  BY <1>1, <1>2, <1>4, <1>8, TakesOne DEF CalmInv, LiveFits
<1>10. TurnsFollow' /\ StatusFollows'
  BY <1>2, <1>4, <1>8, TakesOne DEF CalmInv, TurnsFollow, StatusFollows, ShownTurn, ShownStopped,
                                    LiveTurn
<1>11. ~Waits' /\ ~stopped
  <2>1. ~StopComes
    BY TakesOne DEF StopComes
  <2> QED BY <1>1, <1>4, <2>1 DEF Waits, CalmInv, StopKept
<1>12. StopKept'
  BY <1>4, <1>11 DEF StopKept
<1> QED BY <1>6, <1>7, <1>9, <1>10, <1>11, <1>12 DEF CalmInv

LEMMA TakesStop ==
  ASSUME AnyInv, CalmInv, TakeIntent, StopSession("worker"), UNCHANGED sender,
         worker' # IdleWorker, worker'.pc = "stopping", hasSession
  PROVE  CalmInv'
<1>1. live # None /\ "worker" \in Process
  BY TakesOne, ProcessesAre DEF Undone
<1>2. /\ UNCHANGED <<orphans, thread, sender, stopped, deletion, reaper, ingest>>
      /\ intents' = <<>> /\ live' = None /\ LeadTo(emitted', ShownTurn, None)
      /\ EndStopped(emitted', ShownStopped)
      /\ call'["worker"].op = "stop" /\ call'["worker"].pc = "closing"
      /\ \A q \in Process : q # "worker" => Idle(q)'
  BY <1>1, TakesOne, StopAlone DEF Calls
<1>3. OthersRest("worker")'
  BY <1>2, TakesOne DEF OthersRest
<1>4. OneAtATime'
  BY <1>1, <1>2, <1>3, StaysAloneNext
<1>5. CallsAreKnown'
  <2>1. WorkerCalls'
    BY <1>2 DEF WorkerCalls, Calls
  <2> QED BY <1>1, <1>2, <1>3, <2>1, CallsOfOne, ProcessesAre
<1>6. LiveFits'
  BY <1>2, TakesOne DEF CalmInv, LiveFits, Spawning
<1>7. TurnsFollow' /\ StatusFollows'
  BY <1>2 DEF TurnsFollow, StatusFollows, ShownTurn, ShownStopped, LiveTurn
<1>8. ~Waits'
  BY <1>2 DEF Waits
<1>9. StopKept'
  BY <1>2, <1>8, TakesOne DEF StopKept, StopComes
<1> QED BY <1>4, <1>5, <1>6, <1>7, <1>8, <1>9 DEF CalmInv

LEMMA TakesStopped ==
  ASSUME AnyInv, CalmInv, TakeIntent, UNCHANGED <<sessionVars, sender>>,
         worker' # IdleWorker, worker'.pc = "stopped", ~hasSession
  PROVE  CalmInv'
<1>1. live = None /\ "worker" \in Process
  BY TakesOne, ProcessesAre DEF Undone
<1>2. UNCHANGED <<live, orphans, binding, call, emitted, sender, thread, stopped, deletion,
                  reaper, ingest>> /\ intents' = <<>> /\ \A q \in Process : Idle(q)'
  BY TakesOne DEF sessionVars, Idle
<1>3. OthersRest("worker")'
  BY <1>2, TakesOne DEF OthersRest
<1>4. OneAtATime'
  BY <1>1, <1>2, <1>3, StaysAloneNext
<1>5. CallsAreKnown'
  <2>1. WorkerCalls'
    BY <1>1, <1>2 DEF WorkerCalls
  <2> QED BY <1>1, <1>2, <1>3, <2>1, CallsOfOne, ProcessesAre
<1>6. LiveFits'
  BY <1>1, <1>2, TakesOne DEF CalmInv, LiveFits, Spawning
<1>7. TurnsFollow' /\ StatusFollows'
  BY <1>2, TakesOne DEF CalmInv, TurnsFollow, StatusFollows, ShownTurn, ShownStopped, LiveTurn
<1>8. ~Waits'
  BY <1>2 DEF Waits
<1>9. StopKept'
  BY <1>2, <1>8, TakesOne DEF StopKept, StopComes
<1> QED BY <1>4, <1>5, <1>6, <1>7, <1>8, <1>9 DEF CalmInv

LEMMA TakeIntentCalm == ASSUME AnyInv, CalmInv, TakeIntent  PROVE CalmInv'
<1>1. ASSUME NEW t \in Turn, Head(intents).type = "turn", TakeTurn(t)  PROVE CalmInv'
  <2>1. CASE keepsSession
    BY <1>1, <2>1, TakesFork DEF TakeTurn
  <2>2. CASE ~keepsSession
    <3>1. worker' # IdleWorker /\ worker'.pc = "starting"
      BY <1>1, <2>2 DEF TakeTurn, IdleWorker
    <3> QED BY <1>1, <2>2, <3>1, TakesStart DEF TakeTurn
  <2> QED BY <2>1, <2>2
<1>2. CASE Head(intents).type = "turn" /\ TakeTurn(Head(intents).turn)
  BY <1>1, <1>2, TakesOne, IntentIs
<1>3. CASE Head(intents).type = "mode" /\ TakeMode
  <2>1. CASE hasSession /\ ~keepsSession
    <3>1. worker' # IdleWorker /\ worker'.pc = "starting"
      <4>1. worker' = [IdleWorker EXCEPT !.pc = "starting", !.mode = thread.mode]
        BY <1>3, <2>1 DEF TakeMode
      <4>2. thread.mode \in Mode
        BY TakesOne
      <4> QED BY <4>1, <4>2, IdleWorkerIs, Zenon
    <3> QED BY <1>3, <2>1, <3>1, TakesStart DEF TakeMode
  <2> QED BY <1>3, <2>1, TakesNothing DEF TakeMode
<1>4. CASE Head(intents).type = "interrupt" /\ TakeInterrupt
  <2>1. CASE hasSession
    <3>1. worker' # IdleWorker /\ worker'.pc = "asking"
      <4>1. worker' = [IdleWorker EXCEPT !.pc = "asking"]
        BY <1>4, <2>1 DEF TakeInterrupt
      <4> QED BY <4>1, IdleWorkerIs, Zenon
    <3> QED BY <1>4, <2>1, <3>1, TakesAsk DEF TakeInterrupt
  <2> QED BY <1>4, <2>1, TakesNothing DEF TakeInterrupt
<1>5. CASE Head(intents).type = "stop" /\ TakeStop
  <2>1. CASE hasSession
    <3>1. worker' # IdleWorker /\ worker'.pc = "stopping"
      <4>1. worker' = [IdleWorker EXCEPT !.pc = "stopping"]
        BY <1>5, <2>1 DEF TakeStop
      <4> QED BY <4>1, IdleWorkerIs, Zenon
    <3> QED BY <1>5, <2>1, <3>1, TakesStop DEF TakeStop
  <2>2. CASE ~hasSession
    <3>1. worker' # IdleWorker /\ worker'.pc = "stopped"
      <4>1. worker' = [IdleWorker EXCEPT !.pc = "stopped"]
        BY <1>5, <2>2 DEF TakeStop
      <4> QED BY <4>1, IdleWorkerIs, Zenon
    <3> QED BY <1>5, <2>2, <3>1, TakesStopped DEF TakeStop
  <2> QED BY <2>1, <2>2
<1> QED BY <1>2, <1>3, <1>4, <1>5 DEF TakeIntent

-----------------------------------------------------------------------------
(* The rest of what the command reactor does.                              *)
LEMMA WorkerAlone ==
  ASSUME AnyInv, CalmInv, worker.pc # "idle"
  PROVE  /\ "worker" \in Process /\ OthersRest("worker") /\ intents = <<>> /\ worker # IdleWorker
         /\ \A q \in Process : q # "worker" => Idle(q)
         /\ \A t \in Turn : sender[t].pc \in {"none", "done"} /\ Idle(t) /\ t # "worker"
         /\ reaper = "idle" /\ deletion # "stopping"
<1>1. "worker" \in Process /\ OthersRest("worker") /\ intents = <<>> /\ worker # IdleWorker
  BY ProcessesAre, WorkerBusy, Alone, NothingWaits DEF AnyInv, CalmInv
<1>2. \A q \in Process : q # "worker" => Idle(q)
  BY <1>1, RestHasNoCall DEF CalmInv
<1> QED BY <1>1, <1>2, ProcessesAre DEF OthersRest

LEMMA ReturnsAlone ==
  ASSUME AnyInv, NEW p \in Process, Return(p), \A q \in Process : q # p => Idle(q)
  PROVE  \A q \in Process : Idle(q)'
BY NoCallIs DEF Return, Idle, AnyInv, SessInv, SessTyped

(* The reactor rests after its call.                                       *)
LEMMA BindsCalm == ASSUME AnyInv, CalmInv, BindSession  PROVE CalmInv'
<1>1. worker.pc = "starting" /\ Done("worker") /\ worker.mode \in Mode
      /\ worker.turn \in Turn \cup {None} /\ emitted \in Seq(RuntimeEvent) /\ FlowTyped
  BY WorkerIs DEF BindSession, AnyInv, WorkerFits, SessInv, SessTyped
<1>2. /\ "worker" \in Process /\ OthersRest("worker") /\ intents = <<>>
      /\ \A q \in Process : q # "worker" => Idle(q)
      /\ \A t \in Turn : sender[t].pc \in {"none", "done"} /\ Idle(t) /\ t # "worker"
      /\ reaper = "idle" /\ deletion # "stopping"
  BY <1>1, WorkerAlone
<1>3. /\ UNCHANGED <<live, orphans, binding, emitted, intents, stopped, deletion, reaper, ingest>>
      /\ worker' = IdleWorker /\ worker'.pc = "idle"
  BY IdleWorkerIs, Zenon DEF BindSession, engineVars
<1>4. \A q \in Process : Idle(q)'
  BY <1>2, ReturnsAlone DEF BindSession
<1>5. live # None /\ live.turn = None /\ LiveTurn = None /\ ~Spawning /\ ~Spawning' /\ ~stopped
  BY <1>1, <1>3 DEF CalmInv, LiveFits, LiveTurn, Spawning, StopKept
<1>6. thread'.session # None /\ thread'.session.turn = None /\ thread'.session.status = "ready"
  <2>1. PICK s \in ThreadSession : s = [status |-> "ready", mode |-> worker.mode, turn |-> None]
    BY <1>1, ThreadSessionMade
  <2>2. SetThreadSession(s)
    BY <2>1 DEF BindSession
  <2>3. thread'.session = s
    BY <1>1, <2>2, ThreadSet
  <2> QED BY <2>1, <2>3, ThreadSessionIs
<1>7. \E p \in Process : /\ p \in Turn \cup {"worker"} /\ OthersRest(p)'
                         /\ \A t \in Turn : sender'[t].pc \in {"none", "forked", "done"}
  <2>1. CASE worker.turn = None
    <3>1. UNCHANGED sender
      BY <2>1 DEF BindSession
    <3>2. OthersRest("worker")'
      BY <1>2, <1>3, <3>1 DEF OthersRest
    <3> QED BY <1>2, <3>1, <3>2
  <2>2. CASE worker.turn # None
    <3>1. PICK t \in Turn : Fork(t)
      BY <1>1, <2>2 DEF BindSession
    <3>2. sender'[t].pc = "forked" /\ \A u \in Turn : u # t => sender'[u] = sender[u]
      BY <1>1, <3>1 DEF Fork, FlowTyped
    <3>3. t \in Process /\ t # "deletion" /\ t # "reaper"
      BY ProcessesAre
    <3>4. OthersRest(t)'
      BY <1>2, <1>3, <3>2, <3>3 DEF OthersRest
    <3> QED BY <1>2, <3>2, <3>3, <3>4
  <2> QED BY <2>1, <2>2
<1>8. OneAtATime'
  BY <1>2, <1>3, <1>7, StaysAloneNext
<1>9. CallsAreKnown'
  BY <1>2, <1>3, <1>4, <1>7, ProcessesAre DEF CallsAreKnown, WorkerCalls, StopperCalls, SenderCalls
<1>10. LiveFits'
  BY <1>2, <1>3, <1>5 DEF CalmInv, LiveFits, Spawning
<1>11. TurnsFollow'
  <2>1. LeadTo(emitted, ShownTurn, None)
    BY <1>5 DEF CalmInv, TurnsFollow
  <2>2. LeadTo(emitted, None, None)
    BY <1>1, <2>1, LeadFromNone
  <2>3. ShownTurn' = IF ingest # None THEN ShownTurn ELSE None
    BY <1>3, <1>6 DEF ShownTurn
  <2> QED BY <1>3, <1>5, <2>1, <2>2, <2>3 DEF TurnsFollow, LiveTurn
<1>12. StatusFollows'
  <2>1. ~EndStopped(emitted, ShownStopped)
    BY <1>5 DEF CalmInv, StatusFollows
  <2>2. ShownStopped' = IF ingest # None THEN ShownStopped ELSE FALSE
    BY <1>3, <1>6 DEF ShownStopped
  <2> QED BY <1>3, <1>5, <2>1, <2>2 DEF StatusFollows, EndStopped
<1>13. ~Waits'
  BY <1>2, <1>3 DEF Waits
<1>14. StopKept'
  BY <1>3, <1>5 DEF StopKept
<1> QED BY <1>8, <1>9, <1>10, <1>11, <1>12, <1>13, <1>14 DEF CalmInv

(* The call of an interrupt or of a stop returns.                          *)
LEMMA WorkerReturnsCalm ==
  ASSUME AnyInv, CalmInv, worker.pc \in {"asking", "stopping"}, Return("worker"),
         UNCHANGED <<live, orphans, binding, emitted, thread, intents, sender, engineVars,
                     deletion, reaper, ingest>>,
         worker.pc = "asking" => worker' = IdleWorker,
         worker.pc = "stopping" => worker'.pc = "stopped"
  PROVE  CalmInv'
<1>1. /\ "worker" \in Process /\ OthersRest("worker") /\ intents = <<>>
      /\ \A q \in Process : q # "worker" => Idle(q)
      /\ \A t \in Turn : sender[t].pc \in {"none", "done"}
      /\ reaper = "idle" /\ deletion # "stopping"
  BY WorkerAlone
<1>2. /\ UNCHANGED <<live, orphans, binding, emitted, thread, intents, sender, stopped, deletion,
                     reaper, ingest>>
      /\ worker'.pc \in {"idle", "stopped"}
  BY IdleWorkerIs, Zenon DEF engineVars
<1>3. \A q \in Process : Idle(q)'
  BY <1>1, ReturnsAlone
<1>4. OthersRest("worker")'
  BY <1>1, <1>2 DEF OthersRest
<1>5. OneAtATime'
  BY <1>1, <1>2, <1>4, StaysAloneNext
<1>6. CallsAreKnown'
  <2>1. WorkerCalls'
    BY <1>1, <1>2, <1>3 DEF WorkerCalls
  <2> QED BY <1>1, <1>3, <1>4, <2>1, CallsOfOne, ProcessesAre
<1>7. ~Spawning /\ ~Spawning'
  BY <1>2 DEF Spawning
<1>8. LiveFits'
  BY <1>1, <1>2, <1>7, IdleWorkerIs, Zenon DEF CalmInv, LiveFits
<1>9. TurnsFollow' /\ StatusFollows'
  BY <1>2, <1>7 DEF CalmInv, TurnsFollow, StatusFollows, ShownTurn, ShownStopped, LiveTurn
<1>10. ~Waits'
  BY <1>1, <1>2 DEF Waits
<1>11. StopKept'
  BY <1>1, <1>2, <1>10 DEF CalmInv, StopKept, StopComes, Waits
<1> QED BY <1>5, <1>6, <1>8, <1>9, <1>10, <1>11 DEF CalmInv

LEMMA SetStoppedCalm == ASSUME AnyInv, CalmInv, SetStopped  PROVE CalmInv'
<1>1. /\ "worker" \in Process /\ OthersRest("worker") /\ intents = <<>> /\ worker.pc = "stopped"
      /\ \A q \in Process : q # "worker" => Idle(q)
      /\ \A t \in Turn : sender[t].pc \in {"none", "done"}
      /\ reaper = "idle" /\ deletion # "stopping"
  BY WorkerAlone DEF SetStopped
<1>2. /\ UNCHANGED <<live, orphans, binding, call, emitted, intents, sender, stopped, deletion,
                     reaper, ingest>>
      /\ worker' = IdleWorker /\ worker'.pc = "idle"
  BY IdleWorkerIs, Zenon DEF SetStopped, engineVars, sessionVars
<1>3. \A q \in Process : Idle(q)'
  BY <1>1, <1>2 DEF CalmInv, CallsAreKnown, WorkerCalls, Idle
<1>4. live = None /\ LiveTurn = None /\ ~Spawning /\ ~Spawning'
  BY <1>1, <1>2 DEF CalmInv, LiveFits, LiveTurn, Spawning
<1>5. thread'.session # None /\ thread'.session.turn = None /\ thread'.session.status = "stopped"
  <2>1. PICK m : m = IF thread.session = None THEN FullAccess ELSE thread.session.mode
    OBVIOUS
  <2>2. m \in Mode
    BY <2>1, ThreadIs, ThreadSessionIs, TurnFlowAssumption DEF AnyInv
  <2>3. PICK s : s = [status |-> "stopped", turn |-> None, mode |-> m]
    OBVIOUS
  <2>4. s \in ThreadSession
    BY <2>2, <2>3 DEF ThreadSession
  <2>5. SetThreadSession(s)
    BY <2>1, <2>3 DEF SetStopped
  <2>6. thread'.session = s
    BY <2>4, <2>5, ThreadSet DEF AnyInv
  <2> QED BY <2>3, <2>4, <2>6, ThreadSessionIs
<1>6. OthersRest("worker")'
  BY <1>1, <1>2 DEF OthersRest
<1>7. OneAtATime'
  BY <1>1, <1>2, <1>6, StaysAloneNext
<1>8. CallsAreKnown'
  <2>1. WorkerCalls'
    BY <1>1, <1>2, <1>3 DEF WorkerCalls
  <2> QED BY <1>1, <1>3, <1>6, <2>1, CallsOfOne, ProcessesAre
<1>9. LiveFits'
  BY <1>1, <1>2, <1>4 DEF CalmInv, LiveFits
<1>10. TurnsFollow'
  <2>1. LeadTo(emitted, ShownTurn, None) /\ emitted \in Seq(RuntimeEvent)
    BY <1>4 DEF CalmInv, TurnsFollow, AnyInv, SessInv, SessTyped
  <2>2. LeadTo(emitted, None, None)
    BY <2>1, LeadFromNone
  <2>3. ShownTurn' = IF ingest # None THEN ShownTurn ELSE None
    BY <1>2, <1>5 DEF ShownTurn
  <2> QED BY <1>2, <1>4, <2>1, <2>2, <2>3 DEF TurnsFollow, LiveTurn
<1>11. StatusFollows'
  <2>1. EndStopped(emitted, ShownStopped)
    BY <1>4 DEF CalmInv, StatusFollows
  <2>2. ShownStopped' = IF ingest # None THEN ShownStopped ELSE TRUE
    BY <1>2, <1>5 DEF ShownStopped
  <2> QED BY <1>2, <1>4, <2>1, <2>2 DEF StatusFollows, EndStopped
<1>12. ~Waits'
  BY <1>1, <1>2 DEF Waits
<1>13. StopKept'
  BY <1>1, <1>2, <1>4, <1>5, <1>12 DEF CalmInv, StopKept
<1> QED BY <1>7, <1>8, <1>9, <1>10, <1>11, <1>12, <1>13 DEF CalmInv

LEMMA ReturnsCalm ==
  ASSUME AnyInv, CalmInv, InterruptReturns \/ StopReturns
  PROVE  CalmInv'
<1>1. CASE InterruptReturns
  BY <1>1, WorkerReturnsCalm DEF InterruptReturns
<1>2. CASE StopReturns
  <2>1. Calls("worker", "stop", {"closing", "done"})
    BY <1>2 DEF StopReturns, CalmInv, CallsAreKnown, WorkerCalls
  <2>2. Done("worker")
    BY <1>2, <2>1 DEF StopReturns, Calls, Done, Failed
  <2>3. worker' = [IdleWorker EXCEPT !.pc = "stopped"]
    BY <1>2, <2>2 DEF StopReturns
  <2>4. worker'.pc = "stopped"
    BY <2>3, IdleWorkerIs, Zenon
  <2> QED BY <1>2, <2>4, WorkerReturnsCalm DEF StopReturns
<1> QED BY <1>1, <1>2

(* What only a fault leads to does not come.                               *)
LEMMA NoneFails ==
  ASSUME CalmInv
  PROVE  /\ ~StartFailed /\ ~ReportStartFailed
         /\ \A t \in Turn : ~SendFails(t) /\ ~ReportSendFailed(t)
<1>1. ~StartFailed /\ ~ReportStartFailed
  BY DEF CalmInv, CallsAreKnown, WorkerCalls, StartFailed, ReportStartFailed, Calls, Failed
<1>2. ASSUME NEW t \in Turn  PROVE ~SendFails(t) /\ ~ReportSendFailed(t)
  BY DEF CalmInv, CallsAreKnown, SenderCalls, SendFails, ReportSendFailed, Calls, Failed
<1> QED BY <1>1, <1>2

-----------------------------------------------------------------------------
(* The forked sends.                                                       *)
LEMMA SenderAlone ==
  ASSUME AnyInv, CalmInv, NEW t \in Turn, sender[t].pc \notin {"none", "done"}
  PROVE  /\ t \in Process /\ t # "worker" /\ t # "deletion" /\ t # "reaper" /\ OthersRest(t)
         /\ intents = <<>> /\ worker = IdleWorker /\ worker.pc = "idle" /\ ~Spawning
         /\ \A q \in Process : q # t => Idle(q)
         /\ reaper = "idle" /\ deletion # "stopping" /\ ~stopped
<1>1. t \in Process /\ t # "worker" /\ t # "deletion" /\ t # "reaper"
  BY ProcessesAre
<1>2. OthersRest(t)
  BY <1>1, Alone DEF Busy, AnyInv, CalmInv
<1>3. \A q \in Process : q # t => Idle(q)
  BY <1>1, <1>2, RestHasNoCall DEF CalmInv
<1>4. ~stopped
  BY DEF CalmInv, StopKept
<1> QED BY <1>1, <1>2, <1>3, <1>4, IdleWorkerIs, Zenon DEF OthersRest, Spawning

LEMMA SendCalm == ASSUME AnyInv, CalmInv, NEW t \in Turn, Send(t)  PROVE CalmInv'
<1>1. /\ t \in Process /\ t # "worker" /\ t # "deletion" /\ t # "reaper" /\ OthersRest(t)
      /\ intents = <<>> /\ worker = IdleWorker /\ worker.pc = "idle" /\ ~Spawning
      /\ \A q \in Process : q # t => Idle(q)
      /\ reaper = "idle" /\ deletion # "stopping" /\ ~stopped
  BY SenderAlone DEF Send
<1>2. live # None /\ live.alive /\ sender[t].pc = "forked"
  BY DEF Send, CalmInv, LiveFits
<1>3. /\ UNCHANGED <<live, orphans, binding, emitted, thread, intents, worker, stopped, deletion,
                     reaper, ingest>>
      /\ call' = [call EXCEPT ![t] = [op |-> "send", mode |-> None, turn |-> t, pc |-> "asking"]]
  BY <1>2 DEF Send, Route, engineVars
<1>4. call'[t].op = "send" /\ call'[t].pc = "asking" /\ call'[t].turn = t
      /\ \A q \in Process : q # t => Idle(q)'
  BY <1>1, <1>3 DEF AnyInv, SessInv, SessTyped, Idle
<1>5. sender'[t].pc = "sending" /\ \A u \in Turn : u # t => sender'[u] = sender[u]
  BY SenderMoved DEF Send, AnyInv
<1>6. OthersRest(t)'
  BY <1>1, <1>3, <1>5 DEF OthersRest
<1>7. OneAtATime'
  BY <1>1, <1>3, <1>6, StaysAloneNext
<1>8. CallsAreKnown'
  <2>1. SenderCalls(t)'
    BY <1>4, <1>5 DEF SenderCalls, Calls
  <2> QED BY <1>1, <1>4, <1>6, <2>1, CallsOfOne
<1>9. ~Spawning'
  BY <1>1, <1>3 DEF Spawning
<1>10. LiveFits'
  BY <1>1, <1>2, <1>3, <1>9 DEF CalmInv, LiveFits
<1>11. TurnsFollow' /\ StatusFollows'
  BY <1>1, <1>3, <1>9 DEF CalmInv, TurnsFollow, StatusFollows, ShownTurn, ShownStopped, LiveTurn
<1>12. ~Waits' /\ StopKept'
  BY <1>1, <1>3 DEF Waits, StopKept
<1> QED BY <1>7, <1>8, <1>10, <1>11, <1>12 DEF CalmInv

LEMMA SendReturnsCalm == ASSUME AnyInv, CalmInv, NEW t \in Turn, SendReturns(t)  PROVE CalmInv'
<1>1. /\ t \in Process /\ t # "worker" /\ t # "deletion" /\ t # "reaper" /\ OthersRest(t)
      /\ intents = <<>> /\ worker = IdleWorker /\ worker.pc = "idle" /\ ~Spawning
      /\ \A q \in Process : q # t => Idle(q)
      /\ reaper = "idle" /\ deletion # "stopping" /\ ~stopped
  BY SenderAlone DEF SendReturns
<1>2. UNCHANGED <<live, orphans, binding, emitted, thread, intents, worker, stopped, deletion,
                  reaper, ingest>>
  BY DEF SendReturns
<1>3. \A q \in Process : Idle(q)'
  BY <1>1, ReturnsAlone DEF SendReturns
<1>4. sender'[t].pc = "done" /\ \A u \in Turn : u # t => sender'[u] = sender[u]
  BY SenderMoved DEF SendReturns, AnyInv
<1>5. OthersRest(t)'
  BY <1>1, <1>2, <1>4 DEF OthersRest
<1>6. OneAtATime'
  BY <1>1, <1>2, <1>5, StaysAloneNext
<1>7. CallsAreKnown'
  <2>1. SenderCalls(t)'
    BY <1>1, <1>3, <1>4 DEF SenderCalls
  <2> QED BY <1>1, <1>3, <1>5, <2>1, CallsOfOne
<1>8. ~Spawning'
  BY <1>1, <1>2 DEF Spawning
<1>9. LiveFits'
  BY <1>1, <1>2, <1>4, <1>8 DEF CalmInv, LiveFits
<1>10. TurnsFollow' /\ StatusFollows'
  BY <1>1, <1>2, <1>8 DEF CalmInv, TurnsFollow, StatusFollows, ShownTurn, ShownStopped, LiveTurn
<1>11. ~Waits' /\ StopKept'
  BY <1>1, <1>2 DEF Waits, StopKept
<1> QED BY <1>6, <1>7, <1>9, <1>10, <1>11 DEF CalmInv

-----------------------------------------------------------------------------
(* The deletion reactor and the reaper.                                    *)
LEMMA StopperAlone ==
  ASSUME AnyInv, CalmInv, NEW p \in {"deletion", "reaper"}, Busy(p)
  PROVE  /\ p \in Process /\ OthersRest(p)
         /\ intents = <<>> /\ worker = IdleWorker /\ worker.pc = "idle" /\ ~Spawning
         /\ \A q \in Process : q # p => Idle(q)
         /\ \A t \in Turn : sender[t].pc \in {"none", "done"}
<1>1. p \in Process /\ p # "worker" /\ OthersRest(p)
  BY ProcessesAre, Alone DEF AnyInv, CalmInv
<1>2. \A q \in Process : q # p => Idle(q)
  BY <1>1, RestHasNoCall DEF CalmInv
<1>3. intents = <<>> /\ worker = IdleWorker
      /\ \A t \in Turn : sender[t].pc \in {"none", "done"}
  BY <1>1, ProcessesAre DEF OthersRest
<1>4. worker.pc = "idle" /\ ~Spawning
  BY <1>3, IdleWorkerIs, Zenon DEF Spawning
<1> QED BY <1>1, <1>2, <1>3, <1>4

LEMMA StopperStops ==
  ASSUME AnyInv, CalmInv, NEW p \in {"deletion", "reaper"}, Busy(p), StopSession(p),
         UNCHANGED <<thread, intents, worker, sender, engineVars, ingest>>,
         p = "deletion" => deletion' = "stopping" /\ reaper' = reaper,
         p = "reaper" => reaper' = "stopping" /\ deletion' = deletion
  PROVE  CalmInv'
<1>1. /\ p \in Process /\ OthersRest(p)
      /\ intents = <<>> /\ worker = IdleWorker /\ worker.pc = "idle" /\ ~Spawning
      /\ \A q \in Process : q # p => Idle(q)
      /\ \A t \in Turn : sender[t].pc \in {"none", "done"}
  BY StopperAlone
<1>2. /\ live' = None /\ UNCHANGED orphans
      /\ Calls(p, "stop", {"closing", "done", "failed"})'
      /\ \A q \in Process : q # p => Idle(q)'
      /\ LeadTo(emitted', ShownTurn, None) /\ EndStopped(emitted', ShownStopped)
  BY <1>1, StopAlone
<1>3. UNCHANGED <<thread, intents, worker, sender, stopped, ingest>>
  BY DEF engineVars
<1>4. OthersRest(p)'
  BY <1>1, <1>3 DEF OthersRest
<1>5. OneAtATime'
  BY <1>1, <1>3, <1>4, StaysAloneNext
<1>6. CallsAreKnown'
  <2>1. StopperCalls'
    BY <1>1, <1>2, <1>4, ProcessesAre DEF StopperCalls, OthersRest
  <2> QED BY <1>1, <1>2, <1>4, <2>1, CallsOfOne, ProcessesAre
<1>7. ~Spawning'
  BY <1>1, <1>3 DEF Spawning
<1>8. LiveFits'
  BY <1>1, <1>2, <1>3, <1>7 DEF CalmInv, LiveFits
<1>9. TurnsFollow' /\ StatusFollows'
  BY <1>2, <1>3 DEF TurnsFollow, StatusFollows, ShownTurn, ShownStopped, LiveTurn
<1>10. ~Waits'
  BY <1>1, <1>3 DEF Waits
<1>11. StopKept'
  BY <1>2, <1>3, StopKeptStays DEF CalmInv
<1> QED BY <1>5, <1>6, <1>8, <1>9, <1>10, <1>11 DEF CalmInv

LEMMA StopperReturns ==
  ASSUME AnyInv, CalmInv, NEW p \in {"deletion", "reaper"}, Busy(p), Return(p),
         UNCHANGED <<live, orphans, binding, emitted, thread, intents, worker, sender, engineVars,
                     ingest>>,
         p = "deletion" => deletion' = "done" /\ reaper' = reaper,
         p = "reaper" => reaper' = "idle" /\ deletion' = deletion
  PROVE  CalmInv'
<1>1. /\ p \in Process /\ OthersRest(p)
      /\ intents = <<>> /\ worker = IdleWorker /\ worker.pc = "idle" /\ ~Spawning
      /\ \A q \in Process : q # p => Idle(q)
      /\ \A t \in Turn : sender[t].pc \in {"none", "done"}
  BY StopperAlone
<1>2. UNCHANGED <<live, orphans, binding, emitted, thread, intents, worker, sender, stopped, ingest>>
  BY DEF engineVars
<1>3. \A q \in Process : Idle(q)'
  BY <1>1, ReturnsAlone
<1>4. OthersRest(p)'
  BY <1>1, <1>2 DEF OthersRest
<1>5. OneAtATime'
  BY <1>1, <1>2, <1>4, StaysAloneNext
<1>6. CallsAreKnown'
  <2>1. StopperCalls'
    BY <1>1, <1>3, <1>4, ProcessesAre DEF StopperCalls, OthersRest
  <2> QED BY <1>1, <1>3, <1>4, <2>1, CallsOfOne, ProcessesAre
<1>7. ~Spawning'
  BY <1>1, <1>2 DEF Spawning
<1>8. LiveFits'
  BY <1>1, <1>2, <1>4, <1>7 DEF CalmInv, LiveFits, OthersRest
<1>9. TurnsFollow' /\ StatusFollows'
  BY <1>1, <1>2, <1>7 DEF CalmInv, TurnsFollow, StatusFollows, ShownTurn, ShownStopped, LiveTurn
<1>10. ~Waits'
  BY <1>1, <1>2 DEF Waits
<1>11. StopKept'
  BY <1>2, StopKeptStays DEF CalmInv
<1> QED BY <1>5, <1>6, <1>8, <1>9, <1>10, <1>11 DEF CalmInv

LEMMA StoppersCalm ==
  ASSUME AnyInv, CalmInv, StopDeleted \/ StopDeletedReturns \/ Reap \/ ReapReturns
  PROVE  CalmInv'
<1>1. CASE StopDeleted
  BY <1>1, StopperStops DEF StopDeleted, Busy
<1>2. CASE StopDeletedReturns
  BY <1>2, StopperReturns DEF StopDeletedReturns, Busy
<1>3. CASE Reap
  BY <1>3, StopperStops DEF Reap, Busy
<1>4. CASE ReapReturns
  BY <1>4, StopperReturns DEF ReapReturns, Busy
<1> QED BY <1>1, <1>2, <1>3, <1>4

-----------------------------------------------------------------------------
(* A call that goes on is that of the only one who is busy.                *)
LEMMA CallsGoOn ==
  ASSUME AnyInv, CalmInv, NEW p \in Process, ~Idle(p)
  PROVE  /\ OthersRest(p) /\ intents = <<>> /\ \A q \in Process : q # p => Idle(q)
         /\ p = "worker" => worker.pc # "idle"
         /\ p # "worker" => worker = IdleWorker /\ worker.pc = "idle"
<1>1. Busy(p) /\ (p = "worker" => worker.pc # "idle")
  <2>1. CASE p = "worker"
    BY <2>1, IdleWorkerIs, Zenon DEF CalmInv, CallsAreKnown, WorkerCalls, Busy
  <2>2. CASE p \in {"deletion", "reaper"}
    BY <2>2 DEF CalmInv, CallsAreKnown, StopperCalls, Busy
  <2>3. CASE p \in Turn
    BY <2>3, ProcessesAre DEF CalmInv, CallsAreKnown, SenderCalls, Busy, Calls, Idle
  <2> QED BY <2>1, <2>2, <2>3, ProcessesAre
<1>2. OthersRest(p) /\ intents = <<>>
  BY <1>1, Alone, NothingWaits DEF AnyInv, CalmInv
<1>3. \A q \in Process : q # p => Idle(q)
  BY <1>2, RestHasNoCall DEF CalmInv
<1> QED BY <1>1, <1>2, <1>3, IdleWorkerIs, Zenon DEF OthersRest

LEMMA CallEnds ==
  ASSUME AnyInv, CalmInv, NEW p \in Process, ~Idle(p),
         UNCHANGED <<intents, worker, sender, deletion, reaper>>,
         call'[p].pc = "done", call'[p].op = call[p].op, call'[p].turn = call[p].turn,
         \A q \in Process : q # p => call'[q] = call[q]
  PROVE  OneAtATime' /\ CallsAreKnown' /\ ~Waits' /\ ~Spawning'
<1>1. /\ OthersRest(p) /\ intents = <<>> /\ \A q \in Process : q # p => Idle(q)
      /\ p # "worker" => worker.pc = "idle"
  BY CallsGoOn
<1>2. OthersRest(p)' /\ intents' = <<>>
  BY <1>1 DEF OthersRest
<1>3. OneAtATime'
  BY <1>2, StaysAloneNext
<1>4. CallsAreKnown'
  <2>1. ASSUME NEW q \in Process, q # p  PROVE Idle(q)'
    <3>1. call'[q] = call[q] /\ call[q].pc = "idle"
      BY <1>1, <2>1 DEF Idle
    <3> QED BY <3>1 DEF Idle
  <2>2. p = "worker" => WorkerCalls'
    BY DEF CalmInv, CallsAreKnown, WorkerCalls, Calls, Idle
  <2>3. p \in Turn => SenderCalls(p)'
    BY DEF CalmInv, CallsAreKnown, SenderCalls, Calls, Idle
  <2>4. p \in {"deletion", "reaper"} => StopperCalls'
    BY ProcessesAre DEF CalmInv, CallsAreKnown, StopperCalls, Calls, Idle
  <2> QED BY <1>2, <2>1, <2>2, <2>3, <2>4, CallsOfOne
<1>5. ~Spawning'
  <2>1. CASE p = "worker"
    BY <2>1 DEF Spawning, Done
  <2>2. CASE p # "worker"
    <3>1. worker'.pc = "idle"
      BY <1>1, <2>2
    <3> QED BY <3>1 DEF Spawning
  <2> QED BY <2>1, <2>2
<1>6. ~Waits'
  BY <1>2 DEF Waits
<1> QED BY <1>3, <1>4, <1>5, <1>6

LEMMA SpawnedCalm ==
  ASSUME AnyInv, CalmInv, NEW p \in Process, Spawned(p),
         UNCHANGED <<thread, intents, worker, sender, engineVars, deletion, reaper, ingest>>
  PROVE  CalmInv'
<1>0. /\ call \in [Process -> CallRecord] /\ emitted \in Seq(RuntimeEvent)
      /\ UNCHANGED <<thread, intents, worker, sender, stopped, deletion, reaper, ingest>>
  BY DEF AnyInv, SessInv, SessTyped, engineVars
<1>1. call[p].pc = "spawning" /\ ~Idle(p)
  BY DEF Spawned, Idle
<1>2. p = "worker" /\ worker.pc = "starting" /\ call[p].op = "start" /\ Spawning
  BY <1>1, ProcessesAre DEF CalmInv, CallsAreKnown, WorkerCalls, StopperCalls, SenderCalls, Calls,
                            Idle, Spawning, Done
<1>3. OthersRest(p) /\ \A q \in Process : q # p => Idle(q)
  BY <1>1, CallsGoOn
<1>4. /\ call'[p].pc = "done" /\ call'[p].op = call[p].op /\ call'[p].turn = call[p].turn
      /\ \A q \in Process : q # p => call'[q] = call[q]
  <2>1. call' = [Astray(call) EXCEPT ![p].pc = "done"]
    BY <1>2 DEF Spawned
  <2>2. /\ call'[p].pc = "done" /\ call'[p].op = Astray(call)[p].op
        /\ call'[p].turn = Astray(call)[p].turn
        /\ \A q \in Process : q # p => call'[q] = Astray(call)[q]
    BY <1>0, <2>1, AstrayCalls, CallsMove
  <2>3. \A q \in Process : call[q].pc # "asking"
    BY <1>1, <1>3 DEF Idle
  <2> QED BY <1>0, <2>2, <2>3, AstrayCalls
<1>5. OneAtATime' /\ CallsAreKnown' /\ ~Waits' /\ ~Spawning'
  BY <1>0, <1>1, <1>4, CallEnds
<1>6. live = None /\ orphans = 0 /\ LiveTurn = None /\ ~stopped
  BY <1>2 DEF CalmInv, LiveFits, LiveTurn, StopKept
<1>7. live' # None /\ live'.turn = None /\ live'.alive /\ live'.by = p /\ p \notin Turn /\ orphans' = 0
  <2>1. call[p].mode \in Mode
    BY <1>1 DEF AnyInv, SessInv, CallFits
  <2> QED BY <1>2, <1>6, <2>1, SessionNew, ProcessesAre DEF Spawned
<1>8. binding'.status = "running"
  BY DEF Spawned, Upsert
<1>9. LiveFits'
  BY <1>0, <1>2, <1>3, <1>5, <1>7, <1>8, ProcessesAre DEF LiveFits, OthersRest
<1>10. PICK e \in RuntimeEvent : e = [type |-> "session.started"] /\ emitted' = Append(emitted, e)
  BY EventMade DEF Spawned
<1>11. e.type = "session.started" /\ Fits(e, None) /\ TurnAfter(e) = None
  BY <1>10 DEF Fits, TurnAfter
<1>12. LeadTo(emitted', ShownTurn, None) /\ \A shown : ~EndStopped(emitted', shown)
  <2>1. LeadTo(emitted, ShownTurn, None)
    BY <1>6 DEF CalmInv, TurnsFollow
  <2> QED BY <1>0, <1>10, <1>11, <2>1, LeadOn
<1>13. TurnsFollow' /\ StatusFollows'
  BY <1>0, <1>7, <1>12 DEF TurnsFollow, StatusFollows, ShownTurn, LiveTurn
<1>14. StopKept'
  BY <1>0, <1>6 DEF StopKept
<1> QED BY <1>5, <1>9, <1>13, <1>14 DEF CalmInv

LEMMA ClosedCalm ==
  ASSUME AnyInv, CalmInv, NEW p \in Process, Closed(p),
         UNCHANGED <<thread, intents, worker, sender, engineVars, deletion, reaper, ingest>>
  PROVE  CalmInv'
<1>0. /\ call \in [Process -> CallRecord]
      /\ UNCHANGED <<live, orphans, emitted, thread, intents, worker, sender, stopped, deletion,
                     reaper, ingest>>
      /\ call[p].pc = "closing" /\ ~Idle(p)
  BY DEF AnyInv, SessInv, SessTyped, engineVars, Closed, Idle
<1>1. live = None /\ ~Spawning
  <2>1. CASE p = "worker"
    <3>1. worker.pc = "stopping"
      BY <1>0, <2>1 DEF CalmInv, CallsAreKnown, WorkerCalls, Calls, Idle
    <3> QED BY <3>1 DEF CalmInv, LiveFits, Spawning
  <2>2. CASE p \in {"deletion", "reaper"}
    <3>1. deletion = "stopping" \/ reaper = "stopping"
      BY <1>0, <2>2 DEF CalmInv, CallsAreKnown, StopperCalls
    <3>2. worker.pc = "idle"
      BY <1>0, <2>2, CallsGoOn
    <3> QED BY <3>1, <3>2 DEF CalmInv, LiveFits, Spawning
  <2>3. p \notin Turn
    BY <1>0 DEF CalmInv, CallsAreKnown, SenderCalls, Calls, Idle
  <2> QED BY <2>1, <2>2, <2>3, ProcessesAre
<1>2. OthersRest(p)
  BY <1>0, CallsGoOn
<1>3. /\ call'[p].pc = "done" /\ call'[p].op = call[p].op /\ call'[p].turn = call[p].turn
      /\ \A q \in Process : q # p => call'[q] = call[q]
  BY <1>0, CallsMove DEF Closed
<1>4. OneAtATime' /\ CallsAreKnown' /\ ~Waits' /\ ~Spawning'
  BY <1>0, <1>3, CallEnds
<1>5. worker.pc # "starting" /\ worker.pc # "asking"
  BY <1>0, <1>1, CallsGoOn DEF CalmInv, CallsAreKnown, WorkerCalls, LiveFits, Spawning, Done, Calls
<1>6. LiveFits'
  BY <1>0, <1>1, <1>4, <1>5 DEF CalmInv, LiveFits
<1>7. TurnsFollow' /\ StatusFollows'
  BY <1>0, <1>1, <1>4 DEF CalmInv, TurnsFollow, StatusFollows, ShownTurn, ShownStopped, LiveTurn
<1>8. StopKept'
  BY <1>0, StopKeptStays DEF CalmInv
<1> QED BY <1>4, <1>6, <1>7, <1>8 DEF CalmInv

LEMMA AcceptedCalm ==
  ASSUME AnyInv, CalmInv, NEW p \in Process, TurnAccepted(p),
         UNCHANGED <<thread, intents, worker, sender, engineVars, deletion, reaper, ingest>>
  PROVE  CalmInv'
<1>0. /\ call \in [Process -> CallRecord] /\ emitted \in Seq(RuntimeEvent)
      /\ UNCHANGED <<orphans, thread, intents, worker, sender, stopped, deletion, reaper, ingest>>
      /\ call[p].pc = "asking" /\ call[p].op = "send" /\ ~Idle(p) /\ call[p].turn \in Turn
  BY DEF AnyInv, SessInv, SessTyped, CallFits, engineVars, TurnAccepted, Idle
<1>1. p \in Turn /\ sender[p].pc = "sending"
  BY <1>0, ProcessesAre DEF CalmInv, CallsAreKnown, WorkerCalls, StopperCalls, SenderCalls, Calls,
                            Idle
<1>2. /\ live \in Session /\ live # None /\ live.alive /\ live.by \notin Turn
      /\ worker.pc = "idle" /\ ~Spawning /\ reaper = "idle" /\ deletion # "stopping"
  BY <1>0, <1>1, SenderAlone DEF CalmInv, LiveFits, AnyInv, SessInv, SessTyped
<1>3. /\ call'[p].pc = "done" /\ call'[p].op = call[p].op /\ call'[p].turn = call[p].turn
      /\ \A q \in Process : q # p => call'[q] = call[q]
  BY <1>0, CallsMove DEF TurnAccepted
<1>4. OneAtATime' /\ CallsAreKnown' /\ ~Waits' /\ ~Spawning'
  BY <1>0, <1>3, CallEnds
<1>5. live' # None /\ live'.alive /\ live'.by = live.by /\ live'.turn = call[p].turn
  BY <1>0, <1>2, SessionTurn DEF TurnAccepted
<1>6. binding'.status = "running"
  BY DEF TurnAccepted, Upsert
<1>7. LiveFits'
  BY <1>0, <1>2, <1>4, <1>5, <1>6 DEF CalmInv, LiveFits
<1>8. LeadTo(emitted, ShownTurn, live.turn) /\ live.turn \in Turn \cup {None}
  BY <1>2, SessionIs DEF CalmInv, TurnsFollow, LiveTurn
<1>9. PICK s \in RuntimeEvent : s = [type |-> "turn.started", turn |-> call[p].turn]
  BY <1>0, EventMade
<1>10. s.type = "turn.started" /\ Fits(s, None) /\ TurnAfter(s) = call[p].turn
  BY <1>9 DEF Fits, TurnAfter
<1>11. PICK es \in Seq(RuntimeEvent) :
         LeadTo(es, ShownTurn, None) /\ emitted' = Append(es, s)
  <2>0. emitted' = emitted \o (EndOfTurn \o <<s>>)
    <3>1. Emit(EndOfTurn \o <<s>>)
      BY <1>9 DEF TurnAccepted
    <3> QED BY <1>2, <3>1, Zenon DEF Emit
  <2>1. CASE live.turn = None
    <3>1. emitted' = emitted \o <<s>>
      BY <2>0, <2>1 DEF EndOfTurn
    <3>2. emitted' = Append(emitted, s)
      BY <1>0, <3>1
    <3> QED BY <1>0, <1>8, <2>1, <3>2
  <2>2. CASE live.turn # None
    <3>1. live.turn \in Turn
      BY <1>8, <2>2
    <3>2. PICK e \in RuntimeEvent : e = [type |-> "turn.completed", turn |-> live.turn]
      BY <3>1, EventMade
    <3>3. Fits(e, live.turn) /\ TurnAfter(e) = None
      BY <3>2 DEF Fits, TurnAfter
    <3>4. LeadTo(Append(emitted, e), ShownTurn, None) /\ Append(emitted, e) \in Seq(RuntimeEvent)
      BY <1>0, <1>8, <3>3, LeadOn
    <3>5. emitted' = emitted \o (<<e>> \o <<s>>)
      BY <2>0, <2>2, <3>2 DEF EndOfTurn
    <3>6. emitted' = Append(Append(emitted, e), s)
      BY <1>0, <3>2, <3>5
    <3> QED BY <3>4, <3>6
  <2> QED BY <2>1, <2>2
<1>12. LeadTo(emitted', ShownTurn, call[p].turn) /\ \A shown : ~EndStopped(emitted', shown)
  BY <1>10, <1>11, LeadOn
<1>13. TurnsFollow' /\ StatusFollows'
  BY <1>0, <1>5, <1>12 DEF TurnsFollow, StatusFollows, ShownTurn, LiveTurn
<1>14. StopKept'
  BY <1>0, <1>2, StopKeptStays DEF CalmInv
<1> QED BY <1>4, <1>7, <1>13, <1>14 DEF CalmInv

LEMMA InterruptedCalm ==
  ASSUME AnyInv, CalmInv, NEW p \in Process, Interrupted(p),
         UNCHANGED <<thread, intents, worker, sender, engineVars, deletion, reaper, ingest>>
  PROVE  CalmInv'
<1>0. /\ call \in [Process -> CallRecord] /\ emitted \in Seq(RuntimeEvent)
      /\ UNCHANGED <<orphans, binding, thread, intents, worker, sender, stopped, deletion, reaper,
                     ingest>>
      /\ call[p].pc = "asking" /\ call[p].op = "interrupt" /\ ~Idle(p)
  BY DEF AnyInv, SessInv, SessTyped, engineVars, Interrupted, Idle
<1>1. p = "worker" /\ worker.pc = "asking"
  BY <1>0, ProcessesAre DEF CalmInv, CallsAreKnown, WorkerCalls, StopperCalls, SenderCalls, Calls,
                            Idle
<1>2. /\ live \in Session /\ live # None /\ live.alive /\ live.by \notin Turn
      /\ binding.status = "running"
      /\ ~Spawning /\ reaper = "idle" /\ deletion # "stopping"
  BY <1>1, WorkerAlone DEF CalmInv, LiveFits, AnyInv, SessInv, SessTyped, Spawning
<1>3. /\ call'[p].pc = "done" /\ call'[p].op = call[p].op /\ call'[p].turn = call[p].turn
      /\ \A q \in Process : q # p => call'[q] = call[q]
  BY <1>0, CallsMove DEF Interrupted
<1>4. OneAtATime' /\ CallsAreKnown' /\ ~Waits' /\ ~Spawning'
  BY <1>0, <1>3, CallEnds
<1>5. live' # None /\ live'.alive /\ live'.by = live.by /\ live'.turn = None
  BY <1>2, SessionTurn DEF Interrupted
<1>6. LiveFits'
  BY <1>0, <1>1, <1>2, <1>4, <1>5 DEF CalmInv, LiveFits
<1>7. /\ LeadTo(emitted, ShownTurn, live.turn) /\ live.turn \in Turn \cup {None}
      /\ ~EndStopped(emitted, ShownStopped)
  BY <1>2, SessionIs DEF CalmInv, TurnsFollow, StatusFollows, LiveTurn
<1>8. LeadTo(emitted', ShownTurn, None) /\ ~EndStopped(emitted', ShownStopped)
  <2>0. Emit(EndOfTurn)
    BY DEF Interrupted
  <2>1. CASE live.turn = None
    <3>1. emitted' = emitted
      BY <1>0, <1>2, <2>0, <2>1, EndEmitted
    <3> QED BY <1>7, <2>1, <3>1
  <2>2. CASE live.turn # None
    <3>1. PICK e \in RuntimeEvent : e = [type |-> "turn.completed", turn |-> live.turn]
      BY <1>7, <2>2, EventMade
    <3>2. e.type = "turn.completed" /\ Fits(e, live.turn) /\ TurnAfter(e) = None
      BY <3>1 DEF Fits, TurnAfter
    <3>3. emitted' = Append(emitted, e)
      BY <1>0, <1>2, <2>0, <2>2, <3>1, EndEmitted
    <3> QED BY <1>0, <1>7, <3>2, <3>3, LeadOn
  <2> QED BY <2>1, <2>2
<1>9. TurnsFollow' /\ StatusFollows'
  BY <1>0, <1>5, <1>8 DEF TurnsFollow, StatusFollows, ShownTurn, ShownStopped, LiveTurn
<1>10. StopKept'
  BY <1>0, <1>2, StopKeptStays DEF CalmInv
<1> QED BY <1>4, <1>6, <1>9, <1>10 DEF CalmInv

LEMMA ServiceStepCalm == ASSUME AnyInv, CalmInv, ServiceStep  PROVE CalmInv'
<1>1. UNCHANGED <<thread, intents, worker, sender, engineVars, deletion, reaper, ingest>>
  BY DEF ServiceStep
<1>2. ASSUME NEW p \in Process, Resume(p)  PROVE CalmInv'
  <2>1. call[p].pc \notin {"astray", "broken"}
    BY ProcessesAre DEF CalmInv, CallsAreKnown, WorkerCalls, StopperCalls, SenderCalls, Calls, Idle
  <2>2. ~AnsweredAstray(p) /\ ~Refused(p)
    BY <2>1 DEF AnsweredAstray, Refused
  <2> QED BY <1>1, <1>2, <2>2, SpawnedCalm, ClosedCalm, AcceptedCalm, InterruptedCalm DEF Resume
<1>3. CASE TurnCompletes
  BY <1>1, <1>3, TurnCompletesCalm
<1> QED BY <1>2, <1>3 DEF ServiceStep

-----------------------------------------------------------------------------
(* Every step but a fault keeps what holds while nothing overlaps.         *)
LEMMA NextCalm == ASSUME AnyInv, CalmInv, overlap = "none", Next, ~Fault  PROVE CalmInv'
BY RequestsCalm, GrowIdleCalm, SweepCalm, ReadEventCalm, DispatchSessionCalm, TakeIntentCalm,
   BindsCalm, ReturnsCalm, SetStoppedCalm, NoneFails, SendCalm, SendReturnsCalm, StoppersCalm,
   ServiceStepCalm
   DEF Next
-----------------------------------------------------------------------------
(* Where requests do not overlap, whatever fails and whenever sweeps are:  *)
(* but for what hangs, one reactor or sender at a time, apart from the     *)
(* reaper, has work to do.                                                 *)
Elsewhere(p) ==
  /\ p # "worker" => (intents = <<>> /\ worker = IdleWorker) \/ Hangs("worker")
  /\ p # "deletion" => deletion \in {"none", "done"}
  /\ \A t \in Turn : t # p => sender[t].pc \in {"none", "done"} \/ Hangs(t)

OneTaken == intents # <<>> => Hangs("worker") \/ (worker = IdleWorker /\ Len(intents) = 1)

(* Who waits for a call is no further.                                     *)
CallWaits(p) ==
  /\ p = "worker" /\ worker.pc \notin {"starting", "asking", "stopping"} => Idle(p)
  /\ p \in Turn => /\ sender[p].pc \notin {"forked", "sending"} => Idle(p)
                   /\ sender[p].pc = "forked" => Idle(p) \/ Hangs(p)
  /\ p = "deletion" /\ deletion # "stopping" => Idle(p)
  /\ p \in {"deletion", "reaper"} => call[p].pc \in {"idle", "closing", "done", "failed"}
  /\ p \in Reactors => call[p].op # "send"

(* One session at a time is started, and none is lost from the list.       *)
Starts(p) == call[p].pc # "astray" /\ (call[p].pc = "spawning" => live = None)

SoloInv ==
  /\ \E p \in Process : Elsewhere(p)
  /\ OneTaken
  /\ \A p \in Process : CallWaits(p) /\ Starts(p)
  /\ orphans = 0

(* The calls of others stay as they are, or lose their session.            *)
OthersGoOn(p) ==
  \A q \in Process : q # p =>
    /\ call'[q].op = call[q].op
    /\ \/ call'[q].pc = call[q].pc
       \/ call[q].pc = "asking" /\ call'[q].pc \in {"broken", "hung"}

LEMMA SpawnCalls ==
  ASSUME SessInv, NEW p \in Process, NEW o \in {"start", "send", "interrupt"}, NEW m \in Mode,
         NEW t \in Turn \cup {None}, Spawn(p, o, m, t)
  PROVE  live' = None /\ call'[p].pc = "spawning" /\ call'[p].op = o /\ OthersGoOn(p)
<1> DEFINE c == [call EXCEPT ![p] = [op |-> o, pc |-> "spawning", mode |-> m, turn |-> t]]
<1>1. call \in [Process -> CallRecord]
  BY DEF SessInv, SessTyped
<1>2. /\ c \in [Process -> CallRecord] /\ c[p].op = o /\ c[p].pc = "spawning"
      /\ \A q \in Process : q # p => c[q] = call[q]
  <2>1. [op |-> o, pc |-> "spawning", mode |-> m, turn |-> t] \in CallRecord
    BY CallMade
  <2> QED BY <1>1, <2>1
<1>3. CASE live = None
  <2>1. call' = c /\ live' = None
    BY <1>3 DEF Spawn
  <2> HIDE DEF c
  <2> QED BY <1>2, <2>1 DEF OthersGoOn
<1>4. CASE live # None
  <2>1. live' = None /\ \E hung : call' = Abandoned(c, hung)
    BY <1>4 DEF Spawn
  <2> HIDE DEF c
  <2>2. PICK hung : call' = Abandoned(c, hung)
    BY <2>1
  <2>3. \A q \in Process : /\ c[q].pc = "asking" => call'[q].pc \in {"broken", "hung"}
                           /\ c[q].pc # "asking" => call'[q] = c[q]
                           /\ call'[q].op = c[q].op
    BY <1>2, <2>2, AbandonedCalls
  <2>4. call'[p].pc = "spawning" /\ call'[p].op = o
    BY <1>2, <2>3
  <2>5. OthersGoOn(p)
    BY <1>2, <2>3, Zenon DEF OthersGoOn
  <2> QED BY <2>1, <2>4, <2>5
<1> QED BY <1>3, <1>4

LEMMA StartCalls ==
  ASSUME SessInv, NEW p \in Process, NEW m \in Mode, StartSession(p, m)
  PROVE  /\ live' = None /\ call'[p].pc = "spawning" /\ call'[p].op = "start" /\ OthersGoOn(p)
         /\ Idle(p) /\ UNCHANGED orphans
BY SpawnCalls, Zenon DEF StartSession

LEMMA RouteCalls ==
  ASSUME SessInv, NEW p \in Process, NEW o \in {"send", "interrupt"}, NEW t \in Turn \cup {None},
         Route(p, o, t)
  PROVE  /\ \/ live' = None /\ call'[p].pc = "spawning"
            \/ UNCHANGED <<live, emitted>> /\ call'[p].pc \in {"asking", "hung", "done"}
         /\ call'[p].op = o /\ OthersGoOn(p) /\ Idle(p) /\ UNCHANGED <<orphans, binding>>
<1>1. Idle(p) /\ UNCHANGED <<orphans, binding>>
  BY DEF Route
<1>2. CASE live # None /\ UNCHANGED <<live, emitted>>
           /\ call' = [call EXCEPT ![p] = [op |-> o, mode |-> None, turn |-> t,
                                           pc |-> IF live.alive THEN "asking"
                                                  ELSE IF o = "send" THEN "hung" ELSE "done"]]
  <2>1. PICK k \in {"asking", "hung", "done"} :
          k = IF live.alive THEN "asking" ELSE IF o = "send" THEN "hung" ELSE "done"
    OBVIOUS
  <2>2. call' = [call EXCEPT ![p] = [op |-> o, mode |-> None, turn |-> t, pc |-> k]]
    BY <1>2, <2>1
  <2>3. /\ call'[p].pc = k /\ call'[p].op = o
        /\ \A q \in Process : q # p => call'[q] = call[q]
    BY <2>2 DEF SessInv, SessTyped
  <2> QED BY <1>1, <1>2, <2>1, <2>3 DEF OthersGoOn
<1>3. CASE live = None /\ binding.status # "none" /\ Spawn(p, o, binding.mode, t)
  <2>1. binding.mode \in Mode
    BY <1>3 DEF SessInv, BindingFits
  <2> QED BY <1>1, <1>3, <2>1, SpawnCalls
<1> QED BY <1>2, <1>3, Zenon DEF Route

LEMMA StopCalls ==
  ASSUME SessInv, NEW p \in Process, StopSession(p)
  PROVE  /\ live' = None /\ call'[p].op = "stop" /\ call'[p].pc \in {"closing", "done", "failed"}
         /\ OthersGoOn(p) /\ Idle(p) /\ UNCHANGED orphans
<1>0. call \in [Process -> CallRecord] /\ Idle(p) /\ UNCHANGED orphans
  BY DEF SessInv, SessTyped, StopSession
<1>1. ASSUME NEW k \in {"done", "failed"}, live' = None,
             call' = [call EXCEPT ![p] = [NoCall EXCEPT !.op = "stop", !.pc = k]]
      PROVE  /\ live' = None /\ call'[p].op = "stop" /\ call'[p].pc \in {"closing", "done", "failed"}
             /\ OthersGoOn(p)
  <2>1. /\ call'[p].pc = k /\ call'[p].op = "stop"
        /\ \A q \in Process : q # p => call'[q] = call[q]
    BY <1>0, <1>1, StopCall
  <2> QED BY <1>1, <2>1 DEF OthersGoOn
<1>2. CASE binding.status # "none" /\ live # None
  <2>1. live' = None /\ \E hung :
          call' = [Abandoned(call, hung) EXCEPT ![p] = [NoCall EXCEPT !.op = "stop", !.pc = "closing"]]
    BY <1>2 DEF StopSession
  <2>2. PICK hung :
          call' = [Abandoned(call, hung) EXCEPT ![p] = [NoCall EXCEPT !.op = "stop", !.pc = "closing"]]
    BY <2>1
  <2>3. PICK c : c = Abandoned(call, hung)
    OBVIOUS
  <2>4. /\ c \in [Process -> CallRecord]
        /\ \A q \in Process : /\ call[q].pc = "asking" => c[q].pc \in {"broken", "hung"}
                              /\ call[q].pc # "asking" => c[q] = call[q]
                              /\ c[q].op = call[q].op
    BY <1>0, <2>3, AbandonedCalls
  <2>5. /\ call'[p].pc = "closing" /\ call'[p].op = "stop"
        /\ \A q \in Process : q # p => call'[q] = c[q]
    BY <2>2, <2>3, <2>4, StopCall
  <2>6. OthersGoOn(p)
    BY <2>4, <2>5, Zenon DEF OthersGoOn
  <2> QED BY <1>0, <2>1, <2>5, <2>6
<1>3. CASE binding.status = "none"
  <2>1. live' = None
    BY <1>3 DEF SessInv, BindingFits, StopSession
  <2> QED BY <1>0, <1>1, <1>3, <2>1 DEF StopSession
<1>4. CASE binding.status # "none" /\ live = None
  BY <1>0, <1>1, <1>4 DEF StopSession
<1> QED BY <1>0, <1>2, <1>3, <1>4

LEMMA ReturnCalls ==
  ASSUME SessInv, NEW p \in Process, Return(p)
  PROVE  call'[p].op = "none" /\ Idle(p)' /\ OthersGoOn(p)
BY NoCallIs DEF Return, Idle, SessInv, SessTyped, OthersGoOn

LEMMA SameCalls ==
  ASSUME UNCHANGED call, NEW p
  PROVE  OthersGoOn(p)
BY DEF OthersGoOn

LEMMA DiesCalls ==
  ASSUME SessInv, ProcessDies
  PROVE  /\ OthersGoOn("reaper")
         /\ \A q \in Process : call[q].pc # "asking" => call'[q] = call[q]
<1>1. PICK hung : call' = Abandoned(call, hung)
  BY DEF ProcessDies
<1>2. call \in [Process -> CallRecord]
  BY DEF SessInv, SessTyped
<1> QED BY <1>1, <1>2, AbandonedCalls, Zenon DEF OthersGoOn

-----------------------------------------------------------------------------
(* Who has a call that goes on is the one who is at work.                  *)
LEMMA WhoCalls ==
  ASSUME SoloInv, NEW p \in Process, Elsewhere(p),
         NEW q \in Process, q # "reaper", call[q].pc \notin {"idle", "hung"}
  PROVE  q = p
<1>1. CallWaits(q) /\ ~Idle(q) /\ ~Hangs(q)
  BY DEF SoloInv, Idle, Hangs
<1>2. CASE q = "worker"
  <2>1. worker.pc # "idle"
    BY <1>1, <1>2 DEF CallWaits
  <2>2. worker # IdleWorker
    BY <2>1, IdleWorkerIs, Zenon
  <2> QED BY <1>1, <1>2, <2>2 DEF Elsewhere
<1>3. CASE q = "deletion"
  BY <1>1, <1>3 DEF CallWaits, Elsewhere
<1>4. CASE q \in Turn
  BY <1>1, <1>4 DEF CallWaits, Elsewhere
<1> QED BY <1>2, <1>3, <1>4, ProcessesAre

LEMMA NobodyStarts ==
  ASSUME SoloInv, NEW q \in {"deletion", "reaper"}
  PROVE  call[q].pc \notin {"spawning", "asking", "broken", "hung"}
BY ProcessesAre DEF SoloInv, CallWaits

(* A step of the service or of the ingestion: who is at work stays so.     *)
LEMMA SoloKept ==
  ASSUME AnyInv, SoloInv, UNCHANGED <<intents, worker, sender, deletion, orphans>>,
         NEW p, OthersGoOn(p),
         p \in Process => /\ Hangs(p) => Hangs(p)'
                          /\ Idle(p) /\ p # "reaper" => Idle(p)'
                          /\ call'[p].op = call[p].op \/ (p = "reaper" /\ call'[p].op = "stop")
                          /\ call'[p].pc # "astray"
                          /\ call'[p].pc = "spawning" => call[p].pc = "spawning"
                          /\ p \in {"deletion", "reaper"} =>
                               call'[p].pc \in {"idle", "closing", "done", "failed"},
         live' = None \/ \A q \in Process : call'[q].pc # "spawning"
  PROVE  SoloInv'
<1>1. ASSUME NEW q \in Process
      PROVE  /\ Hangs(q) => Hangs(q)'
             /\ Idle(q) /\ q # "reaper" => Idle(q)'
             /\ CallWaits(q)' /\ Starts(q)'
  <2>1. CASE q = p
    <3>1. Hangs(q) => Hangs(q)'
      BY <2>1
    <3>2. Idle(q) /\ q # "reaper" => Idle(q)'
      BY <2>1
    <3>3. CallWaits(q)'
      BY <2>1, <3>1, <3>2, ProcessesAre DEF SoloInv, CallWaits, Reactors
    <3> QED BY <2>1, <3>1, <3>2, <3>3 DEF Starts
  <2>2. CASE q # p
    <3>1. /\ call'[q].op = call[q].op
          /\ \/ call'[q].pc = call[q].pc
             \/ call[q].pc = "asking" /\ call'[q].pc \in {"broken", "hung"}
      BY <2>2 DEF OthersGoOn
    <3>2. (Hangs(q) => Hangs(q)') /\ (Idle(q) => Idle(q)')
      BY <3>1 DEF Hangs, Idle
    <3>3. CallWaits(q)'
      BY <3>1, <3>2, ProcessesAre DEF SoloInv, CallWaits
    <3>4. Starts(q)'
      BY <3>1 DEF SoloInv, Starts
    <3> QED BY <3>2, <3>3, <3>4
  <2> QED BY <2>1, <2>2
<1>2. OneTaken'
  BY <1>1, ProcessesAre DEF SoloInv, OneTaken
<1>3. \E w \in Process : Elsewhere(w)'
  <2>1. PICK w \in Process : Elsewhere(w)
    BY DEF SoloInv
  <2>2. Elsewhere(w)'
    BY <1>1, <2>1, ProcessesAre DEF Elsewhere
  <2> QED BY <2>2
<1> QED BY <1>1, <1>2, <1>3 DEF SoloInv

(* A step of the one who is at work, after which another may be.           *)
LEMMA SoloMoves ==
  ASSUME AnyInv, SoloInv, NEW p \in Process, Elsewhere(p), p # "reaper", OthersGoOn(p),
         UNCHANGED orphans,
         p # "worker" => UNCHANGED worker,
         p # "deletion" => UNCHANGED deletion,
         \A t \in Turn : t # p => sender'[t] = sender[t] \/ sender'[t].pc = "forked",
         CallWaits(p)', Starts(p)', OneTaken',
         NEW w \in Process, Elsewhere(w)'
  PROVE  SoloInv'
<1>1. ASSUME NEW q \in Process, q # p
      PROVE  CallWaits(q)' /\ Starts(q)'
  <2>1. /\ call'[q].op = call[q].op
        /\ \/ call'[q].pc = call[q].pc
           \/ call[q].pc = "asking" /\ call'[q].pc \in {"broken", "hung"}
    BY <1>1 DEF OthersGoOn
  <2>2. (Hangs(q) => Hangs(q)') /\ (Idle(q) => Idle(q)')
    BY <2>1 DEF Hangs, Idle
  <2>3. CallWaits(q) /\ Starts(q) /\ (call[q].pc \in {"idle", "hung"} \/ q = "reaper")
    BY <1>1, WhoCalls DEF SoloInv
  <2>4. call'[q].pc = call[q].pc
    BY <2>1, <2>3, NobodyStarts
  <2>5. Starts(q)'
    BY <2>3, <2>4, NobodyStarts DEF Starts
  <2>6. CASE q \in Turn
    <3>1. (Idle(q) => Idle(q)') /\ (sender'[q] # sender[q] => Idle(q)' \/ Hangs(q)')
      BY <1>1, <2>2, <2>3, <2>6, ProcessesAre DEF CallWaits, Elsewhere, Idle, Hangs
    <3> QED BY <1>1, <2>1, <2>2, <2>3, <2>5, <2>6, <3>1, ProcessesAre DEF CallWaits, Reactors
  <2>7. CASE q \notin Turn
    BY <1>1, <2>1, <2>2, <2>3, <2>4, <2>5, <2>7, ProcessesAre DEF CallWaits
  <2> QED BY <2>6, <2>7
<1>2. orphans' = 0
  BY DEF SoloInv
<1> QED BY <1>1, <1>2 DEF SoloInv

(* The service, the provider, the ingestion and the reaper.                *)
LEMMA SpawnedSolo ==
  ASSUME AnyInv, SoloInv, NEW p \in Process, Spawned(p), UNCHANGED <<intents, worker, sender, deletion>>
  PROVE  SoloInv' /\ HeardTurn' = None
<1>1. call[p].pc = "spawning" /\ p # "reaper" /\ p # "deletion" /\ live = None /\ orphans' = orphans
  BY NobodyStarts DEF Spawned, SoloInv, Starts
<1>2. PICK w \in Process : Elsewhere(w)
  BY DEF SoloInv
<1>3. p = w
  BY <1>1, <1>2, WhoCalls
<1>4. ASSUME NEW q \in Process, q # p  PROVE call[q].pc \notin {"asking", "spawning"}
  BY <1>2, <1>3, <1>4, WhoCalls, NobodyStarts
<1>5. call \in [Process -> CallRecord]
  BY DEF AnyInv, SessInv, SessTyped
<1>6. PICK c \in [Process -> CallRecord] : c = Astray(call)
  BY <1>5, AstrayCalls
<1>7. \A q \in Process : c[q].op = call[q].op /\ c[q].pc = call[q].pc
  BY <1>1, <1>4, <1>5, <1>6, AstrayCalls
<1>8. PICK k \in {"done", "asking"} : call' = [c EXCEPT ![p].pc = k]
  BY <1>6 DEF Spawned
<1>9. /\ call'[p].pc = k /\ call'[p].op = c[p].op
      /\ \A q \in Process : q # p => call'[q] = c[q]
  BY <1>8, CallsMove
<1>10. OthersGoOn(p)
  BY <1>7, <1>9 DEF OthersGoOn
<1>11. \A q \in Process : call'[q].pc # "spawning"
  BY <1>4, <1>7, <1>9
<1>12. SoloInv'
  BY <1>1, <1>7, <1>9, <1>10, <1>11, SoloKept DEF Hangs, Idle
<1>13. live' # None /\ live'.turn = None
  BY SessionNew DEF Spawned, AnyInv, SessInv, CallFits
<1> QED BY <1>12, <1>13 DEF HeardTurn

LEMMA MovesSolo ==
  ASSUME AnyInv, SoloInv, NEW p \in Process, NEW k \in {"done", "failed"},
         call[p].pc \notin {"idle", "hung"},
         call' = [call EXCEPT ![p].pc = k], UNCHANGED <<orphans, intents, worker, sender, deletion>>,
         live = None => live' = None
  PROVE  SoloInv'
<1>1. call \in [Process -> CallRecord]
  BY DEF AnyInv, SessInv, SessTyped
<1>2. /\ call'[p].pc = k /\ call'[p].op = call[p].op
      /\ \A q \in Process : q # p => call'[q] = call[q]
  BY <1>1, CallsMove
<1>3. OthersGoOn(p)
  BY <1>2 DEF OthersGoOn
<1>4. live' = None \/ \A q \in Process : call'[q].pc # "spawning"
  BY <1>2 DEF SoloInv, Starts
<1> QED BY <1>2, <1>3, <1>4, SoloKept DEF Hangs, Idle

LEMMA ServiceSolo ==
  ASSUME AnyInv, SoloInv, NEW p \in Process, Resume(p),
         UNCHANGED <<intents, worker, sender, deletion>>
  PROVE  SoloInv'
<1>1. CASE Spawned(p)
  BY <1>1, SpawnedSolo
<1>2. CASE Closed(p)
  BY <1>2, MovesSolo DEF Closed
<1>3. CASE TurnAccepted(p)
  <2>1. live \in Session \cup {None}
    BY DEF AnyInv, SessInv, SessTyped
  <2>2. call[p].pc = "asking" /\ live # None
    BY <1>3 DEF TurnAccepted, AnyInv, SessInv, CallFits
  <2> QED BY <1>3, <2>2, MovesSolo DEF TurnAccepted
<1>4. CASE Interrupted(p)
  <2>2. call[p].pc = "asking" /\ live # None
    BY <1>4 DEF Interrupted, AnyInv, SessInv, CallFits
  <2> QED BY <1>4, <2>2, MovesSolo DEF Interrupted
<1>5. CASE Refused(p)
  BY <1>5, MovesSolo DEF Refused
<1>6. ~AnsweredAstray(p)
  BY DEF AnsweredAstray, SoloInv, Starts
<1> QED BY <1>1, <1>2, <1>3, <1>4, <1>5, <1>6 DEF Resume

LEMMA FaultSolo ==
  ASSUME AnyInv, SoloInv, Fault
  PROVE  SoloInv'
<1>1. UNCHANGED <<intents, worker, sender, deletion>>
  BY DEF Fault
<1>2. ASSUME NEW p \in Process, SpawnFails(p) \/ TurnRefused(p)  PROVE SoloInv'
  <2>1. call[p].pc \notin {"idle", "hung"} /\ call' = [call EXCEPT ![p].pc = "failed"]
        /\ UNCHANGED <<live, orphans>>
    BY <1>2 DEF SpawnFails, TurnRefused
  <2> QED BY <1>1, <2>1, MovesSolo
<1>3. CASE ProcessDies
  <2>1. OthersGoOn("reaper") /\ UNCHANGED orphans /\ live # None
    BY <1>3, DiesCalls DEF AnyInv, ProcessDies
  <2>2. call'["reaper"] = call["reaper"] /\ call["reaper"].pc # "astray"
    BY <1>3, DiesCalls, NobodyStarts, ProcessesAre DEF AnyInv, SoloInv, Starts
  <2>3. CallWaits("reaper") /\ "reaper" \in Process
    BY ProcessesAre DEF SoloInv
  <2>4. call'["reaper"].pc \in {"idle", "closing", "done", "failed"}
    BY <2>2, <2>3 DEF CallWaits
  <2>5. \A q \in Process : call'[q].pc # "spawning"
    BY <2>1, <2>4 DEF SoloInv, Starts, OthersGoOn
  <2> QED BY <1>1, <2>1, <2>2, <2>4, <2>5, SoloKept DEF Hangs, Idle
<1> QED BY <1>2, <1>3 DEF Fault

-----------------------------------------------------------------------------
(* Who is at work.                                                         *)
LEMMA WorkerWorks ==
  ASSUME SoloInv, worker.pc # "idle", ~Hangs("worker")
  PROVE  Elsewhere("worker") /\ intents = <<>>
<1>1. worker # IdleWorker
  BY IdleWorkerIs, Zenon
<1>2. intents = <<>>
  BY <1>1 DEF SoloInv, OneTaken
<1>3. PICK p \in Process : Elsewhere(p)
  BY DEF SoloInv
<1>4. p = "worker"
  BY <1>1, <1>3 DEF Elsewhere
<1> QED BY <1>2, <1>3, <1>4

LEMMA SenderWorks ==
  ASSUME SoloInv, NEW t \in Turn, sender[t].pc \notin {"none", "done"}, ~Hangs(t)
  PROVE  Elsewhere(t)
BY DEF SoloInv, Elsewhere

LEMMA DeletionWorks ==
  ASSUME SoloInv, deletion \notin {"none", "done"}
  PROVE  Elsewhere("deletion")
BY DEF SoloInv, Elsewhere

LEMMA NobodyWorks ==
  ASSUME Handled, NEW p \in Process
  PROVE  Elsewhere(p) /\ OneTaken
BY DEF Handled, NothingOnItsWay, Elsewhere, OneTaken

(* Requests.                                                               *)
LEMMA RequestSolo ==
  ASSUME AnyInv, SoloInv, Handled, NEW x \in Intent, intents' = Append(intents, x),
         UNCHANGED <<sessionVars, worker, sender, deletion>>
  PROVE  SoloInv'
<1>1. UNCHANGED <<live, orphans, call, worker, sender, deletion>> /\ "worker" \in Process
  BY ProcessesAre DEF sessionVars
<1>2. Elsewhere("worker") /\ OthersGoOn("worker")
  BY <1>1, NobodyWorks, SameCalls
<1>3. Elsewhere("worker")'
  BY <1>1, <1>2 DEF Elsewhere, Hangs
<1>4. CallWaits("worker")' /\ Starts("worker")'
  <2>1. CallWaits("worker") /\ Starts("worker")
    BY <1>1 DEF SoloInv
  <2> QED BY <1>1, <2>1, ProcessesAre DEF CallWaits, Starts, Idle, Hangs
<1>5. OneTaken'
  <2>1. CASE Hangs("worker")
    BY <1>1, <2>1 DEF OneTaken, Hangs
  <2>2. CASE ~Hangs("worker")
    <3>1. intents = <<>> /\ worker = IdleWorker
      BY <2>2 DEF Handled, NothingOnItsWay
    <3>2. Len(intents') = 1
      BY <3>1
    <3>3. worker' = IdleWorker
      BY <1>1, <3>1, Zenon DEF IdleWorker
    <3> QED BY <3>2, <3>3 DEF OneTaken
  <2> QED BY <2>1, <2>2
<1> QED BY <1>1, <1>2, <1>3, <1>4, <1>5, SoloMoves

LEMMA DeleteSolo ==
  ASSUME AnyInv, SoloInv, Handled, DeleteThread
  PROVE  SoloInv'
<1>1. UNCHANGED <<live, orphans, call, intents, worker, sender>> /\ deletion' = "queued"
      /\ "deletion" \in Process
  BY ProcessesAre DEF DeleteThread, sessionVars
<1>2. Elsewhere("deletion") /\ OthersGoOn("deletion") /\ OneTaken
  BY <1>1, NobodyWorks, SameCalls
<1>3. Elsewhere("deletion")' /\ OneTaken'
  BY <1>1, <1>2 DEF Elsewhere, Hangs, OneTaken, IdleWorker
<1>4. deletion # "stopping"
  BY DEF Handled
<1>5. CallWaits("deletion")' /\ Starts("deletion")'
  BY <1>1, <1>4, ProcessesAre DEF SoloInv, CallWaits, Starts, Idle
<1> QED BY <1>1, <1>2, <1>3, <1>5, SoloMoves

LEMMA RequestsSolo ==
  ASSUME AnyInv, SoloInv, overlap # "all"
  PROVE  /\ \A t \in Turn : StartTurn(t) => SoloInv'
         /\ \A m \in Mode : SetMode(m) => SoloInv'
         /\ RequestInterrupt \/ RequestStop \/ DeleteThread => SoloInv'
<1>0. Undisturbed => Handled
  BY DEF Undisturbed, AtRest
<1>1. ASSUME NEW t \in Turn, StartTurn(t)  PROVE SoloInv'
  BY <1>0, <1>1, RequestSolo, IntentMade DEF StartTurn
<1>2. ASSUME NEW m \in Mode, SetMode(m)  PROVE SoloInv'
  BY <1>0, <1>2, RequestSolo, IntentMade DEF SetMode
<1>3. CASE RequestInterrupt
  BY <1>0, <1>3, RequestSolo, IntentMade DEF RequestInterrupt
<1>4. CASE RequestStop
  BY <1>0, <1>4, RequestSolo, IntentMade DEF RequestStop
<1>5. CASE DeleteThread
  BY <1>0, <1>5, DeleteSolo DEF DeleteThread
<1> QED BY <1>1, <1>2, <1>3, <1>4, <1>5

(* The command reactor.                                                    *)
LEMMA WorkerSolo ==
  ASSUME AnyInv, SoloInv, Elsewhere("worker"), OthersGoOn("worker"),
         UNCHANGED <<orphans, deletion>>, intents' = <<>>,
         UNCHANGED sender \/ (worker' = IdleWorker /\ \E t \in Turn : Fork(t)),
         worker'.pc \notin {"starting", "asking", "stopping"} => Idle("worker")',
         call'["worker"].op # "send", Starts("worker")'
  PROVE  SoloInv'
<1>1. "worker" \in Process /\ CallWaits("worker")'
  BY ProcessesAre DEF CallWaits
<1>2. OneTaken'
  BY DEF OneTaken
<1>3. \A t \in Turn : Hangs(t) => Hangs(t)'
  BY ProcessesAre DEF OthersGoOn, Hangs
<1>4. CASE UNCHANGED sender
  <2>1. Elsewhere("worker")'
    BY <1>3, <1>4 DEF Elsewhere
  <2> QED BY <1>1, <1>2, <1>4, <2>1, SoloMoves
<1>5. ASSUME NEW t \in Turn, worker' = IdleWorker, Fork(t)  PROVE SoloInv'
  <2>1. sender'[t].pc = "forked" /\ \A u \in Turn : u # t => sender'[u] = sender[u]
    <3>1. FlowTyped /\ sender' = [sender EXCEPT ![t] = [pc |-> "forked", session |-> None]]
      BY <1>5 DEF AnyInv, Fork
    <3> QED BY <3>1 DEF FlowTyped
  <2>2. t \in Process /\ t # "deletion" /\ t # "worker"
    BY ProcessesAre
  <2>3. Elsewhere(t)'
    BY <1>3, <1>5, <2>1, <2>2, ProcessesAre DEF Elsewhere
  <2>4. \A u \in Turn : u # "worker" => sender'[u] = sender[u] \/ sender'[u].pc = "forked"
    BY <2>1
  <2> QED BY <1>1, <1>2, <2>2, <2>3, <2>4, SoloMoves
<1> QED BY <1>4, <1>5

LEMMA TakesSolo ==
  ASSUME AnyInv, SoloInv, TakeIntent
  PROVE  /\ Elsewhere("worker") /\ intents' = <<>> /\ Idle("worker") /\ worker = IdleWorker
         /\ UNCHANGED <<thread, deletion>> /\ Waits
<1>1. worker = IdleWorker /\ intents # <<>> /\ intents' = Tail(intents) /\ UNCHANGED <<thread, deletion>>
  BY DEF TakeIntent
<1>2. Idle("worker") /\ ~Hangs("worker")
  BY <1>1, IdleWorkerIs, ProcessesAre, Zenon DEF SoloInv, CallWaits, Idle, Hangs
<1>3. Len(intents) = 1
  BY <1>1, <1>2 DEF SoloInv, OneTaken
<1>4. Elsewhere("worker")
  BY <1>1, <1>2 DEF SoloInv, Elsewhere
<1>5. intents' = <<>>
  <2>1. intents \in Seq(Intent)
    BY DEF AnyInv, FlowTyped
  <2> QED BY <1>1, <1>3, <2>1
<1> QED BY <1>1, <1>2, <1>4, <1>5 DEF Waits

(* What the reactor does with an intent: nothing, or a call.               *)
Starting == StartSession("worker", thread.mode) /\ worker'.pc = "starting" /\ UNCHANGED sender
Forking == UNCHANGED sessionVars /\ worker' = IdleWorker /\ \E t \in Turn : Fork(t)
Asks == Route("worker", "interrupt", None) /\ worker'.pc = "asking" /\ UNCHANGED sender
Stopping == StopSession("worker") /\ worker'.pc = "stopping" /\ UNCHANGED sender
Resting == UNCHANGED <<sessionVars, sender>> /\ worker' = IdleWorker
NotStopping == UNCHANGED <<sessionVars, sender>> /\ worker'.pc = "stopped" /\ ~hasSession

LEMMA TakeIntentDoes ==
  ASSUME AnyInv, TakeIntent
  PROVE  /\ Starting \/ Forking \/ Asks \/ Stopping \/ Resting \/ NotStopping
         /\ worker'.session = None
<1>0. /\ worker = IdleWorker /\ thread.mode \in Mode /\ IdleWorker.session = None
      /\ \A c \in {"starting", "asking", "stopping", "stopped"} :
           /\ [IdleWorker EXCEPT !.pc = c].pc = c /\ [IdleWorker EXCEPT !.pc = c].session = None
           /\ \A m \in Mode : /\ [IdleWorker EXCEPT !.pc = c, !.mode = m].pc = c
                              /\ [IdleWorker EXCEPT !.pc = c, !.mode = m].session = None
  <2>1. thread.mode \in Mode
    BY ThreadIs DEF AnyInv
  <2> QED BY <2>1 DEF TakeIntent, IdleWorker
<1>1. ASSUME NEW t \in Turn, TakeTurn(t)
      PROVE  (Starting \/ Forking) /\ worker'.session = None
  <2>1. CASE Fork(t) /\ UNCHANGED <<sessionVars, worker>>
    <3>1. worker' = IdleWorker
      BY <1>0, <2>1, Zenon
    <3> QED BY <1>0, <1>1, <2>1, <3>1 DEF Forking
  <2>2. CASE /\ StartSession("worker", thread.mode) /\ UNCHANGED sender
             /\ worker' = [pc |-> "starting", turn |-> t, mode |-> thread.mode, session |-> None]
    <3>1. worker'.pc = "starting" /\ worker'.session = None
      BY <2>2
    <3> QED BY <2>2, <3>1 DEF Starting
  <2> QED BY <1>1, <2>1, <2>2, Zenon DEF TakeTurn
<1>2. CASE Head(intents).type = "turn" /\ TakeTurn(Head(intents).turn)
  <2>1. Head(intents) \in Intent
    BY DEF TakeIntent, AnyInv, FlowTyped
  <2> QED BY <1>1, <1>2, <2>1, IntentIs
<1>3. CASE TakeMode
  <2>1. CASE hasSession /\ ~keepsSession
    <3>1. /\ StartSession("worker", thread.mode) /\ UNCHANGED sender
          /\ worker' = [IdleWorker EXCEPT !.pc = "starting", !.mode = thread.mode]
      BY <1>3, <2>1, Zenon DEF TakeMode
    <3>2. worker'.pc = "starting" /\ worker'.session = None
      BY <1>0, <3>1
    <3> QED BY <3>1, <3>2 DEF Starting
  <2>2. CASE ~(hasSession /\ ~keepsSession)
    <3>1. UNCHANGED <<sessionVars, sender>> /\ UNCHANGED worker
      BY <1>3, <2>2, Zenon DEF TakeMode
    <3>2. worker' = IdleWorker
      BY <1>0, <3>1, Zenon
    <3> QED BY <1>0, <3>1, <3>2 DEF Resting
  <2> QED BY <2>1, <2>2
<1>4. CASE TakeInterrupt
  BY <1>0, <1>4 DEF TakeInterrupt, Asks, Resting
<1>5. CASE TakeStop
  BY <1>0, <1>5 DEF TakeStop, Stopping, NotStopping
<1> QED BY <1>2, <1>3, <1>4, <1>5 DEF TakeIntent

LEMMA TakeIntentSolo == ASSUME AnyInv, SoloInv, TakeIntent  PROVE SoloInv'
<1>1. /\ Elsewhere("worker") /\ intents' = <<>> /\ Idle("worker") /\ UNCHANGED deletion
      /\ "worker" \in Process /\ SessInv /\ thread.mode \in Mode
      /\ call["worker"].op # "send"
  BY TakesSolo, ProcessesAre, ThreadIs DEF AnyInv, SoloInv, CallWaits, Reactors
<1>2. CASE Starting
  BY <1>1, <1>2, StartCalls, WorkerSolo DEF Starting, Starts
<1>3. CASE Asks
  BY <1>1, <1>3, RouteCalls, WorkerSolo DEF Asks, Starts
<1>4. CASE Stopping
  BY <1>1, <1>4, StopCalls, WorkerSolo DEF Stopping, Starts
<1>5. CASE Forking \/ Resting \/ NotStopping
  <2>1. UNCHANGED <<live, orphans, call>>
    BY <1>5 DEF Forking, Resting, NotStopping, sessionVars
  <2>2. OthersGoOn("worker") /\ Idle("worker")' /\ call'["worker"].op # "send" /\ Starts("worker")'
    BY <1>1, <2>1, SameCalls DEF Idle, Starts
  <2>3. UNCHANGED sender \/ (worker' = IdleWorker /\ \E t \in Turn : Fork(t))
    BY <1>5 DEF Forking, Resting, NotStopping
  <2> QED BY <1>1, <2>1, <2>2, <2>3, WorkerSolo
<1> QED BY <1>2, <1>3, <1>4, <1>5, TakeIntentDoes

LEMMA WorkerRestSolo ==
  ASSUME AnyInv, SoloInv,
         BindSession \/ StartFailed \/ ReportStartFailed \/ InterruptReturns \/ StopReturns \/ SetStopped
  PROVE  SoloInv' /\ UNCHANGED <<live, binding, emitted, ingest, intents, deletion, reaper>>
         /\ ~Hangs("worker") /\ ~Hangs("worker")' /\ OthersGoOn("worker")
<1>1. /\ UNCHANGED <<live, orphans, binding, emitted, ingest, intents, deletion, reaper>>
      /\ worker.pc # "idle"
      /\ "worker" \in Process
  BY ProcessesAre DEF BindSession, StartFailed, ReportStartFailed, InterruptReturns, StopReturns, SetStopped,
                      sessionVars
<1>2. ~Hangs("worker")
  <2>1. CASE Done("worker") \/ Failed("worker")
    BY <2>1 DEF Done, Failed, Hangs
  <2>2. CASE worker.pc \in {"reset", "stopped"}
    BY <1>1, <2>2 DEF SoloInv, CallWaits, Idle, Hangs
  <2> QED BY <2>1, <2>2 DEF BindSession, StartFailed, ReportStartFailed, InterruptReturns, StopReturns,
                            SetStopped
<1>3. Elsewhere("worker") /\ intents' = <<>>
  BY <1>1, <1>2, WorkerWorks
<1>4. Idle("worker")' /\ OthersGoOn("worker") /\ call'["worker"].op # "send"
  <2>1. CASE Return("worker")
    BY <1>1, <2>1, ReturnCalls DEF AnyInv
  <2>2. CASE UNCHANGED call /\ worker.pc \in {"reset", "stopped"}
    BY <1>1, <2>2, SameCalls DEF SoloInv, CallWaits, Idle, Reactors
  <2> QED BY <2>1, <2>2 DEF BindSession, StartFailed, ReportStartFailed, InterruptReturns, StopReturns,
                            SetStopped, sessionVars
<1>5. UNCHANGED sender \/ (worker' = IdleWorker /\ \E t \in Turn : Fork(t))
  <2>1. worker.turn \in Turn \cup {None}
    BY WorkerIs DEF AnyInv
  <2> QED BY <2>1, Zenon DEF BindSession, StartFailed, ReportStartFailed, InterruptReturns, StopReturns, SetStopped
<1>6. Starts("worker")'
  BY <1>4 DEF Starts, Idle
<1>7. ~Hangs("worker")'
  BY <1>4 DEF Idle, Hangs
<1> QED BY <1>1, <1>2, <1>3, <1>4, <1>5, <1>6, <1>7, WorkerSolo

(* The forked sends.                                                       *)
LEMMA SenderSolo ==
  ASSUME AnyInv, SoloInv, NEW t \in Turn, Elsewhere(t), OthersGoOn(t),
         UNCHANGED <<orphans, deletion, intents, worker>>,
         \A u \in Turn : u # t => sender'[u] = sender[u],
         sender'[t].pc # "forked", sender'[t].pc # "sending" => Idle(t)',
         Starts(t)'
  PROVE  SoloInv'
<1>1. t \in Process /\ t # "worker" /\ t # "deletion" /\ t # "reaper"
  BY ProcessesAre
<1>2. \A q \in Process : q # t /\ Hangs(q) => Hangs(q)'
  BY DEF OthersGoOn, Hangs
<1>3. Elsewhere(t)' /\ OneTaken'
  BY <1>1, <1>2, ProcessesAre DEF SoloInv, Elsewhere, OneTaken, IdleWorker
<1>4. CallWaits(t)'
  BY <1>1, ProcessesAre DEF CallWaits, Reactors
<1> QED BY <1>1, <1>3, <1>4, SoloMoves

LEMMA SendsSolo ==
  ASSUME AnyInv, SoloInv, NEW t \in Turn,
         Send(t) \/ SendReturns(t) \/ SendFails(t) \/ ReportSendFailed(t)
  PROVE  SoloInv' /\ OthersGoOn(t) /\ \A u \in Turn : u # t => sender'[u] = sender[u]
<1>0. t \in Process /\ SessInv /\ FlowTyped
  BY ProcessesAre DEF AnyInv
<1>1. UNCHANGED <<deletion, intents, worker, orphans>> /\ sender[t].pc \notin {"none", "done"} /\ ~Hangs(t)
  <2>1. CASE Send(t)
    BY <1>0, <2>1, RouteCalls DEF Send, Idle, Hangs
  <2>2. CASE SendReturns(t) \/ SendFails(t)
    BY <2>2 DEF SendReturns, SendFails, Done, Failed, Hangs
  <2>3. CASE ReportSendFailed(t)
    BY <1>0, <2>3 DEF ReportSendFailed, sessionVars, SoloInv, CallWaits, Idle, Hangs
  <2> QED BY <2>1, <2>2, <2>3
<1>2. Elsewhere(t)
  BY <1>1, SenderWorks
<1>3. /\ \A u \in Turn : u # t => sender'[u] = sender[u]
      /\ Send(t) => sender'[t].pc = "sending"
      /\ ~Send(t) => sender'[t].pc \in {"reset", "done"}
  <2>1. ASSUME NEW c \in {"sending", "done"}, sender' = [sender EXCEPT ![t].pc = c]
        PROVE  sender'[t].pc = c /\ \A u \in Turn : u # t => sender'[u] = sender[u]
    <3>1. PICK r \in SenderRecord : r = sender[t]
      BY <1>0 DEF FlowTyped
    <3>2. PICK k : k = [r EXCEPT !.pc = c]
      OBVIOUS
    <3>3. k.pc = c
      BY <3>2 DEF SenderRecord
    <3> QED BY <1>0, <2>1, <3>1, <3>2, <3>3 DEF FlowTyped
  <2>4. CASE Send(t)
    BY <2>1, <2>4 DEF Send
  <2>5. CASE SendReturns(t)
    BY <2>1, <2>5 DEF SendReturns, Send
  <2>2. CASE SendFails(t)
    <3>1. ResetSession(thread.session) \in ThreadSession \cup {None}
      BY <1>0, ThreadIs, ResetIs
    <3>2. sender' = [sender EXCEPT ![t] = [pc |-> "reset", session |-> ResetSession(thread.session)]]
          /\ ~Send(t)
      BY <2>2 DEF SendFails, Send
    <3>3. PICK s \in ThreadSession \cup {None} : s = ResetSession(thread.session)
      BY <3>1
    <3>4. sender' = [sender EXCEPT ![t] = [pc |-> "reset", session |-> s]]
      BY <3>2, <3>3
    <3>5. PICK k : k = [pc |-> "reset", session |-> s]
      OBVIOUS
    <3>6. k.pc = "reset" /\ sender \in [Turn -> SenderRecord]
      BY <1>0, <3>5 DEF FlowTyped
    <3> QED BY <3>2, <3>4, <3>5, <3>6
  <2>3. CASE ReportSendFailed(t)
    BY <1>0, <2>3, SenderMade DEF ReportSendFailed, Send
  <2> QED BY <2>2, <2>3, <2>4, <2>5
<1>4. CASE Send(t)
  <2>1. OthersGoOn(t) /\ Starts(t)'
    BY <1>0, <1>4, RouteCalls DEF Send, Starts
  <2> QED BY <1>1, <1>2, <1>3, <1>4, <2>1, SenderSolo
<1>5. CASE ~Send(t)
  <2>1. OthersGoOn(t) /\ Idle(t)'
    <3>1. CASE Return(t)
      BY <1>0, <3>1, ReturnCalls
    <3>2. CASE ReportSendFailed(t)
      BY <1>0, <3>2, SameCalls, ProcessesAre DEF ReportSendFailed, sessionVars, SoloInv, CallWaits, Idle
    <3> QED BY <1>5, <3>1, <3>2 DEF SendReturns, SendFails
  <2>2. Starts(t)'
    BY <2>1 DEF Starts, Idle
  <2> QED BY <1>1, <1>2, <1>3, <1>5, <2>1, <2>2, SenderSolo
<1> QED BY <1>4, <1>5, <1>3

(* The deletion reactor and the reaper.                                    *)
LEMMA DeletionSolo ==
  ASSUME AnyInv, SoloInv, StopDeleted \/ StopDeletedReturns
  PROVE  SoloInv' /\ OthersGoOn("deletion")
<1>0. "deletion" \in Process /\ SessInv
  BY ProcessesAre DEF AnyInv
<1>1. /\ UNCHANGED <<intents, worker, sender, orphans>>
      /\ deletion \notin {"none", "done"}
  BY <1>0, StopCalls DEF StopDeleted, StopDeletedReturns
<1>2. Elsewhere("deletion")
  BY <1>1, DeletionWorks
<1>3. /\ OthersGoOn("deletion")
      /\ deletion' # "stopping" => Idle("deletion")'
      /\ call'["deletion"].pc \in {"idle", "closing", "done", "failed"}
      /\ call'["deletion"].op # "send"
  <2>1. CASE StopDeleted
    BY <1>0, <2>1, StopCalls DEF StopDeleted
  <2>2. CASE StopDeletedReturns
    BY <1>0, <2>2, ReturnCalls DEF StopDeletedReturns, Idle
  <2> QED BY <2>1, <2>2
<1>4. CallWaits("deletion")' /\ Starts("deletion")'
  BY <1>3, ProcessesAre DEF CallWaits, Starts
<1>5. \A q \in Process : q # "deletion" /\ Hangs(q) => Hangs(q)'
  BY <1>3 DEF OthersGoOn, Hangs
<1>6. Elsewhere("deletion")' /\ OneTaken'
  BY <1>1, <1>2, <1>5, ProcessesAre DEF Elsewhere, SoloInv, OneTaken, IdleWorker
<1> QED BY <1>0, <1>1, <1>2, <1>3, <1>4, <1>6, SoloMoves

LEMMA ReaperSolo ==
  ASSUME AnyInv, SoloInv, Reap \/ ReapReturns
  PROVE  SoloInv' /\ OthersGoOn("reaper")
<1>0. "reaper" \in Process /\ SessInv /\ CallWaits("reaper")
  BY ProcessesAre DEF AnyInv, SoloInv
<1>1. CASE Reap
  <2>1. /\ live' = None /\ call'["reaper"].op = "stop" /\ call'["reaper"].pc \in {"closing", "done", "failed"}
        /\ OthersGoOn("reaper") /\ Idle("reaper") /\ UNCHANGED <<intents, worker, sender, deletion, orphans>>
    BY <1>0, <1>1, StopCalls DEF Reap
  <2> QED BY <2>1, SoloKept DEF Hangs, Idle
<1>2. CASE ReapReturns
  <2>1. /\ call'["reaper"].pc = "idle" /\ call'["reaper"].op = "none" /\ OthersGoOn("reaper")
        /\ UNCHANGED <<live, intents, worker, sender, deletion, orphans>>
    BY <1>0, <1>2, ReturnCalls DEF ReapReturns, Idle
  <2>2. CallWaits("reaper")' /\ Starts("reaper")'
    BY <2>1, ProcessesAre DEF CallWaits, Starts
  <2>3. ASSUME NEW q \in Process, q # "reaper"
        PROVE  CallWaits(q)' /\ Starts(q)' /\ (Hangs(q) => Hangs(q)')
    <3>1. call'[q] = call[q]
      BY <1>2, <2>3 DEF ReapReturns, Return, AnyInv, SessInv, SessTyped
    <3> QED BY <2>1, <2>3, <3>1, ProcessesAre DEF SoloInv, CallWaits, Starts, Idle, Hangs
  <2>4. OneTaken' /\ orphans' = 0
    BY <2>1, <2>3, ProcessesAre DEF SoloInv, OneTaken, IdleWorker
  <2>5. PICK w \in Process : Elsewhere(w)
    BY DEF SoloInv
  <2>6. Elsewhere(w)'
    BY <2>1, <2>3, <2>5, ProcessesAre DEF Elsewhere, IdleWorker
  <2> QED BY <2>1, <2>2, <2>3, <2>4, <2>6 DEF SoloInv
<1> QED BY <1>1, <1>2

LEMMA OthersSolo ==
  ASSUME AnyInv, SoloInv,
         GrowIdle \/ Sweep \/ ReadEvent \/ DispatchSession
         \/ (TurnCompletes /\ UNCHANGED <<intents, worker, sender, deletion>>)
  PROVE  SoloInv'
<1>1. UNCHANGED <<intents, worker, sender, deletion, orphans, call>> /\ (live = None => live' = None)
  BY DEF GrowIdle, Sweep, ReadEvent, DispatchSession, TurnCompletes, sessionVars
<1>2. OthersGoOn("reaper") /\ call["reaper"].pc \in {"idle", "closing", "done", "failed"}
      /\ call["reaper"].pc # "astray"
  BY <1>1, SameCalls, ProcessesAre DEF SoloInv, CallWaits
<1>3. live' = None \/ \A q \in Process : call'[q].pc # "spawning"
  BY <1>1 DEF SoloInv, Starts
<1> QED BY <1>1, <1>2, <1>3, SoloKept DEF Hangs, Idle

LEMMA NextSolo == ASSUME AnyInv, SoloInv, overlap # "all", Next  PROVE SoloInv'
<1>1. ServiceStep => SoloInv'
  BY ServiceSolo, OthersSolo DEF ServiceStep
<1> QED BY <1>1, RequestsSolo, TakeIntentSolo, WorkerRestSolo, SendsSolo, DeletionSolo, ReaperSolo,
           OthersSolo, FaultSolo
    DEF Next

-----------------------------------------------------------------------------
(* Where requests do not overlap and none is refused, whenever sweeps are. *)
(* If no request is refused, a thread is told of no turn only when none    *)
(* runs in a session that it hears of.                                     *)
TellsOfNone == {"starting", "reset", "stopping", "stopped"}
ResetIsTrue ==
  /\ worker.pc \in TellsOfNone => Hangs("worker")
  /\ \A t \in Turn : sender[t].pc # "reset" /\ call[t].pc \notin {"broken", "failed"}
  /\ intents # <<>> /\ ~Hangs("worker") => emitted = <<>> /\ ingest = None

(* The turn that runs is shown when all is told: the thread shows a turn   *)
(* or hears of one, and of no end after it.                                *)
Ends(event) == event.type \in {"turn.completed", "session.exited"}
StaysShown(events, shown) ==
  \E i \in 0..Len(events) :
    /\ IF i = 0 THEN shown # None ELSE events[i].type = "turn.started"
    /\ \A j \in (i + 1)..Len(events) : ~Ends(events[j])

IdleIsShown ==
  binding.idle => emitted = <<>> /\ ingest = None
                  /\ thread.session # None /\ thread.session.turn # None

TurnIsTold == ResetIsTrue /\ StaysShown(emitted, ShownTurn) /\ IdleIsShown

(* What is written of a session that has stopped, or to undo a start, is   *)
(* that it has no turn.                                                    *)
StoppedHasNoTurn(session) ==
  session # None /\ session.status = "stopped" => session.turn = None
HasNoTurn(session) == session # None => session.turn = None

SessionsSay ==
  /\ StoppedHasNoTurn(thread.session) /\ StoppedHasNoTurn(ingest)
  /\ HasNoTurn(worker.session) /\ \A t \in Turn : HasNoTurn(sender[t].session)

QuietInv ==
  /\ HeardTurn # None => TurnIsTold
  /\ reaper = "due" => running = None

-----------------------------------------------------------------------------
LEMMA ResetSays ==
  ASSUME NEW s \in ThreadSession \cup {None}
  PROVE  HasNoTurn(ResetSession(s))
<1>1. CASE s = None
  BY <1>1 DEF ResetSession, HasNoTurn
<1>2. CASE s # None
  <2>1. [s EXCEPT !.status = IF @ = "stopped" THEN "stopped" ELSE "ready", !.turn = None].turn = None
    BY <1>2 DEF ThreadSession
  <2> QED BY <1>2, <2>1 DEF ResetSession, HasNoTurn
<1> QED BY <1>1, <1>2

LEMMA ThreadSays ==
  ASSUME AnyInv, SessionsSay, UNCHANGED <<worker, sender, ingest>>,
         NEW s \in ThreadSession \cup {None}, StoppedHasNoTurn(s), SetThreadSession(s)
  PROVE  SessionsSay'
<1>1. thread'.session = s
  BY ThreadSet DEF AnyInv
<1> QED BY <1>1 DEF SessionsSay, StoppedHasNoTurn, HasNoTurn

LEMMA SameSays ==
  ASSUME SessionsSay, thread'.session = thread.session, UNCHANGED ingest,
         worker'.session = worker.session \/ HasNoTurn(worker'.session),
         \A t \in Turn : sender'[t].session = sender[t].session \/ HasNoTurn(sender'[t].session)
  PROVE  SessionsSay'
BY DEF SessionsSay, StoppedHasNoTurn, HasNoTurn

LEMMA NoneSays == HasNoTurn(None) /\ StoppedHasNoTurn(None) /\ HasNoTurn(IdleWorker.session)
BY DEF HasNoTurn, StoppedHasNoTurn, IdleWorker

LEMMA WorkerSays ==
  ASSUME AnyInv, SessionsSay,
         TakeIntent \/ BindSession \/ StartFailed \/ ReportStartFailed \/ InterruptReturns
           \/ StopReturns \/ SetStopped
  PROVE  SessionsSay'
<1>0. /\ FlowTyped /\ thread.mode \in Mode /\ thread.session \in ThreadSession \cup {None}
      /\ worker.session \in ThreadSession \cup {None} /\ worker.turn \in Turn \cup {None}
      /\ HasNoTurn(worker.session)
  BY ThreadIs, WorkerIs DEF AnyInv, SessionsSay
<1>1. ASSUME NEW t \in Turn, Fork(t)
      PROVE  \A u \in Turn : sender'[u].session = sender[u].session \/ HasNoTurn(sender'[u].session)
  <2>1. sender \in [Turn -> SenderRecord] /\ sender' = [sender EXCEPT ![t] = [pc |-> "forked", session |-> None]]
    BY <1>0, <1>1 DEF FlowTyped, Fork
  <2> QED BY <2>1, NoneSays
<1>2. CASE TakeIntent
  <2>1. worker'.session = None /\ UNCHANGED <<thread, ingest>>
    BY <1>2, TakeIntentDoes DEF TakeIntent
  <2>2. UNCHANGED sender \/ \E t \in Turn : Fork(t)
    BY <1>2, TakeIntentDoes DEF Starting, Forking, Asks, Stopping, Resting, NotStopping
  <2> QED BY <1>1, <2>1, <2>2, NoneSays, SameSays
<1>3. CASE BindSession
  <2>1. PICK s : s = [status |-> "ready", mode |-> worker.mode, turn |-> None]
    OBVIOUS
  <2>2. SetThreadSession(s) /\ worker' = IdleWorker /\ UNCHANGED ingest
        /\ (UNCHANGED sender \/ \E t \in Turn : Fork(t)) /\ worker.mode \in Mode
    BY <1>0, <1>3, <2>1 DEF BindSession, AnyInv, WorkerFits
  <2>3. s \in ThreadSession /\ s.turn = None
    BY <2>1, <2>2, ThreadSessionMade
  <2>4. thread'.session = s
    BY <1>0, <2>2, <2>3, ThreadSet
  <2> QED BY <1>1, <2>2, <2>3, <2>4, NoneSays DEF SessionsSay, StoppedHasNoTurn
<1>4. CASE StartFailed
  <2>1. HasNoTurn(ResetSession(thread.session)) /\ ResetSession(thread.session) \in ThreadSession \cup {None}
    BY <1>0, ResetSays, ResetIs
  <2>2. HasNoTurn(worker'.session)
    <3>1. PICK r \in ThreadSession \cup {None} : r = ResetSession(thread.session)
      BY <2>1
    <3>2. CASE worker.turn = None
      <4>1. worker' = IdleWorker
        BY <1>4, <3>2 DEF StartFailed
      <4> QED BY <4>1, NoneSays, Zenon
    <3>3. CASE worker.turn # None
      <4>1. worker' = [worker EXCEPT !.pc = "reset", !.session = r] /\ worker \in WorkerRecord
        BY <1>0, <1>4, <3>1, <3>3 DEF StartFailed, FlowTyped
      <4>2. worker'.session = r
        BY <4>1 DEF WorkerRecord
      <4> QED BY <2>1, <3>1, <4>2
    <3> QED BY <3>2, <3>3
  <2> QED BY <1>4, <2>2, SameSays DEF StartFailed
<1>5. CASE ReportStartFailed
  <2>1. worker' = IdleWorker /\ UNCHANGED <<sender, ingest>>
    BY <1>5 DEF ReportStartFailed
  <2>2. CASE worker.session = None
    BY <1>5, <2>1, <2>2, NoneSays, SameSays, Zenon DEF ReportStartFailed
  <2>3. CASE worker.session # None
    <3>1. thread'.session = worker.session
      BY <1>0, <1>5, <2>3, ThreadSet DEF ReportStartFailed
    <3> QED BY <1>0, <2>1, <3>1, NoneSays DEF SessionsSay, StoppedHasNoTurn, HasNoTurn
  <2> QED BY <2>2, <2>3
<1>6. CASE InterruptReturns \/ StopReturns
  <2>1. /\ UNCHANGED <<thread, sender, ingest>>
        /\ worker' = IdleWorker \/ worker' = [IdleWorker EXCEPT !.pc = "stopped"]
    BY <1>6 DEF InterruptReturns, StopReturns
  <2>2. worker'.session = None
    BY <2>1 DEF IdleWorker
  <2> QED BY <2>1, <2>2, NoneSays, SameSays
<1>7. CASE SetStopped
  <2>1. PICK m : m = IF thread.session = None THEN FullAccess ELSE thread.session.mode
    OBVIOUS
  <2>2. m \in Mode
    BY <1>0, <2>1, ThreadSessionIs, TurnFlowAssumption
  <2>3. PICK s : s = [status |-> "stopped", turn |-> None, mode |-> m]
    OBVIOUS
  <2>4. SetThreadSession(s) /\ worker' = IdleWorker /\ UNCHANGED <<sender, ingest>>
    BY <1>7, <2>1, <2>3 DEF SetStopped
  <2>5. s \in ThreadSession /\ s.turn = None
    BY <2>2, <2>3 DEF ThreadSession
  <2>6. thread'.session = s
    BY <1>0, <2>4, <2>5, ThreadSet
  <2> QED BY <2>4, <2>5, <2>6, NoneSays DEF SessionsSay, StoppedHasNoTurn
<1> QED BY <1>2, <1>3, <1>4, <1>5, <1>6, <1>7

LEMMA SendsSay ==
  ASSUME AnyInv, SessionsSay, NEW t \in Turn,
         Send(t) \/ SendReturns(t) \/ SendFails(t) \/ ReportSendFailed(t)
  PROVE  SessionsSay'
<1>0. /\ sender \in [Turn -> SenderRecord] /\ FlowTyped /\ HasNoTurn(sender[t].session)
      /\ thread.session \in ThreadSession \cup {None} /\ sender[t].session \in ThreadSession \cup {None}
  BY ThreadIs, SenderIs DEF AnyInv, FlowTyped, SessionsSay
<1>1. ASSUME NEW c, sender' = [sender EXCEPT ![t].pc = c]
      PROVE  \A u \in Turn : sender'[u].session = sender[u].session
  <2>1. PICK r \in SenderRecord : r = sender[t]
    BY <1>0
  <2>2. PICK k : k = [r EXCEPT !.pc = c]
    OBVIOUS
  <2>3. k.session = r.session
    BY <2>2 DEF SenderRecord
  <2> QED BY <1>0, <1>1, <2>1, <2>2, <2>3
<1>2. ASSUME NEW c, NEW s, HasNoTurn(s), sender' = [sender EXCEPT ![t] = [pc |-> c, session |-> s]]
      PROVE  \A u \in Turn : sender'[u].session = sender[u].session \/ HasNoTurn(sender'[u].session)
  <2>1. PICK k : k = [pc |-> c, session |-> s]
    OBVIOUS
  <2>2. k.session = s
    BY <2>1
  <2> QED BY <1>0, <1>2, <2>1, <2>2
<1>3. CASE Send(t) \/ SendReturns(t)
  BY <1>1, <1>3, SameSays DEF Send, SendReturns
<1>4. CASE SendFails(t)
  <2>1. HasNoTurn(ResetSession(thread.session))
    BY <1>0, ResetSays
  <2>2. sender' = [sender EXCEPT ![t] = [pc |-> "reset", session |-> ResetSession(thread.session)]]
        /\ UNCHANGED <<thread, worker, ingest>>
    BY <1>4 DEF SendFails
  <2> QED BY <1>2, <2>1, <2>2, SameSays
<1>5. CASE ReportSendFailed(t)
  <2>1. /\ sender' = [sender EXCEPT ![t] = [pc |-> "done", session |-> None]]
        /\ UNCHANGED <<worker, ingest>>
    BY <1>5 DEF ReportSendFailed
  <2>2. \A u \in Turn : sender'[u].session = sender[u].session \/ HasNoTurn(sender'[u].session)
    BY <1>2, <2>1, NoneSays
  <2>3. CASE sender[t].session = None
    BY <1>5, <2>1, <2>2, <2>3, SameSays DEF ReportSendFailed
  <2>4. CASE sender[t].session # None
    <3>1. thread'.session = sender[t].session
      BY <1>0, <1>5, <2>4, ThreadSet DEF ReportSendFailed
    <3> QED BY <1>0, <2>1, <2>2, <3>1 DEF SessionsSay, StoppedHasNoTurn, HasNoTurn
  <2> QED BY <2>3, <2>4
<1> QED BY <1>3, <1>4, <1>5

LEMMA IngestSays ==
  ASSUME AnyInv, SessionsSay, ReadEvent \/ DispatchSession
  PROVE  SessionsSay'
<1>1. CASE ReadEvent
  <2>1. PICK e \in RuntimeEvent, t \in Turn \cup {None}, m \in Mode :
          ingest' = IF Applies(e, t) THEN NextSession(e, t, m) ELSE None
    BY <1>1, ReadEventDoes
  <2>2. StoppedHasNoTurn(ingest')
    BY <2>1, NextIs DEF StoppedHasNoTurn
  <2>3. UNCHANGED <<thread, worker, sender>>
    BY <1>1 DEF ReadEvent
  <2> QED BY <2>2, <2>3 DEF SessionsSay, StoppedHasNoTurn
<1>2. CASE DispatchSession
  <2>1. SetThreadSession(ingest) /\ ingest' = None /\ UNCHANGED <<worker, sender>>
        /\ ingest \in ThreadSession \cup {None}
    BY <1>2 DEF DispatchSession, AnyInv, FlowTyped
  <2>2. thread'.session = ingest
    BY <2>1, ThreadSet DEF AnyInv
  <2> QED BY <2>1, <2>2 DEF SessionsSay, StoppedHasNoTurn
<1> QED BY <1>1, <1>2

LEMMA NextSays == ASSUME AnyInv, SessionsSay, Next  PROVE SessionsSay'
<1>1. CASE thread'.session = thread.session /\ UNCHANGED <<worker, sender, ingest>>
  BY <1>1, SameSays
<1>2. ASSUME NEW m \in Mode, SetMode(m)
      PROVE  thread'.session = thread.session /\ UNCHANGED <<worker, sender, ingest>>
  BY <1>2 DEF SetMode, AnyInv, FlowTyped, ThreadRecord
<1>3. CASE DeleteThread
  BY <1>1, <1>3 DEF DeleteThread, AnyInv, FlowTyped, ThreadRecord
<1>4. CASE \/ \E t \in Turn : StartTurn(t)
           \/ RequestInterrupt \/ RequestStop \/ StopDeleted \/ StopDeletedReturns
           \/ GrowIdle \/ Sweep \/ Reap \/ ReapReturns \/ ServiceStep \/ Fault
  BY <1>1, <1>4 DEF StartTurn, RequestInterrupt, RequestStop, StopDeleted, StopDeletedReturns,
                    GrowIdle, Sweep, Reap, ReapReturns, ServiceStep, Fault
<1> QED BY <1>1, <1>2, <1>3, <1>4, WorkerSays, SendsSay, IngestSays DEF Next

-----------------------------------------------------------------------------
LEMMA HeardSame == UNCHANGED live => HeardTurn' = HeardTurn
BY DEF HeardTurn

LEMMA HeardNone == live' = None => HeardTurn' = None
BY DEF HeardTurn

(* Nothing that tells of the turn happens.                                 *)
LEMMA ToldKept ==
  ASSUME TurnIsTold, UNCHANGED <<emitted, ingest>>, thread'.session = thread.session,
         binding'.idle => binding.idle,
         Hangs("worker") => Hangs("worker")',
         worker'.pc \in TellsOfNone => worker' = worker,
         \A t \in Turn : sender'[t].pc # "reset" /\ call'[t].pc \notin {"broken", "failed"},
         intents' = <<>> \/ (emitted = <<>> /\ ingest = None) \/ UNCHANGED intents
  PROVE  TurnIsTold'
<1>1. ResetIsTrue'
  BY DEF TurnIsTold, ResetIsTrue
<1>2. ShownTurn' = ShownTurn
  BY DEF ShownTurn
<1>3. StaysShown(emitted, ShownTurn)'
  BY <1>2 DEF TurnIsTold, StaysShown, Ends
<1>4. IdleIsShown'
  BY DEF TurnIsTold, IdleIsShown
<1> QED BY <1>1, <1>3, <1>4 DEF TurnIsTold

(* The turns of others wait for nothing that could fail.                   *)
LEMMA OtherTurns ==
  ASSUME SoloInv, TurnIsTold, NEW p \in Process, Elsewhere(p), OthersGoOn(p)
  PROVE  \A t \in Turn : t # p => call'[t].pc \notin {"broken", "failed"}
<1>1. ASSUME NEW t \in Turn, t # p  PROVE call'[t].pc \notin {"broken", "failed"}
  <2>1. call[t].pc \in {"idle", "hung"} /\ t \in Process
    BY <1>1, WhoCalls, ProcessesAre
  <2> QED BY <1>1, <2>1 DEF OthersGoOn
<1> QED BY <1>1

LEMMA ShownWhenTold ==
  ASSUME TurnIsTold, emitted = <<>>, ingest = None
  PROVE  thread.session # None /\ thread.session.turn # None
BY DEF TurnIsTold, StaysShown, ShownTurn

(* Requests.                                                               *)
LEMMA RequestsTold ==
  ASSUME AnyInv, TurnIsTold, overlap # "all",
         (\E t \in Turn : StartTurn(t)) \/ (\E m \in Mode : SetMode(m))
           \/ RequestInterrupt \/ RequestStop \/ DeleteThread
  PROVE  TurnIsTold'
<1>1. emitted = <<>> /\ ingest = None
  BY DEF StartTurn, SetMode, RequestInterrupt, RequestStop, DeleteThread, Undisturbed, AtRest, Handled
<1>2. UNCHANGED <<emitted, ingest, binding, call, worker, sender>>
  BY DEF StartTurn, SetMode, RequestInterrupt, RequestStop, DeleteThread, sessionVars
<1>3. thread'.session = thread.session
  BY DEF StartTurn, SetMode, RequestInterrupt, RequestStop, DeleteThread, AnyInv, FlowTyped, ThreadRecord
<1>4. \A t \in Turn : sender[t].pc # "reset" /\ call[t].pc \notin {"broken", "failed"}
  BY DEF TurnIsTold, ResetIsTrue
<1> QED BY <1>1, <1>2, <1>3, <1>4, ToldKept DEF Hangs

(* The command reactor.                                                    *)
LEMMA TakeIntentTold ==
  ASSUME AnyInv, SessionsSay, SoloInv, HeardTurn # None => TurnIsTold, TakeIntent
  PROVE  HeardTurn' # None => TurnIsTold'
<1>1. /\ Elsewhere("worker") /\ intents' = <<>> /\ Idle("worker") /\ worker = IdleWorker
      /\ UNCHANGED <<thread, ingest>> /\ intents # <<>> /\ "worker" \in Process /\ SessInv
  BY TakesSolo, ProcessesAre DEF AnyInv, TakeIntent
<1>2. ASSUME UNCHANGED <<live, emitted, binding>>, OthersGoOn("worker"), worker'.pc \notin TellsOfNone,
             UNCHANGED sender \/ \E t \in Turn : Fork(t)
      PROVE  HeardTurn' # None => TurnIsTold'
  <2>1. SUFFICES ASSUME TurnIsTold  PROVE TurnIsTold'
    BY <1>2, HeardSame
  <2>2. \A t \in Turn : call'[t].pc \notin {"broken", "failed"}
    BY <1>1, <1>2, <2>1, OtherTurns, ProcessesAre
  <2>3. \A t \in Turn : sender'[t].pc # "reset"
    BY <1>2, <2>1 DEF TurnIsTold, ResetIsTrue, Fork, AnyInv, FlowTyped
  <2>4. ~Hangs("worker")
    BY <1>1 DEF Idle, Hangs
  <2> QED BY <1>1, <1>2, <2>1, <2>2, <2>3, <2>4, ToldKept
<1>3. CASE Starting
  BY <1>1, <1>3, StartCalls, HeardNone, ThreadIs DEF Starting, AnyInv
<1>4. CASE Stopping
  BY <1>1, <1>4, StopCalls, HeardNone DEF Stopping
<1>5. CASE Asks
  <2>1. /\ live' = None \/ UNCHANGED <<live, emitted>>
        /\ OthersGoOn("worker") /\ UNCHANGED binding
    BY <1>1, <1>5, RouteCalls DEF Asks
  <2>2. worker'.pc \notin TellsOfNone /\ UNCHANGED sender
    BY <1>5 DEF Asks, TellsOfNone
  <2> QED BY <1>2, <2>1, <2>2, HeardNone
<1>6. CASE Forking \/ Resting
  <2>1. UNCHANGED <<live, emitted, binding, call>> /\ worker' = IdleWorker
        /\ (UNCHANGED sender \/ \E t \in Turn : Fork(t))
    BY <1>6 DEF Forking, Resting, sessionVars
  <2>2. worker'.pc \notin TellsOfNone
    BY <2>1, IdleWorkerIs, Zenon DEF TellsOfNone
  <2> QED BY <1>2, <2>1, <2>2, SameCalls
<1>7. CASE NotStopping
  <2>1. UNCHANGED live /\ ~hasSession
    BY <1>7 DEF NotStopping, sessionVars
  <2>2. ASSUME TurnIsTold  PROVE FALSE
    <3>1. emitted = <<>> /\ ingest = None
      BY <1>1, <2>2 DEF TurnIsTold, ResetIsTrue, Idle, Hangs
    <3>2. thread.session # None /\ thread.session.turn # None
      BY <2>2, <3>1, ShownWhenTold
    <3> QED BY <2>1, <3>2 DEF SessionsSay, StoppedHasNoTurn, hasSession
  <2> QED BY <2>1, <2>2, HeardSame
<1> QED BY <1>3, <1>4, <1>5, <1>6, <1>7, TakeIntentDoes

LEMMA WorkerRestTold ==
  ASSUME AnyInv, SoloInv, HeardTurn # None => TurnIsTold,
         BindSession \/ StartFailed \/ ReportStartFailed \/ InterruptReturns \/ StopReturns \/ SetStopped
  PROVE  HeardTurn' # None => TurnIsTold'
<1>1. /\ UNCHANGED <<live, binding, emitted, ingest, intents>>
      /\ ~Hangs("worker") /\ OthersGoOn("worker") /\ "worker" \in Process
  BY WorkerRestSolo, ProcessesAre
<1>2. SUFFICES ASSUME TurnIsTold  PROVE TurnIsTold'
  BY <1>1, HeardSame
<1>3. worker.pc \notin TellsOfNone
  BY <1>1, <1>2 DEF TurnIsTold, ResetIsTrue
<1>4. InterruptReturns
  BY <1>3 DEF BindSession, StartFailed, ReportStartFailed, StopReturns, SetStopped, TellsOfNone
<1>5. UNCHANGED <<thread, sender>> /\ worker' = IdleWorker /\ worker.pc = "asking"
  BY <1>4 DEF InterruptReturns
<1>6. Elsewhere("worker")
  BY <1>1, <1>5, WorkerWorks
<1>7. \A t \in Turn : sender'[t].pc # "reset" /\ call'[t].pc \notin {"broken", "failed"}
  BY <1>1, <1>2, <1>5, <1>6, OtherTurns, ProcessesAre DEF TurnIsTold, ResetIsTrue
<1>8. worker'.pc \notin TellsOfNone
  BY <1>5, IdleWorkerIs, Zenon DEF TellsOfNone
<1> QED BY <1>1, <1>2, <1>5, <1>7, <1>8, ToldKept

(* The forked sends.                                                       *)
LEMMA SendsTold ==
  ASSUME AnyInv, SoloInv, HeardTurn # None => TurnIsTold, NEW t \in Turn,
         Send(t) \/ SendReturns(t) \/ SendFails(t) \/ ReportSendFailed(t)
  PROVE  HeardTurn' # None => TurnIsTold'
<1>0. /\ t \in Process /\ t # "worker" /\ SessInv /\ FlowTyped /\ "worker" \in Process
      /\ OthersGoOn(t) /\ \A u \in Turn : u # t => sender'[u] = sender[u]
  BY ProcessesAre, SendsSolo DEF AnyInv
<1>1. Hangs("worker") => Hangs("worker")'
  BY <1>0 DEF OthersGoOn, Hangs
<1>2. ASSUME TurnIsTold  PROVE ~SendFails(t) /\ ~ReportSendFailed(t)
  BY <1>2 DEF TurnIsTold, ResetIsTrue, SendFails, ReportSendFailed, Failed
<1>3. ASSUME Send(t) \/ SendReturns(t), UNCHANGED <<live, emitted, binding>>,
             call'[t].pc \notin {"broken", "failed"}, sender'[t].pc # "reset"
      PROVE  HeardTurn' # None => TurnIsTold'
  <2>1. SUFFICES ASSUME TurnIsTold  PROVE TurnIsTold'
    BY <1>3, HeardSame
  <2>2. UNCHANGED <<thread, intents, worker, ingest>> /\ sender[t].pc \notin {"none", "done"} /\ ~Hangs(t)
    <3>1. CASE Send(t)
      BY <1>0, <3>1, RouteCalls DEF Send, Idle, Hangs
    <3>2. CASE SendReturns(t)
      BY <3>2 DEF SendReturns, Done, Hangs
    <3> QED BY <1>3, <3>1, <3>2
  <2>3. Elsewhere(t)
    BY <2>2, SenderWorks
  <2>4. \A u \in Turn : sender'[u].pc # "reset" /\ call'[u].pc \notin {"broken", "failed"}
    BY <1>0, <1>3, <2>1, <2>3, OtherTurns DEF TurnIsTold, ResetIsTrue
  <2> QED BY <1>1, <1>3, <2>1, <2>2, <2>4, ToldKept
<1>4. CASE Send(t)
  <2>1. /\ live' = None \/ (UNCHANGED <<live, emitted>> /\ call'[t].pc \in {"asking", "hung", "done"})
        /\ UNCHANGED binding
    BY <1>0, <1>4, RouteCalls DEF Send
  <2>2. sender'[t].pc # "reset"
    BY <1>0, <1>4 DEF Send, FlowTyped, SenderRecord
  <2> QED BY <1>3, <1>4, <2>1, <2>2, HeardNone
<1>5. CASE SendReturns(t)
  <2>1. UNCHANGED <<live, emitted, binding>> /\ Idle(t)'
    BY <1>0, <1>5, ReturnCalls DEF SendReturns
  <2>2. sender'[t].pc # "reset"
    BY <1>0, <1>5 DEF SendReturns, FlowTyped, SenderRecord
  <2> QED BY <1>3, <1>5, <2>1, <2>2 DEF Idle
<1>6. CASE SendFails(t) \/ ReportSendFailed(t)
  <2>1. UNCHANGED live
    BY <1>6 DEF SendFails, ReportSendFailed, sessionVars
  <2> QED BY <1>2, <1>6, <2>1, HeardSame
<1> QED BY <1>4, <1>5, <1>6

(* The deletion reactor and the reaper.                                    *)
LEMMA StoppersTold ==
  ASSUME AnyInv, SoloInv, HeardTurn # None => TurnIsTold,
         StopDeleted \/ StopDeletedReturns \/ Reap \/ ReapReturns
  PROVE  HeardTurn' # None => TurnIsTold'
<1>0. SessInv /\ "deletion" \in Process /\ "reaper" \in Process /\ "worker" \in Process
  BY ProcessesAre DEF AnyInv
<1>1. CASE StopDeleted
  BY <1>0, <1>1, StopCalls, HeardNone DEF StopDeleted
<1>2. CASE Reap
  BY <1>0, <1>2, StopCalls, HeardNone DEF Reap
<1>3. ASSUME NEW p \in {"deletion", "reaper"}, Return(p),
             UNCHANGED <<live, binding, emitted, thread, intents, worker, sender, ingest>>
      PROVE  HeardTurn' # None => TurnIsTold'
  <2>1. SUFFICES ASSUME TurnIsTold  PROVE TurnIsTold'
    BY <1>3, HeardSame
  <2>2. \A q \in Process : q # p => call'[q] = call[q]
    BY <1>3 DEF Return, AnyInv, SessInv, SessTyped
  <2>3. Hangs("worker") => Hangs("worker")'
    BY <1>0, <1>3, <2>2 DEF Hangs
  <2>4. \A t \in Turn : sender'[t].pc # "reset" /\ call'[t].pc \notin {"broken", "failed"}
    BY <1>3, <2>1, <2>2, ProcessesAre DEF TurnIsTold, ResetIsTrue
  <2> QED BY <1>3, <2>1, <2>3, <2>4, ToldKept
<1>4. CASE StopDeletedReturns
  BY <1>3, <1>4 DEF StopDeletedReturns
<1>5. CASE ReapReturns
  BY <1>3, <1>5 DEF ReapReturns
<1> QED BY <1>1, <1>2, <1>4, <1>5

LEMMA IdleTold ==
  ASSUME AnyInv, TurnIsTold, GrowIdle \/ Sweep
  PROVE  TurnIsTold'
<1>1. /\ UNCHANGED <<emitted, ingest, thread, worker, sender, call, intents>>
      /\ \A t \in Turn : sender[t].pc # "reset" /\ call[t].pc \notin {"broken", "failed"}
  BY DEF GrowIdle, Sweep, sessionVars, TurnIsTold, ResetIsTrue
<1>2. CASE Sweep
  BY <1>1, <1>2, ToldKept DEF Sweep, sessionVars, Hangs
<1>3. CASE GrowIdle
  <2>1. emitted = <<>> /\ ingest = None
    BY <1>3 DEF GrowIdle, Handled
  <2>2. IdleIsShown'
    BY <1>1, <2>1, ShownWhenTold DEF IdleIsShown
  <2>3. ResetIsTrue'
    BY <1>1 DEF TurnIsTold, ResetIsTrue, Hangs
  <2>4. ShownTurn' = ShownTurn
    BY <1>1 DEF ShownTurn
  <2>5. StaysShown(emitted, ShownTurn)'
    BY <1>1, <2>4 DEF TurnIsTold, StaysShown, Ends
  <2> QED BY <2>2, <2>3, <2>5 DEF TurnIsTold
<1> QED BY <1>2, <1>3

(* The ingestion.                                                          *)
LEMMA ReadEventTold ==
  ASSUME AnyInv, TurnIsTold, ReadEvent
  PROVE  TurnIsTold'
<1>1. /\ emitted # <<>> /\ ingest = None /\ emitted' = Tail(emitted) /\ emitted \in Seq(RuntimeEvent)
      /\ UNCHANGED <<binding, call, thread, intents, worker, sender>>
  BY DEF ReadEvent, AnyInv, SessInv, SessTyped
<1>2. PICK e \in RuntimeEvent, t \in Turn \cup {None}, m \in Mode :
        /\ e = emitted[1] /\ t = ShownTurn
        /\ t = (IF thread.session = None THEN None ELSE thread.session.turn)
        /\ ingest' = IF Applies(e, t) THEN NextSession(e, t, m) ELSE None
  <2>1. PICK e \in RuntimeEvent, t \in Turn \cup {None}, m \in Mode :
          /\ e = Head(emitted) /\ t = IF thread.session = None THEN None ELSE thread.session.turn
          /\ ingest' = IF Applies(e, t) THEN NextSession(e, t, m) ELSE None
    BY ReadEventDoes
  <2>2. Head(emitted) = emitted[1] /\ t = ShownTurn
    BY <1>1, <2>1 DEF ShownTurn
  <2> QED BY <2>1, <2>2
<1>3. ResetIsTrue' /\ IdleIsShown'
  BY <1>1 DEF TurnIsTold, ResetIsTrue, IdleIsShown, Hangs
<1>4. ShownTurn' = IF Applies(e, t) THEN NextSession(e, t, m).turn ELSE t
  <2>1. NextSession(e, t, m) # None
    BY NextIs, ThreadSessionIs
  <2> QED BY <1>1, <1>2, <2>1 DEF ShownTurn
<1>5. /\ ~Ends(e) /\ t # None => ShownTurn' # None
      /\ e.type = "turn.started" => ShownTurn' # None
  <2>1. e.type = "turn.started" => e.turn \in Turn /\ e.turn # None
    BY EventIs, TurnFlowAssumption
  <2>2. e.type \in {"session.started", "session.exited", "turn.started", "turn.completed"}
    BY EventIs
  <2>3. NextSession(e, t, m).turn = IF e.type = "turn.started" THEN e.turn
                                    ELSE IF e.type = "session.started" THEN t ELSE None
    BY NextIs
  <2> QED BY <1>4, <2>1, <2>2, <2>3 DEF Applies, Ends
<1>6. /\ Len(emitted') = Len(emitted) - 1 /\ Len(emitted) \in Nat /\ Len(emitted) >= 1
      /\ \A j \in 1..Len(emitted') : emitted'[j] = emitted[j + 1]
  BY <1>1
<1>7. PICK i \in 0..Len(emitted) :
        /\ IF i = 0 THEN ShownTurn # None ELSE emitted[i].type = "turn.started"
        /\ \A j \in (i + 1)..Len(emitted) : ~Ends(emitted[j])
  BY DEF TurnIsTold, StaysShown
<1>8. CASE i = 0
  <2>1. t # None /\ ~Ends(e)
    BY <1>2, <1>6, <1>7, <1>8
  <2>2. \A j \in 1..Len(emitted') : ~Ends(emitted'[j])
    BY <1>6, <1>7, <1>8
  <2>3. ShownTurn' # None /\ 0 \in 0..Len(emitted')
    BY <1>5, <1>6, <2>1
  <2> QED BY <1>3, <2>2, <2>3 DEF TurnIsTold, StaysShown, Ends
<1>9. CASE i = 1
  <2>1. ShownTurn' # None /\ 0 \in 0..Len(emitted')
    BY <1>2, <1>5, <1>6, <1>7, <1>9
  <2>2. ASSUME NEW j \in 1..Len(emitted')  PROVE ~Ends(emitted'[j])
    <3>1. PICK k \in (i + 1)..Len(emitted) : k = j + 1
      BY <1>6, <1>9, <2>2
    <3>2. ~Ends(emitted[k]) /\ emitted'[j] = emitted[k]
      BY <1>6, <1>7, <2>2, <3>1
    <3> QED BY <3>2
  <2> QED BY <1>3, <2>1, <2>2 DEF TurnIsTold, StaysShown, Ends
<1>10. CASE i > 1
  <2>1. PICK k \in 1..Len(emitted') : k = i - 1
    BY <1>6, <1>7, <1>10
  <2>2. emitted'[k].type = "turn.started" /\ k # 0 /\ k \in 0..Len(emitted')
    BY <1>6, <1>7, <1>10, <2>1
  <2>3. \A j \in (k + 1)..Len(emitted') : ~Ends(emitted'[j])
    BY <1>6, <1>7, <2>1
  <2> QED BY <1>3, <2>2, <2>3 DEF TurnIsTold, StaysShown, Ends
<1> QED BY <1>8, <1>9, <1>10

LEMMA DispatchTold ==
  ASSUME AnyInv, TurnIsTold, DispatchSession
  PROVE  TurnIsTold'
<1>1. /\ ingest # None /\ ingest' = None /\ SetThreadSession(ingest) /\ ingest \in ThreadSession \cup {None}
      /\ UNCHANGED <<binding, call, emitted, intents, worker, sender>>
  BY DEF DispatchSession, sessionVars, AnyInv, FlowTyped
<1>2. thread'.session = ingest
  BY <1>1, ThreadSet DEF AnyInv
<1>3. ResetIsTrue' /\ IdleIsShown'
  BY <1>1 DEF TurnIsTold, ResetIsTrue, IdleIsShown, Hangs
<1>4. ShownTurn' = ShownTurn
  BY <1>1, <1>2 DEF ShownTurn
<1>5. StaysShown(emitted, ShownTurn)'
  BY <1>1, <1>4 DEF TurnIsTold, StaysShown, Ends
<1> QED BY <1>3, <1>5 DEF TurnIsTold

(* The service and the provider.                                           *)
LEMMA AcceptedTold ==
  ASSUME AnyInv, SoloInv, NEW p \in Process, TurnAccepted(p),
         UNCHANGED <<intents, worker, sender>>
  PROVE  HeardTurn' # None => TurnIsTold'
<1>1. /\ call[p].pc = "asking" /\ call[p].op = "send" /\ live \in Session
      /\ call[p].turn \in Turn /\ SessInv
  BY DEF TurnAccepted, AnyInv, SessInv, SessTyped, CallFits
<1>2. p \in Turn /\ Elsewhere(p) /\ p # "worker" /\ "worker" \in Process
  <2>1. p \in Turn
    BY <1>1, ProcessesAre DEF SoloInv, CallWaits, Reactors
  <2>2. PICK w \in Process : Elsewhere(w)
    BY DEF SoloInv
  <2>3. p = w
    BY <1>1, <2>1, <2>2, ProcessesAre, WhoCalls
  <2> QED BY <2>1, <2>2, <2>3, ProcessesAre
<1>3. /\ call'[p].pc = "done" /\ \A q \in Process : q # p => call'[q] = call[q]
  BY <1>1, CallsMove DEF TurnAccepted, SessInv, SessTyped
<1>4. (worker = IdleWorker /\ intents = <<>>) \/ Hangs("worker")'
  BY <1>2, <1>3 DEF Elsewhere, Hangs
<1>5. ASSUME NEW t \in Turn  PROVE sender[t].pc # "reset" /\ call'[t].pc \notin {"broken", "failed"}
  <2>1. CallWaits(t) /\ t \in Process
    BY ProcessesAre DEF SoloInv
  <2>2. CASE t = p
    BY <1>1, <1>3, <2>1, <2>2 DEF CallWaits, Idle
  <2>3. CASE t # p
    <3>1. call[t].pc \in {"idle", "hung"} /\ call'[t].pc = call[t].pc
      BY <1>2, <1>3, <2>1, <2>3, WhoCalls, ProcessesAre
    <3>2. sender[t].pc \in {"none", "done"} \/ Hangs(t)
      BY <1>2, <2>3 DEF Elsewhere
    <3> QED BY <2>1, <3>1, <3>2 DEF CallWaits, Hangs, Idle
  <2> QED BY <2>2, <2>3
<1>6. ResetIsTrue'
  <2>1. IdleWorker.pc \notin TellsOfNone
    BY IdleWorkerIs DEF TellsOfNone
  <2> QED BY <1>4, <1>5, <2>1 DEF ResetIsTrue
<1>7. ~binding'.idle
  BY <1>1, Upserted DEF TurnAccepted
<1>8. IdleIsShown'
  BY <1>7 DEF IdleIsShown
<1>9. CASE live.by \in Turn
  <2>1. live' = [live EXCEPT !.turn = call[p].turn]
    BY DEF TurnAccepted
  <2>2. live'.by = live.by
    BY <1>1, <2>1, SessionTurn
  <2> QED BY <1>9, <2>2 DEF HeardTurn
<1>10. CASE live.by \notin Turn
  <2>1. PICK x : x = [type |-> "turn.started", turn |-> call[p].turn]
    OBVIOUS
  <2>2. x \in RuntimeEvent /\ x.type = "turn.started"
    BY <1>1, <2>1, EventMade
  <2>3. EndOfTurn \in Seq(RuntimeEvent) /\ emitted \in Seq(RuntimeEvent)
    BY <1>1, EndOfTurnIs DEF SessInv, SessTyped
  <2>4. emitted' = emitted \o (EndOfTurn \o <<x>>)
    BY <1>10, <2>1 DEF TurnAccepted, Emit
  <2>5. PICK es \in Seq(RuntimeEvent) : es = EndOfTurn \o <<x>> /\ Len(es) >= 1 /\ es[Len(es)] = x
    <3>1. PICK es : es = EndOfTurn \o <<x>>
      OBVIOUS
    <3>2. PICK l \in Nat : l = Len(EndOfTurn)
      BY <2>3
    <3>3. es \in Seq(RuntimeEvent) /\ Len(es) = l + 1
      BY <2>2, <2>3, <3>1, <3>2
    <3>4. es[l + 1] = x
      BY <2>2, <2>3, <3>1, <3>2
    <3> QED BY <3>1, <3>2, <3>3, <3>4
  <2>6. PICK n \in Nat : n = Len(emitted') /\ n >= 1
    BY <2>3, <2>4, <2>5
  <2>7. emitted'[n] = x
    BY <2>3, <2>4, <2>5, <2>6
  <2>8. n \in 0..Len(emitted') /\ n # 0 /\ emitted'[n].type = "turn.started"
        /\ \A j \in (n + 1)..Len(emitted') : ~Ends(emitted'[j])
    BY <2>2, <2>6, <2>7
  <2>9. StaysShown(emitted, ShownTurn)'
    BY <2>8 DEF StaysShown, Ends
  <2> QED BY <1>6, <1>8, <2>9 DEF TurnIsTold
<1> QED BY <1>9, <1>10

LEMMA ServiceTold ==
  ASSUME AnyInv, SoloInv, HeardTurn # None => TurnIsTold, ServiceStep
  PROVE  HeardTurn' # None => TurnIsTold'
<1>0. SessInv /\ call \in [Process -> CallRecord] /\ live \in Session \cup {None}
      /\ UNCHANGED <<thread, intents, worker, sender, ingest, deletion>>
  BY DEF ServiceStep, AnyInv, SessInv, SessTyped
<1>1. ASSUME NEW p \in Process, NEW k \in {"done", "failed"}, call[p].pc \notin {"idle", "hung"},
             k = "failed" => call[p].pc = "broken",
             call' = [call EXCEPT ![p].pc = k], UNCHANGED <<live, emitted>>, binding'.idle => binding.idle
      PROVE  HeardTurn' # None => TurnIsTold'
  <2>1. SUFFICES ASSUME TurnIsTold  PROVE TurnIsTold'
    BY <1>1, HeardSame
  <2>2. /\ call'[p].pc = k /\ \A q \in Process : q # p => call'[q] = call[q]
    BY <1>0, <1>1, CallsMove
  <2>3. Hangs("worker") => Hangs("worker")'
    BY <1>1, <2>2, ProcessesAre DEF Hangs
  <2>4. p \in Turn => k = "done"
    BY <1>1, <2>1 DEF TurnIsTold, ResetIsTrue
  <2>5. \A t \in Turn : sender'[t].pc # "reset" /\ call'[t].pc \notin {"broken", "failed"}
    BY <1>0, <2>1, <2>2, <2>4, ProcessesAre DEF TurnIsTold, ResetIsTrue
  <2> QED BY <1>0, <1>1, <2>1, <2>3, <2>5, ToldKept
<1>2. ASSUME NEW p \in Process, Resume(p)  PROVE HeardTurn' # None => TurnIsTold'
  <2>1. CASE Spawned(p)
    BY <1>0, <2>1, SpawnedSolo
  <2>2. CASE Closed(p)
    <3>1. ~binding'.idle
      BY <1>0, <2>2, Upserted DEF Closed
    <3> QED BY <1>1, <2>2, <3>1 DEF Closed
  <2>3. CASE TurnAccepted(p)
    BY <1>0, <2>3, AcceptedTold
  <2>4. CASE Interrupted(p)
    <3>1. live \in Session /\ live' = [live EXCEPT !.turn = None]
      BY <1>0, <2>4 DEF Interrupted, SessInv, CallFits
    <3>2. live'.turn = None
      BY <3>1, SessionTurn
    <3> QED BY <3>2 DEF HeardTurn
  <2>5. CASE Refused(p)
    BY <1>1, <2>5 DEF Refused
  <2>6. ~AnsweredAstray(p)
    BY DEF AnsweredAstray, SoloInv, Starts
  <2> QED BY <1>2, <2>1, <2>2, <2>3, <2>4, <2>5, <2>6 DEF Resume
<1>3. CASE TurnCompletes
  <2>1. live \in Session /\ live' = [live EXCEPT !.turn = None]
    BY <1>0, <1>3 DEF TurnCompletes
  <2>2. live'.turn = None
    BY <2>1, SessionTurn
  <2> QED BY <2>2 DEF HeardTurn
<1> QED BY <1>2, <1>3 DEF ServiceStep

LEMMA FaultTold ==
  ASSUME AnyInv, Fault, used'["faults"] = 0
  PROVE  HeardTurn' = None
<1>1. ProcessDies
  <2>1. ~Use("faults")
    BY UsedGrows DEF AnyInv, Bounded
  <2> QED BY <2>1 DEF Fault
<1>2. live \in Session
  BY <1>1 DEF ProcessDies, AnyInv, SessInv, SessTyped
<1>3. CASE live' = None
  BY <1>3, HeardNone
<1>4. CASE live' = [live EXCEPT !.alive = FALSE, !.turn = None]
  <2>1. live'.turn = None
    BY <1>2, <1>4, SessionDead
  <2> QED BY <2>1 DEF HeardTurn
<1> QED BY <1>1, <1>3, <1>4 DEF ProcessDies

LEMMA NextTold ==
  ASSUME AnyInv, SessionsSay, SoloInv, HeardTurn # None => TurnIsTold, overlap # "all", Next,
         used'["faults"] = 0
  PROVE  HeardTurn' # None => TurnIsTold'
<1>1. CASE (\E t \in Turn : StartTurn(t)) \/ (\E m \in Mode : SetMode(m))
             \/ RequestInterrupt \/ RequestStop \/ DeleteThread
  <2>1. UNCHANGED live
    BY <1>1 DEF StartTurn, SetMode, RequestInterrupt, RequestStop, DeleteThread, sessionVars
  <2> QED BY <1>1, <2>1, RequestsTold, HeardSame
<1>2. CASE GrowIdle \/ Sweep \/ ReadEvent \/ DispatchSession
  <2>1. UNCHANGED live
    BY <1>2 DEF GrowIdle, Sweep, ReadEvent, DispatchSession, sessionVars
  <2> QED BY <1>2, <2>1, IdleTold, ReadEventTold, DispatchTold, HeardSame
<1> QED BY <1>1, <1>2, TakeIntentTold, WorkerRestTold, SendsTold, StoppersTold, ServiceTold, FaultTold
    DEF Next

LEMMA NextQuiet ==
  ASSUME AnyInv, SessionsSay, SoloInv, QuietInv, overlap # "all", Next, used'["faults"] = 0
  PROVE  QuietInv'
<1>1. HeardTurn' # None => TurnIsTold'
  BY NextTold DEF QuietInv
<1>2. ASSUME reaper = "idle", reaper' = "due"  PROVE running' = None
  <2>1. Sweep /\ running' = HeardTurn
    BY <1>2 DEF Next, StartTurn, SetMode, RequestInterrupt, RequestStop, DeleteThread, TakeIntent,
        BindSession, StartFailed, ReportStartFailed, InterruptReturns, StopReturns, SetStopped, Send,
        SendReturns, SendFails, ReportSendFailed, StopDeleted, StopDeletedReturns, GrowIdle, Reap,
        ReapReturns, ReadEvent, DispatchSession, ServiceStep, Fault
  <2>2. ~(HeardTurn # None)
    BY <2>1 DEF Sweep, QuietInv, TurnIsTold, IdleIsShown
  <2> QED BY <2>1, <2>2
<1>3. ASSUME reaper # "idle", reaper' = "due"  PROVE reaper = "due" /\ running' = running
  BY <1>3 DEF Next, StartTurn, SetMode, RequestInterrupt, RequestStop, DeleteThread, TakeIntent,
      BindSession, StartFailed, ReportStartFailed, InterruptReturns, StopReturns, SetStopped, Send,
      SendReturns, SendFails, ReportSendFailed, StopDeleted, StopDeletedReturns, GrowIdle, Sweep, Reap,
      ReapReturns, ReadEvent, DispatchSession, ServiceStep, Fault
<1> QED BY <1>1, <1>2, <1>3 DEF QuietInv

-----------------------------------------------------------------------------
(* All of it together.                                                     *)
IInv ==
  /\ AnyInv /\ SessionsSay
  /\ overlap = "none" /\ NothingFails => CalmInv
  /\ overlap # "all" => SoloInv
  /\ overlap # "all" /\ used["faults"] = 0 => QuietInv

LEMMA UsedCounts ==
  ASSUME AnyInv, Next
  PROVE  UNCHANGED used \/ \E k \in Bounded : Use(k)
<1>1. CASE Fault
  BY <1>1 DEF Fault, Bounded
<1>2. CASE ~Fault
  BY <1>2 DEF Next, StartTurn, Send, SendReturns, SendFails, ReportSendFailed, SetMode,
              RequestInterrupt, RequestStop, DeleteThread, TakeIntent, BindSession, StartFailed,
              ReportStartFailed, InterruptReturns, StopReturns, SetStopped, StopDeleted,
              StopDeletedReturns, GrowIdle, Sweep, Reap, ReapReturns, ReadEvent, DispatchSession,
              ServiceStep, engineVars, Bounded
<1> QED BY <1>1, <1>2

LEMMA FailuresCount ==
  ASSUME AnyInv, Next
  PROVE  /\ NothingFails' => NothingFails /\ ~Fault
         /\ used'["faults"] = 0 => used["faults"] = 0
<1>1. used \in [Bounded -> Nat] /\ FlowTyped
  BY DEF AnyInv, FlowTyped
<1>2. used'["deaths"] >= used["deaths"] /\ used'["faults"] >= used["faults"]
  <2>1. CASE UNCHANGED used
    BY <1>1, <2>1 DEF Bounded
  <2>2. CASE \E k \in Bounded : Use(k)
    BY <1>1, <2>2, UsedGrows DEF Bounded
  <2> QED BY <2>1, <2>2, UsedCounts
<1>3. used["deaths"] \in Nat /\ used["faults"] \in Nat
  BY <1>1 DEF Bounded
<1>4. NothingFails' => ~Fault
  <2>1. ASSUME NEW k \in {"deaths", "faults"}, Use(k), NothingFails'  PROVE FALSE
    <3>1. used'[k] > 0
      BY <1>1, <2>1, UsedGrows DEF Bounded
    <3> QED BY <2>1, <3>1 DEF NothingFails
  <2> QED BY <2>1 DEF Fault
<1> QED BY <1>2, <1>3, <1>4 DEF NothingFails

LEMMA NextInv == ASSUME IInv, Next  PROVE IInv'
<1>0. AnyInv /\ SessionsSay /\ overlap' = overlap
  BY DEF IInv, Next
<1>1. AnyInv' /\ SessionsSay'
  BY <1>0, NextAny, NextSays
<1>2. ASSUME (overlap = "none")', NothingFails'  PROVE CalmInv'
  BY <1>0, <1>2, FailuresCount, NextCalm DEF IInv
<1>3. ASSUME (overlap # "all")'  PROVE SoloInv'
  BY <1>0, <1>3, NextSolo DEF IInv
<1>4. ASSUME (overlap # "all")', used'["faults"] = 0  PROVE QuietInv'
  BY <1>0, <1>4, FailuresCount, NextQuiet DEF IInv
<1> QED BY <1>1, <1>2, <1>3, <1>4 DEF IInv

LEMMA StillInv == ASSUME IInv, UNCHANGED <<overlap, vars, running>>  PROVE IInv'
<1>1. AnyInv'
  BY StillAny DEF IInv
<1>2. UNCHANGED <<overlap, used, live, orphans, binding, call, emitted, thread, intents, worker,
                  sender, deletion, reaper, ingest, stopped>>
  BY DEF vars
<1>3. CalmInv => CalmInv'
  <2>1. CalmInv => OneAtATime' /\ CallsAreKnown' /\ (Spawning' <=> Spawning)
    BY <1>2, SameRest
  <2>2. CalmInv => LiveFits' /\ TurnsFollow' /\ StatusFollows' /\ (Waits => Undone)'
    BY <1>2 DEF CalmInv, LiveFits, TurnsFollow, StatusFollows, ShownTurn, ShownStopped, LiveTurn,
                Spawning, Done, Waits, Undone, hasSession
  <2>3. CalmInv => StopKept'
    BY <1>2 DEF CalmInv, StopKept, StopComes, Waits
  <2> QED BY <2>1, <2>2, <2>3 DEF CalmInv
<1>4. SessionsSay => SessionsSay'
  BY <1>2 DEF SessionsSay, StoppedHasNoTurn, HasNoTurn
<1>5. SoloInv => SoloInv'
  BY <1>2 DEF SoloInv, Elsewhere, OneTaken, CallWaits, Starts, Idle, Hangs, IdleWorker
<1>6. QuietInv => QuietInv'
  <2>1. UNCHANGED running
    OBVIOUS
  <2> QED BY <1>2, <2>1 DEF QuietInv, HeardTurn, TurnIsTold, ResetIsTrue, StaysShown, ShownTurn,
                            IdleIsShown, Ends, Hangs
<1> QED BY <1>1, <1>2, <1>3, <1>4, <1>5, <1>6 DEF IInv, NothingFails

LEMMA InitInv == ASSUME Init  PROVE IInv
<1>1. AnyInv
  BY InitAny
<1>2. /\ live = None /\ orphans = 0 /\ emitted = <<>> /\ intents = <<>> /\ worker = IdleWorker
      /\ worker.pc = "idle" /\ deletion = "none" /\ reaper = "idle" /\ ingest = None /\ ~stopped
      /\ \A p \in Process : Idle(p)
      /\ \A t \in Turn : sender[t].pc = "none"
  BY NoCallIs, IdleWorkerIs, Zenon DEF Init, SessionsInit, Idle
<1>3. thread.session = None
  BY DEF Init
<1>4. OneAtATime
  BY <1>2, ProcessesAre DEF OneAtATime, Busy
<1>5. CallsAreKnown
  BY <1>2, ProcessesAre DEF CallsAreKnown, WorkerCalls, StopperCalls, SenderCalls
<1>6. LiveFits
  BY <1>2 DEF LiveFits, Spawning
<1>7. TurnsFollow /\ StatusFollows
  BY <1>2, <1>3 DEF TurnsFollow, StatusFollows, LeadTo, EndStopped, ShownTurn, ShownStopped, LiveTurn
<1>8. (Waits => Undone) /\ StopKept
  BY <1>2 DEF Waits, StopKept
<1>9. SessionsSay
  <2>1. \A t \in Turn : sender[t].session = None
    BY DEF Init
  <2> QED BY <1>2, <1>3, <2>1, NoneSays DEF SessionsSay
<1>10. SoloInv
  <2>1. \A p \in Process : Elsewhere(p)
    BY <1>2 DEF Elsewhere
  <2>2. \A p \in Process : CallWaits(p) /\ Starts(p)
    BY <1>2, NoCallIs, ProcessesAre DEF Init, SessionsInit, CallWaits, Starts, Idle, Reactors
  <2> QED BY <1>2, <2>1, <2>2, ProcessesAre DEF SoloInv, OneTaken
<1>11. QuietInv
  BY <1>2 DEF QuietInv, HeardTurn
<1> QED BY <1>1, <1>4, <1>5, <1>6, <1>7, <1>8, <1>9, <1>10, <1>11 DEF IInv, CalmInv

(* What it says of the properties.                                         *)
LEMMA InvHolds == ASSUME IInv  PROVE SessionsAreTrue
<1>1. TypeOK
  BY TypesAre DEF IInv, AnyInv, SessInv
<1>2. ASSUME overlap = "none", NothingFails  PROVE StopHolds /\ RunningIsKnown
  <2>1. AnyInv /\ CalmInv
    BY <1>2 DEF IInv
  <2>2. orphans = 0 /\ (live # None => binding.status = "running")
    BY <2>1 DEF CalmInv, LiveFits
  <2>3. ASSUME AtRest, stopped
        PROVE  live = None /\ thread.session # None /\ thread.session.status = "stopped"
    <3>1. live = None /\ thread.session # None /\ (hasSession <=> live # None)
      BY <2>1, <2>3, RestSays
    <3> QED BY <3>1 DEF hasSession
  <2> QED BY <2>2, <2>3 DEF StopHolds, RunningIsKnown
<1>3. overlap # "all" => EverySessionIsListed
  BY DEF IInv, SoloInv, EverySessionIsListed
<1> QED BY <1>1, <1>2, <1>3 DEF SessionsAreTrue

LEMMA ReapIsIdle == ASSUME IInv, overlap # "all", used["faults"] = 0  PROVE ReapsIdle
BY DEF IInv, QuietInv, Reap, ReapsIdle

LEMMA StepInv == ASSUME IInv, [MCNext]_allVars  PROVE IInv'
<1>1. CASE Next
  BY <1>1, NextInv
<1>2. CASE UNCHANGED <<overlap, vars, running>>
  BY <1>2, StillInv
<1> QED BY <1>1, <1>2 DEF MCNext, allVars

LEMMA IsInvariant == MCSpec => []IInv
<1>1. MCInit => IInv
  BY InitInv DEF MCInit
<1>2. IInv /\ [MCNext]_allVars => IInv'
  BY StepInv
<1> QED BY <1>1, <1>2, PTL DEF MCSpec

(* For any turns, modes and bounds: all that is kept is of its type; as    *)
(* long as requests do not overlap one another, whatever fails and         *)
(* whenever the reaper sweeps, no provider process is lost; and as long as *)
(* sweeps wait as well and nothing fails, when all is quiet after a stop   *)
(* nothing runs and the thread says so, and what runs is marked in the     *)
(* directory (ProviderCommandReactor.processSessionStopRequested,          *)
(* ProviderService.startSession, CodexAdapter.startSession).               *)
THEOREM SessionsStayTrue == MCSpec => []SessionsAreTrue
BY IsInvariant, InvHolds, PTL

(* For any turns and modes, whatever dies and whenever the reaper sweeps:  *)
(* as long as requests do not overlap one another and none is refused, the *)
(* reaper takes no turn that ran when it read the thread, but only one     *)
(* that began since (ProviderSessionReaper.sweep).                         *)
THEOREM ReaperTakesIdle ==
  MCSpec => [][overlap # "all" /\ used["faults"] = 0 => ReapsIdle]_allVars
<1>1. IInv /\ [MCNext]_allVars => [overlap # "all" /\ used["faults"] = 0 => ReapsIdle]_allVars
  BY ReapIsIdle
<1> QED BY <1>1, IsInvariant, PTL DEF MCSpec

-----------------------------------------------------------------------------
(* The answer: what the ingestion keeps, with texts of at most n deltas.   *)
MessageName == Nat \X Nat
Text(n) == Seq(1..n)
MessageRow(n) == [id : MessageName, text : Text(n), streaming : BOOLEAN]
Texts(n) == UNION {[ids -> Text(n)] : ids \in SUBSET MessageName}
SegmentRecord == [number : Nat, next : Nat]
Ingestion(n) ==
  [remembered : Seq(MessageName), buffer : Texts(n), active : MessageName,
   segment : SegmentRecord, messages : Seq(MessageRow(n)), failAt : Nat, failed : BOOLEAN]

NoMessage == Answer!NoMessage
Known(ids, id) == \E i \in 1..Len(ids) : ids[i] = id
OnceEach(ids) == \A i, j \in 1..Len(ids) : ids[i] = ids[j] => i = j
OneRowEach(rows) == \A i, j \in 1..Len(rows) : rows[i].id = rows[j].id => i = j
Row(rows, id) == \E i \in 1..Len(rows) : rows[i].id = id
Streaming(rows) == {rows[i].id : i \in {j \in 1..Len(rows) : rows[j].streaming}}

(* Whatever fails: what is buffered is not too much, and what is buffered  *)
(* or streams will be found.                                               *)
Kept(s) ==
  /\ OneRowEach(s.messages)
  /\ OnceEach(s.remembered)
  /\ \A id \in DOMAIN s.buffer : Len(s.buffer[id]) \in 1..MaxBuffer /\ Known(s.remembered, id)
StreamsKnown(s) == \A id \in Streaming(s.messages) : Known(s.remembered, id)
ActiveKnown(s) == s.active # NoMessage => Known(s.remembered, s.active)

Flag == BOOLEAN
Opens == TRUE
Closes == FALSE

(* A dispatch will fail, or has failed; or none does.                      *)
Armed(s) == s.failed \/ s.failAt > 0
Unarmed(s) == ~s.failed /\ s.failAt = 0

SameNames(r, s) ==
  r.remembered = s.remembered /\ r.active = s.active /\ r.segment = s.segment
SameTexts(r, s) == r.buffer = s.buffer
Follows(r, s) == (Armed(s) => Armed(r)) /\ (Unarmed(s) => Unarmed(r))

-----------------------------------------------------------------------------
(* What the records are made of.                                           *)
LEMMA IngestionIs ==
  ASSUME NEW n, NEW s \in Ingestion(n)
  PROVE  /\ s.remembered \in Seq(MessageName) /\ s.buffer \in Texts(n) /\ s.active \in MessageName
         /\ s.segment \in SegmentRecord /\ s.messages \in Seq(MessageRow(n))
         /\ s.failAt \in Nat /\ s.failed \in BOOLEAN
BY DEF Ingestion

LEMMA NewNames ==
  ASSUME NEW n, NEW s \in Ingestion(n), NEW v \in Seq(MessageName),
         NEW new, new = [s EXCEPT !.remembered = v]
  PROVE  /\ new \in Ingestion(n) /\ new.remembered = v
         /\ new.buffer = s.buffer /\ new.active = s.active /\ new.segment = s.segment
         /\ new.messages = s.messages /\ new.failAt = s.failAt /\ new.failed = s.failed
BY DEF Ingestion

LEMMA NewTexts ==
  ASSUME NEW n, NEW s \in Ingestion(n), NEW v \in Texts(n),
         NEW new, new = [s EXCEPT !.buffer = v]
  PROVE  /\ new \in Ingestion(n) /\ new.buffer = v
         /\ new.remembered = s.remembered /\ new.active = s.active /\ new.segment = s.segment
         /\ new.messages = s.messages /\ new.failAt = s.failAt /\ new.failed = s.failed
BY DEF Ingestion

LEMMA NewActive ==
  ASSUME NEW n, NEW s \in Ingestion(n), NEW v \in MessageName,
         NEW new, new = [s EXCEPT !.active = v]
  PROVE  /\ new \in Ingestion(n) /\ new.active = v
         /\ new.remembered = s.remembered /\ new.buffer = s.buffer /\ new.segment = s.segment
         /\ new.messages = s.messages /\ new.failAt = s.failAt /\ new.failed = s.failed
BY DEF Ingestion

LEMMA NewFailed ==
  ASSUME NEW n, NEW s \in Ingestion(n), NEW v \in BOOLEAN,
         NEW new, new = [s EXCEPT !.failed = v]
  PROVE  /\ new \in Ingestion(n) /\ new.failed = v
         /\ new.remembered = s.remembered /\ new.buffer = s.buffer /\ new.active = s.active
         /\ new.segment = s.segment /\ new.messages = s.messages /\ new.failAt = s.failAt
BY DEF Ingestion

LEMMA NewRows ==
  ASSUME NEW n, NEW s \in Ingestion(n), NEW v \in Seq(MessageRow(n)), NEW k \in Nat,
         NEW new, new = [s EXCEPT !.messages = v, !.failAt = k]
  PROVE  /\ new \in Ingestion(n) /\ new.messages = v /\ new.failAt = k
         /\ new.remembered = s.remembered /\ new.buffer = s.buffer /\ new.active = s.active
         /\ new.segment = s.segment /\ new.failed = s.failed
BY DEF Ingestion

LEMMA TextsAre ==
  ASSUME NEW n, NEW b \in Texts(n)
  PROVE  DOMAIN b \subseteq MessageName /\ \A id \in DOMAIN b : b[id] \in Text(n)
BY DEF Texts

LEMMA TextsMade ==
  ASSUME NEW n, NEW ids \in SUBSET MessageName, NEW b \in [ids -> Text(n)]
  PROVE  b \in Texts(n)
BY DEF Texts

LEMMA NothingTyped == NoMessage \in MessageName /\ \A n : <<>> \in Text(n)
BY DEF NoMessage, Answer!NoMessage, MessageName, Text

LEMMA MoreDeltas ==
  ASSUME NEW n \in Nat, NEW m \in Nat, n <= m
  PROVE  /\ Text(n) \subseteq Text(m)
         /\ Ingestion(n) \subseteq Ingestion(m)
<1>1. 1..n \subseteq 1..m
  OBVIOUS
<1>2. Text(n) \subseteq Text(m)
  BY <1>1 DEF Text
<1>3. MessageRow(n) \subseteq MessageRow(m)
  BY <1>2 DEF MessageRow
<1>4. Seq(MessageRow(n)) \subseteq Seq(MessageRow(m))
  BY <1>3
<1>5. Texts(n) \subseteq Texts(m)
  <2> SUFFICES ASSUME NEW b \in Texts(n)  PROVE b \in Texts(m)
    OBVIOUS
  <2>1. PICK ids \in SUBSET MessageName : b \in [ids -> Text(n)]
    BY DEF Texts
  <2>2. b \in [ids -> Text(m)]
    BY <2>1, <1>2
  <2> QED BY <2>2 DEF Texts
<1> QED BY <1>2, <1>4, <1>5 DEF Ingestion

LEMMA RowIs ==
  ASSUME NEW n, NEW rows \in Seq(MessageRow(n)), NEW i \in 1..Len(rows)
  PROVE  /\ rows[i] \in MessageRow(n) /\ rows[i].id \in MessageName /\ rows[i].text \in Text(n)
         /\ rows[i].streaming \in BOOLEAN
<1>1. rows[i] \in MessageRow(n)
  OBVIOUS
<1> QED BY <1>1 DEF MessageRow

-----------------------------------------------------------------------------
(* What the parts of a handler do.                                         *)
LEMMA NoRow ==
  ASSUME NEW n, NEW rows \in Seq(MessageRow(n)), NEW id
  PROVE  DOMAIN rows = 1..Len(rows) /\ (Answer!IsMessage(rows, id) <=> Row(rows, id))
<1>1. DOMAIN rows = 1..Len(rows)
  OBVIOUS
<1> QED BY <1>1 DEF Answer!IsMessage, Row

LEMMA SentAppends ==
  ASSUME NEW n, NEW rows \in Seq(MessageRow(n)), NEW id \in MessageName, NEW text \in Text(n),
         NEW streaming \in Flag, ~Row(rows, id), OneRowEach(rows),
         NEW new, new = Answer!Sent(rows, id, text, streaming)
  PROVE  /\ new \in Seq(MessageRow(n)) /\ Len(new) = Len(rows) + 1 /\ OneRowEach(new)
         /\ \A i \in 1..Len(rows) : new[i] = rows[i]
         /\ new[Len(new)].id = id /\ new[Len(new)].text = text
         /\ new[Len(new)].streaming = streaming
<1> DEFINE row == [id |-> id, text |-> text, streaming |-> streaming]
<1>1. row \in MessageRow(n) /\ row.id = id /\ row.text = text /\ row.streaming = streaming
  BY DEF MessageRow, Flag
<1>2. new = Append(rows, row)
  BY NoRow, Zenon DEF Answer!Sent
<1> HIDE DEF row
<1>3. /\ new \in Seq(MessageRow(n)) /\ Len(new) = Len(rows) + 1
      /\ \A i \in 1..Len(rows) : new[i] = rows[i]
      /\ new[Len(new)] = row
  BY <1>1, <1>2
<1>4. OneRowEach(new)
  BY <1>1, <1>3 DEF OneRowEach, Row
<1> QED BY <1>1, <1>3, <1>4

LEMMA SentExtends ==
  ASSUME NEW n, NEW rows \in Seq(MessageRow(n)), NEW id \in MessageName, NEW text \in Text(n),
         NEW streaming \in Flag, Row(rows, id), OneRowEach(rows),
         NEW new, new = Answer!Sent(rows, id, text, streaming)
  PROVE  /\ new \in Seq(MessageRow(n)) /\ Len(new) = Len(rows) /\ OneRowEach(new)
         /\ \A i \in 1..Len(rows) : new[i].id = rows[i].id
         /\ \A i \in 1..Len(rows) : rows[i].id # id => new[i] = rows[i]
         /\ \A i \in 1..Len(rows) : rows[i].id = id =>
              new[i].text = rows[i].text \o text /\ new[i].streaming = streaming
<1> DEFINE Changed(m) == [m EXCEPT !.text = @ \o text, !.streaming = streaming]
<1>1. new = [i \in 1..Len(rows) |-> IF rows[i].id # id THEN rows[i] ELSE Changed(rows[i])]
  BY NoRow, Zenon DEF Answer!Sent
<1>2. ASSUME NEW m \in MessageRow(n)
      PROVE  /\ Changed(m) \in MessageRow(n) /\ Changed(m).id = m.id
             /\ Changed(m).text = m.text \o text /\ Changed(m).streaming = streaming
  <2>1. m.text \in Text(n)
    BY DEF MessageRow
  <2>2. m.text \o text \in Text(n)
    BY <2>1 DEF Text
  <2> QED BY <2>2 DEF MessageRow, Flag
<1> HIDE DEF Changed
<1>3. \A i \in 1..Len(rows) : rows[i] \in MessageRow(n)
  OBVIOUS
<1>4. new \in Seq(MessageRow(n)) /\ Len(new) = Len(rows)
  <2>1. new \in [1..Len(rows) -> MessageRow(n)]
    BY <1>1, <1>2, <1>3
  <2> QED BY <2>1, <1>1
<1>5. \A i \in 1..Len(rows) : new[i].id = rows[i].id
  BY <1>1, <1>2, <1>3
<1>6. OneRowEach(new)
  BY <1>4, <1>5 DEF OneRowEach
<1>7. \A i \in 1..Len(rows) : rows[i].id # id => new[i] = rows[i]
  BY <1>1
<1>8. \A i \in 1..Len(rows) : rows[i].id = id => new[i] = Changed(rows[i])
  BY <1>1
<1>9. \A i \in 1..Len(rows) : rows[i].id = id =>
        new[i].text = rows[i].text \o text /\ new[i].streaming = streaming
  <2>1. ASSUME NEW i \in 1..Len(rows), rows[i].id = id
        PROVE  new[i].text = rows[i].text \o text /\ new[i].streaming = streaming
    <3>1. PICK m \in MessageRow(n) : m = rows[i]
      BY <1>3
    <3>2. new[i] = Changed(m)
      BY <1>8, <2>1, <3>1
    <3> QED BY <1>2, <3>1, <3>2
  <2> QED BY <2>1
<1> QED BY <1>4, <1>5, <1>6, <1>7, <1>9

(* Only the message that is told changes, and whether it streams.          *)
LEMMA SentStreams ==
  ASSUME NEW n, NEW rows \in Seq(MessageRow(n)), NEW id \in MessageName, NEW text \in Text(n),
         NEW streaming \in Flag, OneRowEach(rows),
         NEW new, new = Answer!Sent(rows, id, text, streaming)
  PROVE  /\ new \in Seq(MessageRow(n)) /\ OneRowEach(new)
         /\ streaming = Opens => Streaming(new) = Streaming(rows) \cup {id}
         /\ streaming = Closes => Streaming(new) = Streaming(rows) \ {id}
<1>1. CASE Row(rows, id)
  <2>1. /\ new \in Seq(MessageRow(n)) /\ Len(new) = Len(rows) /\ OneRowEach(new)
        /\ \A i \in 1..Len(rows) : new[i].id = rows[i].id
        /\ \A i \in 1..Len(rows) : rows[i].id # id => new[i] = rows[i]
        /\ \A i \in 1..Len(rows) : rows[i].id = id => new[i].streaming = streaming
    BY <1>1, SentExtends
  <2>2. PICK k \in 1..Len(rows) : rows[k].id = id
    BY <1>1 DEF Row
  <2> QED BY <2>1, <2>2 DEF Streaming, Opens, Closes
<1>2. CASE ~Row(rows, id)
  <2>1. /\ new \in Seq(MessageRow(n)) /\ Len(new) = Len(rows) + 1 /\ OneRowEach(new)
        /\ \A i \in 1..Len(rows) : new[i] = rows[i]
        /\ new[Len(new)].id = id
        /\ new[Len(new)].streaming = streaming
    BY <1>2, SentAppends
  <2>2. \A i \in 1..Len(rows) : rows[i].id # id
    BY <1>2 DEF Row
  <2>3. Len(rows) \in Nat
    OBVIOUS
  <2>4. 1..Len(new) = 1..Len(rows) \cup {Len(new)}
    BY <2>1, <2>3
  <2> QED BY <2>1, <2>2, <2>3, <2>4 DEF Streaming, Opens, Closes
<1> QED BY <1>1, <1>2

LEMMA SentOpens ==
  ASSUME NEW n, NEW rows \in Seq(MessageRow(n)), NEW id \in MessageName, NEW text \in Text(n),
         NEW streaming \in Flag, streaming = Opens, OneRowEach(rows),
         NEW new, new = Answer!Sent(rows, id, text, streaming)
  PROVE  /\ new \in Seq(MessageRow(n)) /\ OneRowEach(new)
         /\ Streaming(new) = Streaming(rows) \cup {id}
BY SentStreams

LEMMA SentCloses ==
  ASSUME NEW n, NEW rows \in Seq(MessageRow(n)), NEW id \in MessageName, NEW text \in Text(n),
         NEW streaming \in Flag, streaming = Closes, OneRowEach(rows),
         NEW new, new = Answer!Sent(rows, id, text, streaming)
  PROVE  /\ new \in Seq(MessageRow(n)) /\ OneRowEach(new)
         /\ Streaming(new) = Streaming(rows) \ {id}
BY SentStreams

LEMMA DispatchTells ==
  ASSUME NEW n, NEW s \in Ingestion(n), NEW id \in MessageName, NEW text \in Text(n),
         NEW streaming \in Flag, OneRowEach(s.messages),
         NEW rows, rows = Answer!Sent(s.messages, id, text, streaming),
         NEW new, new = Answer!Dispatch(s, id, text, streaming)
  PROVE  /\ new \in Ingestion(n) /\ SameNames(new, s) /\ SameTexts(new, s) /\ Follows(new, s)
         /\ \/ new.failed /\ new.messages = s.messages
            \/ new.messages = rows
<1>1. s.messages \in Seq(MessageRow(n)) /\ s.failAt \in Nat /\ s.failed \in BOOLEAN
  BY IngestionIs
<1>2. CASE s.failed
  <2>1. new = s
    BY <1>2 DEF Answer!Dispatch
  <2> QED BY <1>2, <2>1 DEF SameNames, SameTexts, Follows
<1>3. CASE ~s.failed /\ s.failAt = 1
  <2>1. PICK v \in BOOLEAN : v /\ new = [s EXCEPT !.failed = v]
    BY <1>3 DEF Answer!Dispatch
  <2>3. /\ new \in Ingestion(n)
        /\ new.failed /\ new.remembered = s.remembered /\ new.buffer = s.buffer
        /\ new.active = s.active /\ new.segment = s.segment /\ new.messages = s.messages
    BY <2>1 DEF Ingestion
  <2> QED BY <1>3, <2>3 DEF SameNames, SameTexts, Follows, Armed, Unarmed
<1>4. CASE ~s.failed /\ s.failAt # 1
  <2>1. PICK k : /\ k = IF s.failAt = 0 THEN 0 ELSE s.failAt - 1
                 /\ new = [s EXCEPT !.messages = rows, !.failAt = k]
    BY <1>4, Zenon DEF Answer!Dispatch
  <2>2. rows \in Seq(MessageRow(n)) /\ k \in Nat /\ (k = 0 <=> s.failAt = 0)
    BY <1>1, <1>4, <2>1, SentStreams
  <2>4. /\ new \in Ingestion(n)
        /\ new.remembered = s.remembered /\ new.buffer = s.buffer /\ new.active = s.active
        /\ new.segment = s.segment /\ new.messages = rows /\ new.failAt = k
        /\ new.failed = s.failed
    BY <2>1, <2>2 DEF Ingestion
  <2>5. k > 0 <=> s.failAt > 0
    BY <1>1, <2>2
  <2> QED BY <1>4, <2>1, <2>2, <2>4, <2>5 DEF SameNames, SameTexts, Follows, Armed, Unarmed
<1> QED BY <1>2, <1>3, <1>4

(* Telling a message that is remembered keeps everything.                  *)
LEMMA DispatchOpens ==
  ASSUME NEW n, NEW s \in Ingestion(n), NEW id \in MessageName, NEW text \in Text(n),
         NEW streaming \in Flag, streaming = Opens,
         Kept(s), NEW new, new = Answer!Dispatch(s, id, text, streaming)
  PROVE  /\ new \in Ingestion(n) /\ Kept(new) /\ SameNames(new, s) /\ SameTexts(new, s)
         /\ Follows(new, s)
         /\ Streaming(new.messages) \subseteq Streaming(s.messages) \cup {id}
<1>1. OneRowEach(s.messages) /\ s.messages \in Seq(MessageRow(n))
  BY IngestionIs DEF Kept
<1>4. PICK rows : rows = Answer!Sent(s.messages, id, text, streaming)
  OBVIOUS
<1>5. /\ new \in Ingestion(n) /\ SameNames(new, s) /\ SameTexts(new, s) /\ Follows(new, s)
      /\ (new.failed /\ new.messages = s.messages) \/ new.messages = rows
  BY <1>1, <1>4, DispatchTells
<1>6. OneRowEach(rows)
  BY <1>1, <1>4, SentStreams
<1>7. Streaming(rows) = Streaming(s.messages) \cup {id}
  BY <1>1, <1>4, SentStreams
<1>8. new.messages = s.messages \/ new.messages = rows
  BY <1>5
<1>9. Kept(new)
  BY <1>1, <1>5, <1>6, <1>8 DEF Kept, SameNames, SameTexts
<1> QED BY <1>5, <1>7, <1>8, <1>9

LEMMA DispatchCloses ==
  ASSUME NEW n, NEW s \in Ingestion(n), NEW id \in MessageName, NEW text \in Text(n),
         NEW streaming \in Flag, streaming = Closes,
         Kept(s), NEW new, new = Answer!Dispatch(s, id, text, streaming)
  PROVE  /\ new \in Ingestion(n) /\ Kept(new) /\ SameNames(new, s) /\ SameTexts(new, s)
         /\ Follows(new, s)
         /\ Streaming(new.messages) \subseteq Streaming(s.messages)
         /\ ~new.failed => id \notin Streaming(new.messages)
<1>1. OneRowEach(s.messages) /\ s.messages \in Seq(MessageRow(n))
  BY IngestionIs DEF Kept
<1>4. PICK rows : rows = Answer!Sent(s.messages, id, text, streaming)
  OBVIOUS
<1>5. /\ new \in Ingestion(n) /\ SameNames(new, s) /\ SameTexts(new, s) /\ Follows(new, s)
      /\ (new.failed /\ new.messages = s.messages) \/ new.messages = rows
  BY <1>1, <1>4, DispatchTells
<1>6. OneRowEach(rows)
  BY <1>1, <1>4, SentStreams
<1>7. Streaming(rows) = Streaming(s.messages) \ {id}
  BY <1>1, <1>4, SentStreams
<1>8. new.messages = s.messages \/ new.messages = rows
  BY <1>5
<1>9. Kept(new)
  BY <1>1, <1>5, <1>6, <1>8 DEF Kept, SameNames, SameTexts
<1> QED BY <1>5, <1>7, <1>8, <1>9

LEMMA TextOfIs ==
  ASSUME NEW n, NEW s \in Ingestion(n), NEW id
  PROVE  /\ Answer!TextOf(s, id) \in Text(n)
         /\ id \in DOMAIN s.buffer => Answer!TextOf(s, id) = s.buffer[id]
         /\ id \notin DOMAIN s.buffer => Answer!TextOf(s, id) = <<>>
<1>1. s.buffer \in Texts(n)
  BY IngestionIs
<1> QED BY <1>1, TextsAre, NothingTyped DEF Answer!TextOf

LEMMA ClearedIs ==
  ASSUME NEW n, NEW s \in Ingestion(n), NEW id, Kept(s), NEW new, new = Answer!Cleared(s, id)
  PROVE  /\ new \in Ingestion(n) /\ Kept(new) /\ SameNames(new, s) /\ Follows(new, s)
         /\ new.messages = s.messages /\ new.failed = s.failed /\ new.failAt = s.failAt
         /\ DOMAIN new.buffer = DOMAIN s.buffer \ {id}
         /\ \A x \in DOMAIN new.buffer : new.buffer[x] = s.buffer[x]
<1> DEFINE ids == DOMAIN s.buffer \ {id}
           rest == [x \in ids |-> s.buffer[x]]
<1>1. new = [s EXCEPT !.buffer = rest]
  BY DEF Answer!Cleared
<1>2. s.buffer \in Texts(n)
  BY IngestionIs
<1>3. ids \in SUBSET MessageName /\ rest \in [ids -> Text(n)]
  BY <1>2, TextsAre
<1>4. rest \in Texts(n) /\ DOMAIN rest = ids /\ \A x \in ids : rest[x] = s.buffer[x]
  BY <1>3, TextsMade
<1> HIDE DEF rest
<1>6. /\ new \in Ingestion(n)
      /\ new.remembered = s.remembered /\ new.buffer = rest /\ new.active = s.active
      /\ new.segment = s.segment /\ new.messages = s.messages /\ new.failAt = s.failAt
      /\ new.failed = s.failed
  BY <1>1, <1>4, NewTexts
<1>7. Kept(new)
  BY <1>4, <1>6 DEF Kept
<1> QED BY <1>4, <1>6, <1>7 DEF SameNames, Follows, Armed, Unarmed

LEMMA WithTextIs ==
  ASSUME NEW n, NEW s \in Ingestion(n), NEW id \in MessageName, NEW text \in Text(n), Kept(s),
         Known(s.remembered, id), Len(text) \in 1..MaxBuffer,
         NEW new, new = Answer!WithText(s, id, text)
  PROVE  /\ new \in Ingestion(n) /\ Kept(new) /\ SameNames(new, s) /\ Follows(new, s)
         /\ new.messages = s.messages /\ new.failed = s.failed /\ new.failAt = s.failAt
         /\ DOMAIN new.buffer = DOMAIN s.buffer \cup {id}
         /\ new.buffer[id] = text
         /\ \A x \in DOMAIN s.buffer \ {id} : new.buffer[x] = s.buffer[x]
<1> DEFINE ids == DOMAIN s.buffer \cup {id}
           more == [x \in ids |-> IF x = id THEN text ELSE s.buffer[x]]
<1>1. new = [s EXCEPT !.buffer = more]
  BY DEF Answer!WithText
<1>2. s.buffer \in Texts(n)
  BY IngestionIs
<1>3. ids \in SUBSET MessageName /\ more \in [ids -> Text(n)]
  BY <1>2, TextsAre
<1>4. /\ more \in Texts(n) /\ DOMAIN more = ids /\ more[id] = text
      /\ \A x \in ids \ {id} : more[x] = s.buffer[x]
  BY <1>3, TextsMade
<1> HIDE DEF more
<1>6. /\ new \in Ingestion(n)
      /\ new.remembered = s.remembered /\ new.buffer = more /\ new.active = s.active
      /\ new.segment = s.segment /\ new.messages = s.messages /\ new.failAt = s.failAt
      /\ new.failed = s.failed
  BY <1>1, <1>4, NewTexts
<1>7. Kept(new)
  BY <1>4, <1>6 DEF Kept
<1> QED BY <1>4, <1>6, <1>7 DEF SameNames, Follows, Armed, Unarmed

LEMMA FlushKeeps ==
  ASSUME NEW n, NEW s \in Ingestion(n), NEW id \in MessageName, Kept(s), StreamsKnown(s),
         Known(s.remembered, id), NEW new, new = Answer!Flush(s, id)
  PROVE  /\ new \in Ingestion(n) /\ Kept(new) /\ StreamsKnown(new) /\ SameNames(new, s)
         /\ Follows(new, s) /\ (s.failed => new = s)
         /\ DOMAIN new.buffer \subseteq DOMAIN s.buffer
         /\ \A x \in DOMAIN new.buffer : new.buffer[x] = s.buffer[x]
         /\ Streaming(new.messages) \subseteq Streaming(s.messages) \cup {id}
         /\ ~Answer!Renderable(Answer!TextOf(s, id)) =>
              Streaming(new.messages) \subseteq Streaming(s.messages)
<1>1. PICK text \in Text(n) : text = Answer!TextOf(s, id)
  BY TextOfIs
<1>2. PICK clear : clear = Answer!Cleared(s, id)
  OBVIOUS
<1>3. /\ clear \in Ingestion(n) /\ Kept(clear) /\ SameNames(clear, s) /\ Follows(clear, s)
      /\ clear.messages = s.messages
      /\ DOMAIN clear.buffer = DOMAIN s.buffer \ {id}
      /\ \A x \in DOMAIN clear.buffer : clear.buffer[x] = s.buffer[x]
  BY <1>2, ClearedIs
<1>4. CASE s.failed
  <2>1. new = s
    BY <1>4 DEF Answer!Flush
  <2> QED BY <2>1 DEF SameNames, SameTexts, Follows
<1>5. CASE ~s.failed /\ ~Answer!Renderable(text)
  <2>1. new = clear
    BY <1>1, <1>2, <1>5 DEF Answer!Flush
  <2> QED BY <1>3, <1>5, <2>1 DEF SameNames, StreamsKnown
<1>6. CASE ~s.failed /\ Answer!Renderable(text)
  <2>0. PICK streaming \in Flag : streaming = Opens
    BY DEF Flag, Opens
  <2>1. new = Answer!Dispatch(clear, id, text, streaming)
    BY <1>1, <1>2, <1>6, <2>0 DEF Answer!Flush, Opens
  <2>2. /\ new \in Ingestion(n) /\ Kept(new) /\ SameNames(new, clear)
        /\ SameTexts(new, clear) /\ Follows(new, clear)
        /\ Streaming(new.messages) \subseteq Streaming(clear.messages) \cup {id}
    BY <1>3, <2>0, <2>1, DispatchOpens
  <2>3. StreamsKnown(new)
    BY <1>3, <2>2 DEF SameNames, StreamsKnown
  <2> QED BY <1>1, <1>3, <1>6, <2>2, <2>3 DEF SameNames, SameTexts, Follows
<1> QED BY <1>4, <1>5, <1>6

(* A message that is finalized streams no more, and nothing of it is left  *)
(* in the buffer, unless a dispatch fails.                                 *)
LEMMA FinalizeKeeps ==
  ASSUME NEW n, NEW s \in Ingestion(n), NEW id \in MessageName, NEW projected,
         NEW fallback \in Text(n), Kept(s), StreamsKnown(s), Known(s.remembered, id),
         id \in Streaming(s.messages) => projected,
         NEW new, new = Answer!Finalize(s, id, projected, fallback)
  PROVE  /\ new \in Ingestion(n) /\ Kept(new) /\ StreamsKnown(new) /\ SameNames(new, s)
         /\ Follows(new, s) /\ (s.failed => new = s)
         /\ DOMAIN new.buffer \subseteq DOMAIN s.buffer
         /\ ~new.failed => /\ Streaming(new.messages) \subseteq Streaming(s.messages) \ {id}
                           /\ id \notin DOMAIN new.buffer
<1>1. PICK held \in Text(n) : held = Answer!TextOf(s, id)
  BY TextOfIs
<1>2. PICK text \in Text(n) :
        text = IF held # <<>> THEN held ELSE IF Answer!Renderable(fallback) THEN fallback ELSE <<>>
  BY NothingTyped
<1>3. PICK clear : clear = Answer!Cleared(s, id)
  OBVIOUS
<1>4. PICK told : told = IF Answer!Renderable(text) THEN Answer!Dispatch(clear, id, text, TRUE)
                         ELSE clear
  OBVIOUS
<1>5. new = IF s.failed THEN s
            ELSE IF projected \/ Answer!Renderable(text) THEN Answer!Dispatch(told, id, <<>>, FALSE)
            ELSE told
  BY <1>1, <1>2, <1>3, <1>4 DEF Answer!Finalize
<1>a. PICK open \in Flag, shut \in Flag, none \in Text(n) : open = Opens /\ shut = Closes /\ none = <<>>
  BY NothingTyped DEF Flag, Opens, Closes
<1>6. CASE s.failed
  BY <1>5, <1>6 DEF SameNames, SameTexts, Follows
<1>7. CASE ~s.failed
  <2>1. /\ clear \in Ingestion(n) /\ Kept(clear) /\ SameNames(clear, s) /\ Follows(clear, s)
        /\ clear.messages = s.messages /\ DOMAIN clear.buffer = DOMAIN s.buffer \ {id}
    BY <1>3, ClearedIs
  <2>2. CASE Answer!Renderable(text)
    <3>0. told = Answer!Dispatch(clear, id, text, open)
      BY <1>4, <1>a, <2>2 DEF Opens
    <3>1. /\ told \in Ingestion(n) /\ Kept(told) /\ SameNames(told, clear)
          /\ SameTexts(told, clear) /\ Follows(told, clear)
          /\ Streaming(told.messages) \subseteq Streaming(clear.messages) \cup {id}
      BY <1>a, <2>1, <3>0, DispatchOpens
    <3>2. new = Answer!Dispatch(told, id, none, shut)
      BY <1>5, <1>7, <1>a, <2>2 DEF Closes
    <3>3. /\ new \in Ingestion(n) /\ Kept(new) /\ SameNames(new, told)
          /\ SameTexts(new, told) /\ Follows(new, told)
          /\ Streaming(new.messages) \subseteq Streaming(told.messages)
          /\ ~new.failed => id \notin Streaming(new.messages)
      BY <1>a, <3>1, <3>2, DispatchCloses
    <3>4. StreamsKnown(new)
      BY <2>1, <3>1, <3>3 DEF SameNames, StreamsKnown
    <3> QED BY <1>7, <2>1, <3>1, <3>3, <3>4 DEF SameNames, SameTexts, Follows
  <2>3. CASE ~Answer!Renderable(text) /\ projected
    <3>1. new = Answer!Dispatch(clear, id, none, shut)
      BY <1>4, <1>5, <1>7, <1>a, <2>3 DEF Closes
    <3>3. /\ new \in Ingestion(n) /\ Kept(new) /\ SameNames(new, clear)
          /\ SameTexts(new, clear) /\ Follows(new, clear)
          /\ Streaming(new.messages) \subseteq Streaming(clear.messages)
          /\ ~new.failed => id \notin Streaming(new.messages)
      BY <1>a, <2>1, <3>1, DispatchCloses
    <3>4. StreamsKnown(new)
      BY <2>1, <3>3 DEF SameNames, StreamsKnown
    <3> QED BY <1>7, <2>1, <3>3, <3>4 DEF SameNames, SameTexts, Follows
  <2>4. CASE ~Answer!Renderable(text) /\ ~projected
    <3>1. new = clear
      BY <1>4, <1>5, <1>7, <2>4
    <3> QED BY <1>7, <2>1, <2>4, <3>1 DEF SameNames, StreamsKnown
  <2> QED BY <2>2, <2>3, <2>4
<1> QED BY <1>6, <1>7

LEMMA RememberIs ==
  ASSUME NEW n, NEW s \in Ingestion(n), NEW id \in MessageName, Kept(s), StreamsKnown(s),
         NEW new, new = Answer!Remember(s, id)
  PROVE  /\ new \in Ingestion(n) /\ Kept(new) /\ StreamsKnown(new) /\ Follows(new, s)
         /\ new.active = s.active /\ new.segment = s.segment /\ new.messages = s.messages
         /\ new.buffer = s.buffer /\ new.failed = s.failed
         /\ ~s.failed => Known(new.remembered, id)
         /\ s.failed \/ Known(s.remembered, id) => new = s
         /\ ~s.failed /\ ~Known(s.remembered, id) => new.remembered = Append(s.remembered, id)
<1>1. s.remembered \in Seq(MessageName)
  BY IngestionIs
<1>2. Answer!Contains(s.remembered, id) <=> Known(s.remembered, id)
  BY DEF Answer!Contains, Known
<1>3. CASE s.failed \/ Known(s.remembered, id)
  <2>1. new = s
    BY <1>2, <1>3 DEF Answer!Remember
  <2> QED BY <1>3, <2>1 DEF Follows
<1>4. CASE ~s.failed /\ ~Known(s.remembered, id)
  <2>1. PICK ids \in Seq(MessageName) : ids = Append(s.remembered, id)
    <3>1. Append(s.remembered, id) \in Seq(MessageName)
      BY <1>1
    <3> QED BY <3>1
  <2>0. new = [s EXCEPT !.remembered = ids]
    BY <1>2, <1>4, <2>1 DEF Answer!Remember
  <2>2. /\ new \in Ingestion(n) /\ new.remembered = ids /\ new.active = s.active
        /\ new.segment = s.segment /\ new.messages = s.messages /\ new.buffer = s.buffer
        /\ new.failed = s.failed /\ new.failAt = s.failAt
    BY <2>0 DEF Ingestion
  <2>3. /\ Len(ids) = Len(s.remembered) + 1 /\ ids[Len(ids)] = id
        /\ \A i \in 1..Len(s.remembered) : ids[i] = s.remembered[i]
    BY <1>1, <2>1
  <2>4. Len(s.remembered) \in Nat
    BY <1>1
  <2>5. \A x : Known(s.remembered, x) => Known(ids, x)
    BY <2>3, <2>4 DEF Known
  <2>6. Known(ids, id)
    BY <2>3, <2>4 DEF Known
  <2>7. OnceEach(ids)
    BY <1>4, <2>3, <2>4 DEF OnceEach, Known, Kept
  <2> QED BY <1>4, <2>1, <2>2, <2>5, <2>6, <2>7
          DEF Kept, StreamsKnown, Follows, Armed, Unarmed
<1> QED BY <1>3, <1>4

LEMMA WithoutIs ==
  ASSUME NEW ids \in Seq(MessageName), NEW id \in MessageName, OnceEach(ids),
         NEW new, new = Answer!Without(ids, id)
  PROVE  /\ new \in Seq(MessageName) /\ OnceEach(new)
         /\ \A x : Known(new, x) <=> Known(ids, x) /\ x # id
<1>1. CASE ~Known(ids, id)
  <2>1. new = ids
    BY <1>1 DEF Answer!Without, Answer!Contains, Known
  <2> QED BY <1>1, <2>1 DEF Known
<1>2. CASE Known(ids, id)
  <2>1. PICK k \in 1..Len(ids) : ids[k] = id
    BY <1>2 DEF Known
  <2>2. DOMAIN ids = 1..Len(ids) /\ Len(ids) \in Nat
    OBVIOUS
  <2>3. k = CHOOSE i \in DOMAIN ids : ids[i] = id
    <3>1. \A i \in DOMAIN ids : ids[i] = id <=> i = k
      BY <2>1, <2>2 DEF OnceEach
    <3> QED BY <2>1, <2>2, <3>1
  <2>4. new = SubSeq(ids, 1, k - 1) \o SubSeq(ids, k + 1, Len(ids))
    BY <1>2, <2>3 DEF Answer!Without, Answer!Contains, Known, Answer!RemoveAt
  <2>a. PICK before \in Seq(MessageName), after \in Seq(MessageName) :
          /\ before = SubSeq(ids, 1, k - 1) /\ after = SubSeq(ids, k + 1, Len(ids))
          /\ Len(before) = k - 1 /\ Len(after) = Len(ids) - k
          /\ \A i \in 1..(k - 1) : before[i] = ids[i]
          /\ \A i \in 1..(Len(ids) - k) : after[i] = ids[k + i]
    <3>1. /\ SubSeq(ids, 1, k - 1) \in Seq(MessageName) /\ Len(SubSeq(ids, 1, k - 1)) = k - 1
          /\ \A i \in 1..(k - 1) : SubSeq(ids, 1, k - 1)[i] = ids[i]
      BY <2>1, <2>2
    <3>2. /\ SubSeq(ids, k + 1, Len(ids)) \in Seq(MessageName)
          /\ Len(SubSeq(ids, k + 1, Len(ids))) = Len(ids) - k
          /\ \A i \in 1..(Len(ids) - k) : SubSeq(ids, k + 1, Len(ids))[i] = ids[k + i]
      <4>1. CASE k = Len(ids)
        <5>1. SubSeq(ids, k + 1, Len(ids)) = <<>>
          BY <2>2, <4>1, SubSeqEmpty
        <5> QED BY <2>2, <4>1, <5>1
      <4>2. CASE k < Len(ids)
        <5>1. k + 1 \in 1..Len(ids) /\ Len(ids) \in 1..Len(ids)
          BY <2>1, <2>2, <4>2
        <5>2. SubSeq(ids, k + 1, Len(ids)) \in Seq(MessageName)
          BY <2>1, <2>2, <5>1
        <5>3. Len(SubSeq(ids, k + 1, Len(ids))) = Len(ids) - k
          BY <2>1, <2>2, <5>1
        <5> QED BY <2>1, <2>2, <5>1, <5>2, <5>3
      <4>3. k = Len(ids) \/ k < Len(ids)
        <5>1. k \in Nat /\ Len(ids) \in Nat /\ k <= Len(ids)
          BY <2>1, <2>2
        <5> QED BY <5>1
      <4> QED BY <4>1, <4>2, <4>3
    <3> QED BY <3>1, <3>2
  <2>b. new = before \o after
    BY <2>4, <2>a
  <2>5. /\ new \in Seq(MessageName) /\ Len(new) = Len(ids) - 1
        /\ \A i \in 1..Len(new) : new[i] = IF i < k THEN ids[i] ELSE ids[i + 1]
    <3>1. /\ new \in Seq(MessageName) /\ Len(new) = Len(before) + Len(after)
          /\ \A i \in 1..Len(new) : new[i] = IF i <= Len(before) THEN before[i]
                                             ELSE after[i - Len(before)]
      BY <2>b
    <3>2. /\ Len(new) = Len(ids) - 1 /\ Len(before) = k - 1
          /\ Len(before) \in Nat /\ Len(after) \in Nat
      <4>1. k \in Nat /\ k >= 1 /\ k <= Len(ids)
        BY <2>1, <2>2
      <4>2. Len(before) = k - 1 /\ Len(after) = Len(ids) - k
        BY <2>a
      <4>3. Len(new) = Len(before) + Len(after)
        BY <3>1
      <4> QED BY <2>2, <4>1, <4>2, <4>3
    <3>3. ASSUME NEW i \in 1..Len(new)  PROVE new[i] = IF i < k THEN ids[i] ELSE ids[i + 1]
      <4>1. CASE i < k
        <5>1. i \in 1..(k - 1) /\ i <= Len(before)
          BY <2>1, <2>2, <3>2, <4>1
        <5>2. new[i] = before[i]
          BY <3>1, <5>1
        <5>3. before[i] = ids[i]
          BY <2>a, <5>1
        <5> QED BY <4>1, <5>2, <5>3
      <4>2. CASE ~(i < k)
        <5>1. i - (k - 1) \in 1..(Len(ids) - k) /\ k + (i - (k - 1)) = i + 1
          BY <2>1, <2>2, <3>2, <4>2
        <5>2. new[i] = after[i - (k - 1)]
          BY <2>1, <2>2, <3>1, <3>2, <4>2
        <5>3. after[i - (k - 1)] = ids[k + (i - (k - 1))]
          BY <2>a, <5>1
        <5> QED BY <4>2, <5>1, <5>2, <5>3
      <4> QED BY <4>1, <4>2
    <3> QED BY <3>1, <3>2, <3>3
  <2>6. OnceEach(new)
    <3> SUFFICES ASSUME NEW i \in 1..Len(new), NEW j \in 1..Len(new), new[i] = new[j]
                 PROVE  i = j
      BY DEF OnceEach
    <3>1. PICK x \in 1..Len(ids) : new[i] = ids[x] /\ x = IF i < k THEN i ELSE i + 1
      BY <2>1, <2>2, <2>5
    <3>2. PICK y \in 1..Len(ids) : new[j] = ids[y] /\ y = IF j < k THEN j ELSE j + 1
      BY <2>1, <2>2, <2>5
    <3>3. x = y
      BY <3>1, <3>2 DEF OnceEach
    <3>4. i \in Nat /\ j \in Nat /\ k \in Nat
      BY <2>1, <2>2, <2>5
    <3> QED BY <3>1, <3>2, <3>3, <3>4
  <2>7. ASSUME NEW x, Known(new, x)  PROVE Known(ids, x) /\ x # id
    BY <2>1, <2>2, <2>5, <2>7 DEF OnceEach, Known
  <2>8. ASSUME NEW x, Known(ids, x), x # id  PROVE Known(new, x)
    <3>1. PICK j \in 1..Len(ids) : ids[j] = x
      BY <2>8 DEF Known
    <3>2. CASE j < k
      <4>1. j \in 1..Len(new) /\ new[j] = x
        BY <2>1, <2>2, <2>5, <3>1, <3>2
      <4> QED BY <4>1 DEF Known
    <3>3. CASE j > k
      <4>1. j - 1 \in 1..Len(new) /\ new[j - 1] = x
        BY <2>1, <2>2, <2>5, <3>1, <3>3
      <4> QED BY <4>1 DEF Known
    <3> QED BY <2>1, <2>8, <3>1, <3>2, <3>3
  <2> QED BY <2>5, <2>6, <2>7, <2>8
<1> QED BY <1>1, <1>2

LEMMA ForgetIs ==
  ASSUME NEW n, NEW s \in Ingestion(n), NEW id \in MessageName, Kept(s), StreamsKnown(s),
         ~s.failed, id \notin Streaming(s.messages), id \notin DOMAIN s.buffer,
         NEW new, new = Answer!Forget(s, id)
  PROVE  /\ new \in Ingestion(n) /\ Kept(new) /\ StreamsKnown(new) /\ Follows(new, s)
         /\ new.active = s.active /\ new.segment = s.segment /\ new.messages = s.messages
         /\ new.buffer = s.buffer /\ new.failed = s.failed
         /\ new.remembered = Answer!Without(s.remembered, id)
<1>1. s.remembered \in Seq(MessageName) /\ OnceEach(s.remembered)
  BY IngestionIs DEF Kept
<1>2. PICK ids : ids = Answer!Without(s.remembered, id)
  OBVIOUS
<1>3. /\ ids \in Seq(MessageName) /\ OnceEach(ids)
      /\ \A x : Known(ids, x) <=> Known(s.remembered, x) /\ x # id
  BY <1>1, <1>2, WithoutIs
<1>4. new = [s EXCEPT !.remembered = ids]
  BY <1>2 DEF Answer!Forget
<1>5. /\ new \in Ingestion(n) /\ new.remembered = ids /\ new.active = s.active
      /\ new.segment = s.segment /\ new.messages = s.messages /\ new.buffer = s.buffer
      /\ new.failed = s.failed /\ new.failAt = s.failAt
  BY <1>3, <1>4 DEF Ingestion
<1>6. Kept(new) /\ StreamsKnown(new)
  BY <1>3, <1>5 DEF Kept, StreamsKnown
<1> QED BY <1>2, <1>5, <1>6 DEF Follows, Armed, Unarmed


-----------------------------------------------------------------------------
(* The messages that are remembered, one after the other.                  *)
LEMMA NatMin == ASSUME NEW T \in SUBSET Nat, T # {}  PROVE \E m \in T : \A n \in T : m <= n
<1> DEFINE R == {ss \in Nat \X Nat : ss[1] < ss[2]}
<1>1. IsWellFoundedOn(R, Nat)
  BY NatLessThanWellFounded DEF OpToRel
<1>2. PICK m \in T : \A n \in T : ~(<<n, m>> \in R)
  BY <1>1, WFMin
<1>3. \A n \in T : ~(n < m)
  BY <1>2
<1> QED BY <1>3

LEMMA StepByStep ==
  ASSUME NEW k \in Nat, NEW good, 0 \in good, \A i \in 1..k : i - 1 \in good => i \in good
  PROVE  \A i \in 0..k : i \in good
<1> DEFINE bad == {i \in 0..k : i \notin good}
<1> SUFFICES ASSUME bad # {}  PROVE FALSE
  OBVIOUS
<1>1. bad \in SUBSET Nat
  OBVIOUS
<1>2. PICK m \in bad : \A i \in bad : m <= i
  <2> HIDE DEF bad
  <2> QED BY <1>1, NatMin
<1>3. m \in 1..k /\ m - 1 \in 0..k /\ ~(m <= m - 1)
  BY <1>2
<1>4. m - 1 \in good
  BY <1>2, <1>3
<1> QED BY <1>2, <1>3, <1>4

Flushes(f, s, ids, k) ==
  f = [i \in 0..k |-> IF i = 0 THEN s ELSE Answer!Flush(f[i - 1], ids[i])]

LEMMA FlushesExist ==
  ASSUME NEW s, NEW ids, NEW k \in Nat  PROVE \E f : Flushes(f, s, ids, k)
<1> DEFINE good == {m \in Nat : \E f : f = [i \in 0..m |-> IF i = 0 THEN s
                                                         ELSE Answer!Flush(f[i - 1], ids[i])]}
<1>1. 0 \in good
  <2>1. [i \in 0..0 |-> s] = [i \in 0..0 |-> IF i = 0 THEN s
                               ELSE Answer!Flush([j \in 0..0 |-> s][i - 1], ids[i])]
    OBVIOUS
  <2> QED BY <2>1
<1>2. ASSUME NEW m \in 1..k, m - 1 \in good  PROVE m \in good
  <2>1. PICK g : g = [i \in 0..(m - 1) |-> IF i = 0 THEN s ELSE Answer!Flush(g[i - 1], ids[i])]
    BY <1>2
  <2> DEFINE f == [i \in 0..m |-> IF i = m THEN Answer!Flush(g[m - 1], ids[m]) ELSE g[i]]
  <2>2. ASSUME NEW i \in 0..m
        PROVE  f[i] = IF i = 0 THEN s ELSE Answer!Flush(f[i - 1], ids[i])
    <3>1. CASE i = 0
      BY <2>1, <3>1
    <3>2. CASE i = m
      <4>1. m - 1 \in 0..m /\ m - 1 # m /\ m # 0
        OBVIOUS
      <4>2. f[m - 1] = g[m - 1]
        BY <4>1
      <4> QED BY <3>2, <4>1, <4>2
    <3>3. CASE i # 0 /\ i # m
      <4>1. i - 1 \in 0..m /\ i - 1 # m /\ i \in 0..(m - 1)
        BY <3>3
      <4>2. f[i] = g[i] /\ f[i - 1] = g[i - 1]
        BY <3>3, <4>1
      <4>3. g[i] = Answer!Flush(g[i - 1], ids[i])
        BY <2>1, <3>3, <4>1
      <4> QED BY <3>3, <4>2, <4>3
    <3> QED BY <3>1, <3>2, <3>3
  <2>3. f = [i \in 0..m |-> f[i]]
    OBVIOUS
  <2>4. m \in Nat
    OBVIOUS
  <2> HIDE DEF f
  <2>5. f = [i \in 0..m |-> IF i = 0 THEN s ELSE Answer!Flush(f[i - 1], ids[i])]
    BY <2>2, <2>3
  <2> QED BY <2>4, <2>5
<1> HIDE DEF good
<1>3. k \in good
  <2>1. k \in 0..k
    OBVIOUS
  <2> QED BY <1>1, <1>2, <2>1, StepByStep
<1> QED BY <1>3 DEF good, Flushes

(* From s, texts of messages that are remembered were told.                *)
FlushedFrom(r, s) ==
  /\ SameNames(r, s) /\ Follows(r, s)
  /\ DOMAIN r.buffer \subseteq DOMAIN s.buffer
  /\ \A x \in DOMAIN r.buffer : r.buffer[x] = s.buffer[x]
  /\ \A x \in Streaming(r.messages) : x \in Streaming(s.messages) \/ Answer!Renderable(Answer!TextOf(s, x))

LEMMA NothingToShow == ~Answer!Renderable(<<>>)
BY DEF Answer!Renderable

LEMMA FlushesOn ==
  ASSUME NEW n, NEW s \in Ingestion(n), NEW r \in Ingestion(n), Kept(r), StreamsKnown(r),
         FlushedFrom(r, s), NEW id \in MessageName, Known(s.remembered, id),
         NEW new, new = Answer!Flush(r, id)
  PROVE  new \in Ingestion(n) /\ Kept(new) /\ StreamsKnown(new) /\ FlushedFrom(new, s)
<1>1. Known(r.remembered, id)
  BY DEF FlushedFrom, SameNames
<1>2. /\ new \in Ingestion(n) /\ Kept(new) /\ StreamsKnown(new) /\ SameNames(new, r)
      /\ Follows(new, r)
      /\ DOMAIN new.buffer \subseteq DOMAIN r.buffer
      /\ \A x \in DOMAIN new.buffer : new.buffer[x] = r.buffer[x]
      /\ Streaming(new.messages) \subseteq Streaming(r.messages) \cup {id}
      /\ ~Answer!Renderable(Answer!TextOf(r, id)) =>
           Streaming(new.messages) \subseteq Streaming(r.messages)
  BY <1>1, FlushKeeps
<1>3. SameNames(new, s) /\ Follows(new, s)
  BY <1>2 DEF FlushedFrom, SameNames, Follows
<1>4. Answer!Renderable(Answer!TextOf(r, id)) => Answer!Renderable(Answer!TextOf(s, id))
  BY NothingToShow DEF FlushedFrom, Answer!TextOf
<1>5. ASSUME NEW x \in Streaming(new.messages)
      PROVE  x \in Streaming(s.messages) \/ Answer!Renderable(Answer!TextOf(s, x))
  <2>1. CASE x \in Streaming(r.messages)
    BY <2>1 DEF FlushedFrom
  <2>2. CASE x \notin Streaming(r.messages)
    <3>1. x = id /\ Answer!Renderable(Answer!TextOf(r, id))
      BY <1>2, <1>5, <2>2
    <3> QED BY <1>4, <3>1
  <2> QED BY <2>1, <2>2
<1>6. /\ DOMAIN new.buffer \subseteq DOMAIN s.buffer
      /\ \A x \in DOMAIN new.buffer : new.buffer[x] = s.buffer[x]
  BY <1>2 DEF FlushedFrom
<1> QED BY <1>2, <1>3, <1>5, <1>6 DEF FlushedFrom

LEMMA FlushAllKeeps ==
  ASSUME NEW n, NEW s \in Ingestion(n), Kept(s), StreamsKnown(s),
         NEW new, new = Answer!FlushAll(s)
  PROVE  new \in Ingestion(n) /\ Kept(new) /\ StreamsKnown(new) /\ FlushedFrom(new, s)
<1>1. PICK ids \in Seq(MessageName), k \in Nat : ids = s.remembered /\ k = Len(ids)
  <2>1. s.remembered \in Seq(MessageName) /\ Len(s.remembered) \in Nat
    BY IngestionIs
  <2> QED BY <2>1
<1>0. \E f : Flushes(f, s, ids, k)
  BY FlushesExist
<1>a. PICK f : f = CHOOSE g : g = [i \in 0..k |-> IF i = 0 THEN s ELSE Answer!Flush(g[i - 1], ids[i])]
  OBVIOUS
<1>2. f = [i \in 0..k |-> IF i = 0 THEN s ELSE Answer!Flush(f[i - 1], ids[i])]
  BY <1>0, <1>a DEF Flushes
<1>3. new = f[k]
  BY <1>1, <1>a DEF Answer!FlushAll
<1> DEFINE good == {i \in 0..k : /\ f[i] \in Ingestion(n) /\ Kept(f[i]) /\ StreamsKnown(f[i])
                                 /\ FlushedFrom(f[i], s)}
<1>4. 0 \in good
  <2>1. f[0] = s
    BY <1>2
  <2>2. FlushedFrom(s, s)
    BY DEF FlushedFrom, SameNames, Follows
  <2> QED BY <2>1, <2>2
<1>5. ASSUME NEW i \in 1..k, i - 1 \in good  PROVE i \in good
  <2>1. PICK r : r = f[i - 1]
    OBVIOUS
  <2>2. r \in Ingestion(n) /\ Kept(r) /\ StreamsKnown(r) /\ FlushedFrom(r, s)
    BY <1>5, <2>1
  <2>3. PICK id \in MessageName : id = ids[i]
    BY <1>1
  <2>4. Known(s.remembered, id)
    BY <1>1, <2>3 DEF Known
  <2>5. f[i] = Answer!Flush(r, id)
    BY <1>2, <2>1, <2>3
  <2>6. f[i] \in Ingestion(n) /\ Kept(f[i]) /\ StreamsKnown(f[i]) /\ FlushedFrom(f[i], s)
    BY <2>2, <2>4, <2>5, FlushesOn
  <2> QED BY <2>6
<1>6. k \in good
  <2> HIDE DEF good
  <2>1. k \in 0..k
    BY <1>1
  <2> QED BY <1>1, <1>4, <1>5, <2>1, StepByStep
<1> QED BY <1>3, <1>6

(* A message that was known is finalized at the end of the turn.           *)
Ended(r, id, known) == Answer!Finalize(r, id, Answer!IsMessage(known, id), <<>>)
Finalizes(f, s, known, ids, k) ==
  f = [i \in 0..k |-> IF i = 0 THEN s ELSE Ended(f[i - 1], ids[i], known)]

LEMMA FinalizesExist ==
  ASSUME NEW s, NEW known, NEW ids, NEW k \in Nat  PROVE \E f : Finalizes(f, s, known, ids, k)
<1> DEFINE good == {m \in Nat : \E f : f = [i \in 0..m |-> IF i = 0 THEN s
                                                         ELSE Ended(f[i - 1], ids[i], known)]}
<1>1. 0 \in good
  <2>1. [i \in 0..0 |-> s] = [i \in 0..0 |-> IF i = 0 THEN s
                               ELSE Ended([j \in 0..0 |-> s][i - 1], ids[i], known)]
    OBVIOUS
  <2> QED BY <2>1
<1>2. ASSUME NEW m \in 1..k, m - 1 \in good  PROVE m \in good
  <2>1. PICK g : g = [i \in 0..(m - 1) |-> IF i = 0 THEN s ELSE Ended(g[i - 1], ids[i], known)]
    BY <1>2
  <2> DEFINE f == [i \in 0..m |-> IF i = m THEN Ended(g[m - 1], ids[m], known) ELSE g[i]]
  <2>2. ASSUME NEW i \in 0..m
        PROVE  f[i] = IF i = 0 THEN s ELSE Ended(f[i - 1], ids[i], known)
    <3>1. CASE i = 0
      BY <2>1, <3>1
    <3>2. CASE i = m
      <4>1. m - 1 \in 0..m /\ m - 1 # m /\ m # 0
        OBVIOUS
      <4>2. f[m - 1] = g[m - 1]
        BY <4>1
      <4> QED BY <3>2, <4>1, <4>2
    <3>3. CASE i # 0 /\ i # m
      <4>1. i - 1 \in 0..m /\ i - 1 # m /\ i \in 0..(m - 1)
        BY <3>3
      <4>2. f[i] = g[i] /\ f[i - 1] = g[i - 1]
        BY <3>3, <4>1
      <4>3. g[i] = Ended(g[i - 1], ids[i], known)
        BY <2>1, <3>3, <4>1
      <4> QED BY <3>3, <4>2, <4>3
    <3> QED BY <3>1, <3>2, <3>3
  <2>3. f = [i \in 0..m |-> f[i]]
    OBVIOUS
  <2>4. m \in Nat
    OBVIOUS
  <2> HIDE DEF f
  <2>5. f = [i \in 0..m |-> IF i = 0 THEN s ELSE Ended(f[i - 1], ids[i], known)]
    BY <2>2, <2>3
  <2> QED BY <2>4, <2>5
<1> HIDE DEF good
<1>3. k \in good
  <2>1. k \in 0..k
    OBVIOUS
  <2> QED BY <1>1, <1>2, <2>1, StepByStep
<1> QED BY <1>3 DEF good, Finalizes

Firsts(ids, i) == {ids[j] : j \in 1..i}

EndedFrom(r, s, ended) ==
  /\ SameNames(r, s) /\ Follows(r, s)
  /\ DOMAIN r.buffer \subseteq DOMAIN s.buffer
  /\ ~r.failed => /\ Streaming(r.messages) \subseteq Streaming(s.messages)
                  /\ \A id \in ended : id \notin Streaming(r.messages) /\ id \notin DOMAIN r.buffer

LEMMA EndsOn ==
  ASSUME NEW n, NEW s \in Ingestion(n), NEW r \in Ingestion(n), Kept(r), StreamsKnown(r), NEW ended,
         EndedFrom(r, s, ended), NEW id \in MessageName, Known(s.remembered, id),
         NEW new, new = Ended(r, id, s.messages)
  PROVE  new \in Ingestion(n) /\ Kept(new) /\ StreamsKnown(new) /\ EndedFrom(new, s, ended \cup {id})
<1>1. CASE r.failed
  <2>1. new = r
    BY <1>1 DEF Ended, Answer!Finalize
  <2> QED BY <1>1, <2>1 DEF EndedFrom
<1>2. CASE ~r.failed
  <2>1. Known(r.remembered, id)
    BY DEF EndedFrom, SameNames
  <2>2. PICK projected : projected = Answer!IsMessage(s.messages, id)
    OBVIOUS
  <2>a. PICK none \in Text(n) : none = <<>>
    BY NothingTyped
  <2>3. new = Answer!Finalize(r, id, projected, none)
    BY <2>2, <2>a DEF Ended
  <2>4. id \in Streaming(r.messages) => projected
    <3>1. s.messages \in Seq(MessageRow(n))
      BY IngestionIs
    <3>2. id \in Streaming(r.messages) => id \in Streaming(s.messages)
      BY <1>2 DEF EndedFrom
    <3>3. id \in Streaming(s.messages) => Row(s.messages, id)
      BY DEF Streaming, Row
    <3>4. Row(s.messages, id) => projected
      BY <2>2, <3>1, NoRow
    <3> QED BY <3>2, <3>3, <3>4
  <2>5. /\ new \in Ingestion(n) /\ Kept(new) /\ StreamsKnown(new) /\ SameNames(new, r)
        /\ Follows(new, r)
        /\ DOMAIN new.buffer \subseteq DOMAIN r.buffer
        /\ ~new.failed => /\ Streaming(new.messages) \subseteq Streaming(r.messages) \ {id}
                          /\ id \notin DOMAIN new.buffer
    BY <2>1, <2>3, <2>4, FinalizeKeeps
  <2>6. SameNames(new, s) /\ Follows(new, s)
    BY <2>5 DEF EndedFrom, SameNames, Follows
  <2> QED BY <1>2, <2>5, <2>6 DEF EndedFrom
<1> QED BY <1>1, <1>2

LEMMA FinalizeAllKeeps ==
  ASSUME NEW n, NEW s \in Ingestion(n), Kept(s), StreamsKnown(s),
         NEW new, new = Answer!FinalizeAll(s, s.messages, s.remembered)
  PROVE  /\ new \in Ingestion(n) /\ Kept(new) /\ StreamsKnown(new)
         /\ SameNames(new, s) /\ Follows(new, s)
         /\ ~new.failed => Streaming(new.messages) = {} /\ DOMAIN new.buffer = {}
<1>b. PICK known : known = s.messages
  OBVIOUS
<1>1. PICK ids \in Seq(MessageName), k \in Nat : ids = s.remembered /\ k = Len(ids)
  <2>1. s.remembered \in Seq(MessageName) /\ Len(s.remembered) \in Nat
    BY IngestionIs
  <2> QED BY <2>1
<1>0. \E f : Finalizes(f, s, known, ids, k)
  BY FinalizesExist
<1>a. PICK f : f = CHOOSE g : g = [i \in 0..k |-> IF i = 0 THEN s ELSE Ended(g[i - 1], ids[i], known)]
  OBVIOUS
<1>2. f = [i \in 0..k |-> IF i = 0 THEN s ELSE Ended(f[i - 1], ids[i], known)]
  BY <1>0, <1>a DEF Finalizes
<1>3. new = f[k]
  BY <1>1, <1>a, <1>b DEF Answer!FinalizeAll, Ended
<1> DEFINE good == {i \in 0..k : /\ f[i] \in Ingestion(n) /\ Kept(f[i]) /\ StreamsKnown(f[i])
                                 /\ EndedFrom(f[i], s, Firsts(ids, i))}
<1>4. 0 \in good
  <2>1. f[0] = s
    BY <1>2
  <2>2. EndedFrom(s, s, Firsts(ids, 0))
    BY DEF EndedFrom, SameNames, Follows, Firsts
  <2> QED BY <2>1, <2>2
<1>5. ASSUME NEW i \in 1..k, i - 1 \in good  PROVE i \in good
  <2>1. PICK r, before : r = f[i - 1] /\ before = Firsts(ids, i - 1)
    OBVIOUS
  <2>2. r \in Ingestion(n) /\ Kept(r) /\ StreamsKnown(r) /\ EndedFrom(r, s, before)
    BY <1>5, <2>1
  <2>3. PICK id \in MessageName : id = ids[i]
    BY <1>1
  <2>4. Known(s.remembered, id)
    BY <1>1, <2>3 DEF Known
  <2>5. f[i] = Ended(r, id, s.messages)
    BY <1>1, <1>2, <1>b, <2>1, <2>3
  <2>6. f[i] \in Ingestion(n) /\ Kept(f[i]) /\ StreamsKnown(f[i]) /\ EndedFrom(f[i], s, before \cup {id})
    BY <2>2, <2>4, <2>5, EndsOn
  <2>7. Firsts(ids, i) = before \cup {id}
    <3>1. 1..i = 1..(i - 1) \cup {i}
      BY <1>1
    <3> QED BY <2>1, <2>3, <3>1 DEF Firsts
  <2>8. i \in 0..k /\ EndedFrom(f[i], s, Firsts(ids, i))
    BY <2>6, <2>7
  <2> QED BY <2>6, <2>8
<1>6. k \in good
  <2> HIDE DEF good
  <2>1. k \in 0..k
    BY <1>1
  <2> QED BY <1>1, <1>4, <1>5, <2>1, StepByStep
<1>7. new \in Ingestion(n) /\ Kept(new) /\ StreamsKnown(new) /\ EndedFrom(new, s, Firsts(ids, k))
  BY <1>3, <1>6
<1>8. \A id : Known(s.remembered, id) => id \in Firsts(ids, k)
  BY <1>1 DEF Known, Firsts
<1>9. SameNames(new, s) /\ Follows(new, s)
  BY <1>7 DEF EndedFrom
<1>10. ASSUME ~new.failed  PROVE Streaming(new.messages) = {} /\ DOMAIN new.buffer = {}
  <2>1. \A id \in Streaming(new.messages) : Known(s.remembered, id)
    BY <1>7, <1>9 DEF StreamsKnown, SameNames
  <2>2. \A id \in DOMAIN new.buffer : Known(s.remembered, id)
    BY <1>7, <1>9 DEF Kept, SameNames
  <2> QED BY <1>7, <1>8, <1>10, <2>1, <2>2 DEF EndedFrom
<1> QED BY <1>7, <1>9, <1>10

-----------------------------------------------------------------------------
(* Whatever fails, the handlers keep what is buffered or streams known.    *)
Steady(n, h, s) ==
  /\ h \in Ingestion(n) /\ Kept(h) /\ StreamsKnown(h) /\ ActiveKnown(h)
  /\ Follows(h, s)

LEMMA WithActiveKeeps ==
  ASSUME NEW n, NEW s \in Ingestion(n), NEW number \in Nat, Kept(s), StreamsKnown(s),
         NEW new, new = Answer!WithActive(s, number)
  PROVE  /\ new \in Ingestion(n) /\ Kept(new) /\ StreamsKnown(new) /\ Follows(new, s)
         /\ new.remembered = s.remembered /\ new.messages = s.messages
         /\ new.buffer = s.buffer /\ new.failed = s.failed
<1>1. CASE s.active # NoMessage
  <2>1. new = s
    BY <1>1 DEF Answer!WithActive, NoMessage
  <2> QED BY <2>1 DEF Follows
<1>2. CASE s.active = NoMessage
  <2>1. PICK next \in Nat : next = IF s.segment.number = number THEN s.segment.next ELSE 0
    <3>1. s.segment.next \in Nat
      BY DEF Ingestion, SegmentRecord
    <3> QED BY <3>1
  <2>2. PICK seg \in SegmentRecord, id \in MessageName :
          seg = [number |-> number, next |-> next + 1] /\ id = <<number, next>>
    <3>1. [number |-> number, next |-> next + 1] \in SegmentRecord
      BY <2>1 DEF SegmentRecord
    <3>2. <<number, next>> \in MessageName
      BY <2>1 DEF MessageName
    <3> QED BY <3>1, <3>2
  <2>3. new = [s EXCEPT !.segment = seg, !.active = id]
    BY <1>2, <2>1, <2>2 DEF Answer!WithActive, NoMessage, Answer!WithSegment, Answer!MessageId
  <2>4. /\ new \in Ingestion(n) /\ new.remembered = s.remembered /\ new.messages = s.messages
        /\ new.buffer = s.buffer /\ new.failed = s.failed /\ new.failAt = s.failAt
    BY <2>2, <2>3 DEF Ingestion
  <2> QED BY <2>4 DEF Kept, StreamsKnown, Follows, Armed, Unarmed
<1> QED BY <1>1, <1>2

LEMMA DeltaKeeps ==
  ASSUME NEW n, NEW s \in Ingestion(n), NEW number \in Nat, NEW delta \in 1..n,
         Kept(s), StreamsKnown(s), ~s.failed, MaxBuffer \in Nat,
         NEW new, new = Answer!OnDelta(s, number, delta)
  PROVE  Steady(n, new, s)
<1>1. PICK known : known = Answer!WithActive(s, number)
  OBVIOUS
<1>2. /\ known \in Ingestion(n) /\ Kept(known) /\ StreamsKnown(known) /\ Follows(known, s)
      /\ known.failed = s.failed
  BY <1>1, WithActiveKeeps
<1>3. PICK id \in MessageName : id = known.active
  BY <1>2, IngestionIs
<1>4. PICK told : told = Answer!Remember(known, id)
  OBVIOUS
<1>5. /\ told \in Ingestion(n) /\ Kept(told) /\ StreamsKnown(told) /\ Follows(told, known)
      /\ told.active = known.active
      /\ ~known.failed => Known(told.remembered, id)
  BY <1>2, <1>4, RememberIs
<1>6. Known(told.remembered, id) /\ told.active = id /\ Follows(told, s)
  BY <1>2, <1>3, <1>5 DEF Follows
<1>7. PICK streaming \in Flag : streaming = Opens
  BY DEF Flag, Opens
<1>8. new = IF buffered THEN Answer!AppendBuffered(told, id, delta)
            ELSE Answer!Dispatch(told, id, <<delta>>, streaming)
  BY <1>1, <1>3, <1>4, <1>6, <1>7 DEF Answer!OnDelta, Opens
<1>9. CASE ~buffered
  <2>1. PICK text \in Text(n) : text = <<delta>>
    <3>1. <<delta>> \in Text(n)
      BY DEF Text
    <3> QED BY <3>1
  <2>2. new = Answer!Dispatch(told, id, text, streaming)
    BY <1>8, <1>9, <2>1
  <2>3. /\ new \in Ingestion(n) /\ Kept(new) /\ SameNames(new, told) /\ Follows(new, told)
        /\ Streaming(new.messages) \subseteq Streaming(told.messages) \cup {id}
    BY <1>5, <1>7, <2>2, DispatchOpens
  <2> QED BY <1>5, <1>6, <2>3 DEF Steady, SameNames, StreamsKnown, ActiveKnown, Follows
<1>10. CASE buffered
  <2>0. PICK held \in Text(n) : held = Answer!TextOf(told, id)
    BY <1>5, TextOfIs
  <2>1. PICK text \in Text(n) : text = Append(held, delta)
    <3>1. Append(held, delta) \in Text(n)
      BY DEF Text
    <3> QED BY <3>1
  <2>2. Len(text) \in Nat /\ Len(text) >= 1
    BY <2>1 DEF Text
  <2>3. CASE Len(text) <= MaxBuffer
    <3>1. new = Answer!WithText(told, id, text)
      BY <1>8, <1>10, <2>0, <2>1, <2>3 DEF Answer!AppendBuffered
    <3>2. Len(text) \in 1..MaxBuffer
      BY <2>2, <2>3
    <3>3. /\ new \in Ingestion(n) /\ Kept(new) /\ SameNames(new, told) /\ Follows(new, told)
          /\ new.messages = told.messages
      BY <1>5, <1>6, <3>1, <3>2, WithTextIs
    <3> QED BY <1>5, <1>6, <3>3 DEF Steady, SameNames, StreamsKnown, ActiveKnown, Follows
  <2>4. CASE ~(Len(text) <= MaxBuffer)
    <3>1. PICK clear : clear = Answer!Cleared(told, id)
      OBVIOUS
    <3>2. new = Answer!Dispatch(clear, id, text, streaming)
      BY <1>7, <1>8, <1>10, <2>0, <2>1, <2>4, <3>1 DEF Answer!AppendBuffered, Opens
    <3>3. /\ clear \in Ingestion(n) /\ Kept(clear) /\ SameNames(clear, told)
          /\ Follows(clear, told) /\ clear.messages = told.messages
      BY <1>5, <3>1, ClearedIs
    <3>a. clear \in Ingestion(n) /\ Kept(clear)
      BY <3>3
    <3>4. /\ new \in Ingestion(n) /\ Kept(new) /\ SameNames(new, clear) /\ Follows(new, clear)
      BY <1>7, <3>2, <3>a, DispatchOpens
    <3>5. Streaming(new.messages) \subseteq Streaming(clear.messages) \cup {id}
      BY <1>7, <3>2, <3>a, DispatchOpens
    <3> QED BY <1>5, <1>6, <3>3, <3>4, <3>5 DEF Steady, SameNames, StreamsKnown, ActiveKnown, Follows
  <2> QED BY <2>3, <2>4
<1> QED BY <1>9, <1>10

LEMMA FinalizeActiveKeeps ==
  ASSUME NEW n, NEW s \in Ingestion(n), NEW projected, Kept(s), StreamsKnown(s), ActiveKnown(s),
         s.active # NoMessage /\ s.active \in Streaming(s.messages) => projected,
         NEW new, new = Answer!FinalizeActive(s, projected)
  PROVE  Steady(n, new, s)
<1>1. CASE s.failed \/ s.active = NoMessage
  <2>1. new = s
    BY <1>1 DEF Answer!FinalizeActive, NoMessage
  <2> QED BY <2>1 DEF Steady, Follows
<1>2. CASE ~s.failed /\ s.active # NoMessage
  <2>1. PICK id \in MessageName, none \in Text(n) : id = s.active /\ none = <<>>
    BY IngestionIs, NothingTyped
  <2>2. PICK ended : ended = Answer!Finalize(s, id, projected, none)
    OBVIOUS
  <2>3. PICK done : done = Answer!Forget(ended, id)
    OBVIOUS
  <2>4. new = IF done.failed THEN done ELSE [done EXCEPT !.active = NoMessage]
    BY <1>2, <2>1, <2>2, <2>3 DEF Answer!FinalizeActive, NoMessage
  <2>5. Known(s.remembered, id) /\ (id \in Streaming(s.messages) => projected)
    BY <1>2, <2>1 DEF ActiveKnown
  <2>6. /\ ended \in Ingestion(n) /\ Kept(ended) /\ StreamsKnown(ended) /\ SameNames(ended, s)
        /\ Follows(ended, s)
        /\ ~ended.failed => /\ Streaming(ended.messages) \subseteq Streaming(s.messages) \ {id}
                            /\ id \notin DOMAIN ended.buffer
    BY <2>2, <2>5, FinalizeKeeps
  <2>7. CASE ended.failed
    <3>1. done = ended
      BY <2>3, <2>7 DEF Answer!Forget
    <3> QED BY <2>4, <2>6, <2>7, <3>1 DEF Steady, SameNames, ActiveKnown
  <2>8. CASE ~ended.failed
    <3>1. id \notin Streaming(ended.messages) /\ id \notin DOMAIN ended.buffer
      BY <2>6, <2>8
    <3>2. /\ done \in Ingestion(n) /\ Kept(done) /\ StreamsKnown(done) /\ Follows(done, ended)
          /\ done.failed = ended.failed
      BY <2>3, <2>6, <2>8, <3>1, ForgetIs
    <3>3. NoMessage \in MessageName
      BY NothingTyped
    <3>4. new = [done EXCEPT !.active = NoMessage]
      BY <2>4, <2>8, <3>2
    <3>5. /\ new \in Ingestion(n) /\ new.active = NoMessage
          /\ new.remembered = done.remembered /\ new.buffer = done.buffer
          /\ new.messages = done.messages /\ new.failAt = done.failAt /\ new.failed = done.failed
      BY <3>2, <3>3, <3>4 DEF Ingestion
    <3>6. Kept(new) /\ StreamsKnown(new) /\ ActiveKnown(new)
      BY <3>2, <3>5 DEF Kept, StreamsKnown, ActiveKnown
    <3>7. Follows(new, s)
      BY <2>6, <3>2, <3>5 DEF Follows, Armed, Unarmed
    <3> QED BY <3>5, <3>6, <3>7 DEF Steady
  <2> QED BY <2>7, <2>8
<1> QED BY <1>1, <1>2

LEMMA SomeStreams ==
  ASSUME NEW n, NEW rows \in Seq(MessageRow(n)), NEW id \in Streaming(rows)
  PROVE  Row(rows, id) /\ \E m \in Answer!ToSet(rows) : m.streaming
<1>1. PICK i \in 1..Len(rows) : rows[i].streaming /\ rows[i].id = id
  BY DEF Streaming
<1>2. rows[i] \in Answer!ToSet(rows)
  BY <1>1 DEF Answer!ToSet
<1> QED BY <1>1, <1>2 DEF Row

LEMMA PauseKeeps ==
  ASSUME NEW n, NEW s \in Ingestion(n), Kept(s), StreamsKnown(s), ActiveKnown(s),
         NEW new, new = Answer!OnPause(s)
  PROVE  Steady(n, new, s)
<1>1. PICK streaming : streaming = (\E m \in Answer!ToSet(s.messages) : m.streaming)
  OBVIOUS
<1>2. PICK flushes : flushes = (/\ Answer!Contains(s.remembered, s.active)
                                /\ Answer!Renderable(Answer!TextOf(s, s.active)))
  OBVIOUS
<1>3. s.messages \in Seq(MessageRow(n))
  BY IngestionIs
<1>4. \A id \in Streaming(s.messages) : streaming
  BY <1>1, <1>3, SomeStreams
<1>5. CASE ~buffered
  <2>1. new = Answer!FinalizeActive(s, streaming)
    BY <1>1, <1>5 DEF Answer!OnPause
  <2>2. s.active # NoMessage /\ s.active \in Streaming(s.messages) => streaming
    BY <1>4
  <2> QED BY <2>1, <2>2, FinalizeActiveKeeps
<1>6. CASE buffered
  <2>1. PICK r : r = Answer!FlushAll(s)
    OBVIOUS
  <2>2. PICK projected : projected = (streaming \/ flushes)
    OBVIOUS
  <2>3. new = Answer!FinalizeActive(r, projected)
    BY <1>1, <1>2, <1>6, <2>1, <2>2 DEF Answer!OnPause
  <2>4. r \in Ingestion(n) /\ Kept(r) /\ StreamsKnown(r) /\ FlushedFrom(r, s)
    BY <2>1, FlushAllKeeps
  <2>5. ActiveKnown(r) /\ r.active = s.active
    BY <2>4 DEF FlushedFrom, SameNames, ActiveKnown
  <2>6. ASSUME r.active # NoMessage, r.active \in Streaming(r.messages)  PROVE projected
    <3>1. CASE s.active \in Streaming(s.messages)
      BY <1>4, <2>2, <3>1
    <3>2. CASE Answer!Renderable(Answer!TextOf(s, s.active))
      <4>1. Answer!Contains(s.remembered, s.active)
        BY <2>5, <2>6 DEF ActiveKnown, Known, Answer!Contains
      <4> QED BY <1>2, <2>2, <3>2, <4>1
    <3> QED BY <2>4, <2>5, <2>6, <3>1, <3>2 DEF FlushedFrom
  <2>7. Steady(n, new, r)
    BY <2>3, <2>4, <2>5, <2>6, FinalizeActiveKeeps
  <2> QED BY <2>4, <2>7 DEF Steady, FlushedFrom, Follows
<1> QED BY <1>5, <1>6

LEMMA WithoutSegmentIs ==
  ASSUME NEW n, NEW s \in Ingestion(n), Kept(s), StreamsKnown(s), s.failed => ActiveKnown(s),
         NEW new, new = Answer!WithoutSegment(s)
  PROVE  /\ Steady(n, new, s)
         /\ new.remembered = s.remembered /\ new.messages = s.messages
         /\ new.buffer = s.buffer /\ new.failed = s.failed
         /\ ~s.failed => new.active = NoMessage /\ new.segment = Answer!NoSegment
<1>1. CASE s.failed
  <2>1. new = s
    BY <1>1 DEF Answer!WithoutSegment
  <2> QED BY <1>1, <2>1 DEF Steady, Follows
<1>2. CASE ~s.failed
  <2>1. PICK seg \in SegmentRecord, id \in MessageName : seg = Answer!NoSegment /\ id = NoMessage
    <3>1. Answer!NoSegment \in SegmentRecord
      BY DEF Answer!NoSegment, SegmentRecord
    <3> QED BY <3>1, NothingTyped
  <2>2. new = [s EXCEPT !.segment = seg, !.active = id]
    BY <1>2, <2>1 DEF Answer!WithoutSegment, NoMessage
  <2>3. /\ new \in Ingestion(n) /\ new.segment = seg /\ new.active = id
        /\ new.remembered = s.remembered /\ new.messages = s.messages
        /\ new.buffer = s.buffer /\ new.failed = s.failed /\ new.failAt = s.failAt
    BY <2>2 DEF Ingestion
  <2> QED BY <2>1, <2>3 DEF Steady, Kept, StreamsKnown, ActiveKnown, Follows, Armed, Unarmed
<1> QED BY <1>1, <1>2

LEMMA ItemKeeps ==
  ASSUME NEW n, NEW s \in Ingestion(n), NEW number \in Nat, NEW detail \in Text(n),
         Kept(s), StreamsKnown(s), ActiveKnown(s), ~s.failed,
         NEW new, new = Answer!OnItemCompleted(s, number, detail)
  PROVE  Steady(n, new, s)
<1>1. PICK id \in MessageName : id = IF s.active # NoMessage THEN s.active ELSE <<number, 0>>
  <2>1. s.active \in MessageName /\ <<number, 0>> \in MessageName
    BY IngestionIs DEF MessageName
  <2> QED BY <2>1
<1>2. PICK old : old = {m \in Answer!ToSet(s.messages) : m.id = id}
  OBVIOUS
<1>3. PICK fallback \in Text(n) : fallback = Answer!FallbackText(old, detail)
  BY NothingTyped DEF Answer!FallbackText
<1>4. PICK known : known = IF s.active = NoMessage THEN Answer!Remember(s, id) ELSE s
  OBVIOUS
<1>5. PICK projected : projected = (old # {})
  OBVIOUS
<1>6. PICK ended : ended = Answer!Finalize(known, id, projected, fallback)
  OBVIOUS
<1>7. PICK done : done = Answer!Forget(ended, id)
  OBVIOUS
<1>8. new = Answer!WithoutSegment(s) \/ new = Answer!WithoutSegment(done)
  BY <1>1, <1>2, <1>3, <1>4, <1>5, <1>6, <1>7
     DEF Answer!OnItemCompleted, NoMessage, Answer!MessageId
<1>9. CASE new = Answer!WithoutSegment(s)
  BY <1>9, WithoutSegmentIs
<1>10. /\ known \in Ingestion(n) /\ Kept(known) /\ StreamsKnown(known) /\ Follows(known, s)
       /\ known.messages = s.messages /\ ActiveKnown(known) /\ Known(known.remembered, id)
  <2>1. CASE s.active = NoMessage
    <3>1. known = Answer!Remember(s, id)
      BY <1>4, <2>1
    <3>2. /\ known \in Ingestion(n) /\ Kept(known) /\ StreamsKnown(known) /\ Follows(known, s)
          /\ known.messages = s.messages /\ known.active = s.active
          /\ Known(known.remembered, id)
      BY <3>1, RememberIs
    <3> QED BY <2>1, <3>2 DEF ActiveKnown
  <2>2. CASE s.active # NoMessage
    BY <1>1, <1>4, <2>2 DEF ActiveKnown, Follows
  <2> QED BY <2>1, <2>2
<1>11. id \in Streaming(known.messages) => projected
  <2> SUFFICES ASSUME id \in Streaming(known.messages)  PROVE old # {}
    BY <1>5
  <2>1. s.messages \in Seq(MessageRow(n))
    BY IngestionIs
  <2>2. PICK i \in 1..Len(s.messages) : s.messages[i].id = id
    BY <1>10, <2>1, SomeStreams DEF Row
  <2>3. s.messages[i] \in Answer!ToSet(s.messages)
    BY <2>1 DEF Answer!ToSet
  <2> QED BY <1>2, <2>2, <2>3
<1>12. /\ ended \in Ingestion(n) /\ Kept(ended) /\ StreamsKnown(ended) /\ SameNames(ended, known)
       /\ Follows(ended, known)
       /\ ~ended.failed => /\ Streaming(ended.messages) \subseteq Streaming(known.messages) \ {id}
                           /\ id \notin DOMAIN ended.buffer
  BY <1>6, <1>10, <1>11, FinalizeKeeps
<1>13. /\ done \in Ingestion(n) /\ Kept(done) /\ StreamsKnown(done) /\ Follows(done, ended)
       /\ done.failed => ActiveKnown(done)
  <2>1. CASE ended.failed
    <3>1. done = ended
      BY <1>7, <2>1 DEF Answer!Forget
    <3> QED BY <1>10, <1>12, <3>1 DEF ActiveKnown, SameNames, Follows
  <2>2. CASE ~ended.failed
    <3>1. id \notin Streaming(ended.messages) /\ id \notin DOMAIN ended.buffer
      BY <1>12, <2>2
    <3>2. /\ done \in Ingestion(n) /\ Kept(done) /\ StreamsKnown(done) /\ Follows(done, ended)
          /\ done.failed = ended.failed
      BY <1>7, <1>12, <2>2, <3>1, ForgetIs
    <3> QED BY <2>2, <3>2
  <2> QED BY <2>1, <2>2
<1>14. CASE new = Answer!WithoutSegment(done)
  <2>1. Steady(n, new, done)
    BY <1>13, <1>14, WithoutSegmentIs
  <2>2. Follows(new, s)
    BY <1>10, <1>12, <1>13, <2>1 DEF Steady, Follows
  <2> QED BY <2>1, <2>2 DEF Steady
<1> QED BY <1>8, <1>9, <1>14

LEMMA SessionSetIs ==
  ASSUME NEW n, NEW s \in Ingestion(n), NEW new, new = Answer!SessionSet(s), ~s.failed
  PROVE  /\ new \in Ingestion(n) /\ SameNames(new, s) /\ SameTexts(new, s) /\ Follows(new, s)
         /\ new.messages = s.messages
<1>1. s.failAt \in Nat
  BY IngestionIs
<1>2. CASE s.failAt = 1
  <2>1. PICK v \in BOOLEAN : v /\ new = [s EXCEPT !.failed = v]
    BY <1>2 DEF Answer!SessionSet
  <2>2. /\ new \in Ingestion(n)
        /\ new.failed /\ new.remembered = s.remembered /\ new.buffer = s.buffer
        /\ new.active = s.active /\ new.segment = s.segment /\ new.messages = s.messages
    BY <2>1 DEF Ingestion
  <2> QED BY <1>2, <2>2 DEF SameNames, SameTexts, Follows, Armed, Unarmed
<1>3. CASE s.failAt # 1
  <2>1. PICK k : /\ k = IF s.failAt = 0 THEN 0 ELSE s.failAt - 1
                 /\ new = [s EXCEPT !.failAt = k]
    BY <1>3 DEF Answer!SessionSet
  <2>2. k \in Nat /\ (k = 0 <=> s.failAt = 0)
    BY <1>1, <1>3, <2>1
  <2>3. /\ new \in Ingestion(n)
        /\ new.remembered = s.remembered /\ new.buffer = s.buffer /\ new.active = s.active
        /\ new.segment = s.segment /\ new.messages = s.messages /\ new.failAt = k
        /\ new.failed = s.failed
    BY <2>1, <2>2 DEF Ingestion
  <2>4. k > 0 <=> s.failAt > 0
    BY <1>1, <2>2
  <2> QED BY <2>2, <2>3, <2>4 DEF SameNames, SameTexts, Follows, Armed, Unarmed
<1> QED BY <1>2, <1>3

LEMMA TurnEndKeeps ==
  ASSUME NEW n, NEW s \in Ingestion(n), Kept(s), StreamsKnown(s), ActiveKnown(s), ~s.failed,
         NEW new, new = Answer!OnTurnCompleted(s)
  PROVE  Steady(n, new, s) /\ (~new.failed => new.remembered = <<>>)
<1>1. PICK told : told = Answer!SessionSet(s)
  OBVIOUS
<1>2. /\ told \in Ingestion(n) /\ SameNames(told, s) /\ SameTexts(told, s) /\ Follows(told, s)
      /\ told.messages = s.messages
  BY <1>1, SessionSetIs
<1>3. Kept(told) /\ StreamsKnown(told) /\ ActiveKnown(told)
  BY <1>2 DEF SameNames, SameTexts, Kept, StreamsKnown, ActiveKnown
<1>4. PICK done : done = Answer!FinalizeAll(told, told.messages, told.remembered)
  OBVIOUS
<1>5. /\ done \in Ingestion(n) /\ Kept(done) /\ StreamsKnown(done)
      /\ SameNames(done, told) /\ Follows(done, told)
      /\ ~done.failed => Streaming(done.messages) = {} /\ DOMAIN done.buffer = {}
  BY <1>2, <1>3, <1>4, FinalizeAllKeeps
<1>6. ActiveKnown(done) /\ Follows(done, s)
  BY <1>2, <1>3, <1>5 DEF SameNames, ActiveKnown, Follows
<1>7. PICK closed : closed = Answer!WithoutSegment(done)
  OBVIOUS
<1>8. new = IF done.failed THEN done ELSE [closed EXCEPT !.remembered = <<>>]
  BY <1>1, <1>2, <1>4, <1>7 DEF Answer!OnTurnCompleted, SameNames
<1>9. CASE done.failed
  BY <1>5, <1>6, <1>8, <1>9 DEF Steady
<1>10. CASE ~done.failed
  <2>1. /\ Steady(n, closed, done)
        /\ closed.messages = done.messages /\ closed.buffer = done.buffer
        /\ closed.active = NoMessage
    BY <1>5, <1>7, <1>10, WithoutSegmentIs
  <2>2. <<>> \in Seq(MessageName)
    OBVIOUS
  <2>3. closed \in Ingestion(n)
    BY <2>1 DEF Steady
  <2>4. /\ new \in Ingestion(n) /\ new.remembered = <<>> /\ new.active = closed.active
        /\ new.messages = closed.messages /\ new.buffer = closed.buffer
        /\ new.failed = closed.failed /\ new.failAt = closed.failAt
    BY <1>8, <1>10, <2>2, <2>3 DEF Ingestion
  <2>5. StreamsKnown(new) /\ ActiveKnown(new)
    BY <1>5, <1>10, <2>1, <2>4 DEF StreamsKnown, ActiveKnown
  <2>6. Kept(new)
    BY <1>5, <1>10, <2>1, <2>4 DEF Kept, OnceEach
  <2>7. Follows(new, s)
    BY <1>6, <2>1, <2>4 DEF Steady, Follows, Armed, Unarmed
  <2> QED BY <2>4, <2>5, <2>6, <2>7 DEF Steady
<1> QED BY <1>9, <1>10

LEMMA ExitKeeps ==
  ASSUME NEW n, NEW s \in Ingestion(n), Kept(s), ActiveKnown(s), ~s.failed,
         NEW new, new = Answer!OnSessionExited(s)
  PROVE  new \in Ingestion(n) /\ Kept(new) /\ ActiveKnown(new) /\ Follows(new, s)
<1>1. PICK told : told = Answer!SessionSet(s)
  OBVIOUS
<1>2. /\ told \in Ingestion(n) /\ SameNames(told, s) /\ SameTexts(told, s) /\ Follows(told, s)
      /\ told.messages = s.messages
  BY <1>1, SessionSetIs
<1>3. CASE told.failed
  <2>1. new = told
    BY <1>1, <1>3 DEF Answer!OnSessionExited
  <2> QED BY <1>2, <2>1 DEF SameNames, SameTexts, Kept, ActiveKnown
<1>4. CASE ~told.failed
  <2>1. PICK left \in Texts(n) :
          /\ left = [x \in DOMAIN s.buffer \ Answer!ToSet(s.remembered) |-> s.buffer[x]]
          /\ DOMAIN left = {}
    <3>1. DOMAIN s.buffer \ Answer!ToSet(s.remembered) = {}
      BY IngestionIs DEF Kept, Known, Answer!ToSet
    <3>2. PICK left : left = [x \in DOMAIN s.buffer \ Answer!ToSet(s.remembered) |-> s.buffer[x]]
      OBVIOUS
    <3>a. PICK ids \in SUBSET MessageName : ids = {}
      OBVIOUS
    <3>3. left \in [ids -> Text(n)] /\ DOMAIN left = {}
      BY <3>1, <3>2, <3>a
    <3>4. left \in Texts(n)
      BY <3>3, TextsMade
    <3> QED BY <3>2, <3>3, <3>4
  <2>2. PICK seg \in SegmentRecord, id \in MessageName : seg = Answer!NoSegment /\ id = NoMessage
    <3>1. Answer!NoSegment \in SegmentRecord
      BY DEF Answer!NoSegment, SegmentRecord
    <3> QED BY <3>1, NothingTyped
  <2>3. new = [told EXCEPT !.remembered = <<>>, !.segment = seg, !.active = id, !.buffer = left]
    BY <1>1, <1>4, <2>1, <2>2 DEF Answer!OnSessionExited, NoMessage
  <2>4. <<>> \in Seq(MessageName)
    OBVIOUS
  <2>5. /\ new \in Ingestion(n) /\ new.remembered = <<>> /\ new.active = id
        /\ new.messages = told.messages /\ new.buffer = left
        /\ new.failed = told.failed /\ new.failAt = told.failAt
    BY <1>2, <2>1, <2>2, <2>3, <2>4 DEF Ingestion
  <2>6. Kept(new)
    BY <1>2, <2>1, <2>5 DEF Kept, OnceEach
  <2> QED BY <1>2, <2>2, <2>5, <2>6 DEF ActiveKnown, Follows, Armed, Unarmed
<1> QED BY <1>3, <1>4

-----------------------------------------------------------------------------
(* Whatever fails: what is kept is of its type, and nothing that is        *)
(* buffered or streams is forgotten.                                       *)
ItemRecord(n) == [number : Nat, text : Text(n)]

AnswerTyped ==
  /\ buffered \in BOOLEAN /\ blank \in SUBSET (1..MaxDeltas)
  /\ turn \in {"running", "completed", "failed", "exited"}
  /\ sent \in 0..MaxDeltas /\ items \in 0..MaxItems
  /\ pauses \in 0..MaxPauses /\ faults \in 0..MaxFaults
  /\ item \in ItemRecord(sent)
  /\ state \in Ingestion(sent) /\ state.failAt = 0 /\ ~state.failed

AnyAnswer ==
  /\ AnswerTyped
  /\ Kept(state) /\ ActiveKnown(state)
  /\ turn # "exited" => StreamsKnown(state)
  /\ turn = "completed" => state.remembered = <<>>

AnswerBounds ==
  MaxBuffer \in Nat /\ MaxItems \in Nat /\ MaxDeltas \in Nat /\ MaxPauses \in Nat /\ MaxFaults \in Nat

(* The state from which an event is handled.                               *)
LEMMA BeforeIs ==
  ASSUME AnyAnswer, AnswerBounds, NEW s \in Answer!Before
  PROVE  /\ s \in Ingestion(sent) /\ Kept(s) /\ ActiveKnown(s) /\ ~s.failed
         /\ StreamsKnown(state) => StreamsKnown(s)
         /\ SameNames(s, state) /\ SameTexts(s, state) /\ s.messages = state.messages
         /\ faults >= MaxFaults => Unarmed(s)
         /\ s.failAt = 0 => s = state
<1>1. state \in Ingestion(sent) /\ state.failAt = 0 /\ ~state.failed
  BY DEF AnyAnswer, AnswerTyped
<1>2. PICK k \in 0..(IF faults < MaxFaults THEN 4 ELSE 0) : s = [state EXCEPT !.failAt = k]
  BY DEF Answer!Before
<1>3. k \in Nat /\ (faults >= MaxFaults => k = 0)
  BY <1>2 DEF AnyAnswer, AnswerTyped, AnswerBounds
<1>4. /\ s \in Ingestion(sent) /\ s.failAt = k
      /\ s.remembered = state.remembered /\ s.buffer = state.buffer /\ s.active = state.active
      /\ s.segment = state.segment /\ s.messages = state.messages /\ s.failed = state.failed
  BY <1>1, <1>2, <1>3 DEF Ingestion
<1>5. s.failAt = 0 => s = state
  BY <1>1, <1>2, <1>4 DEF Ingestion
<1>6. Kept(s) /\ ActiveKnown(s) /\ (StreamsKnown(state) => StreamsKnown(s))
  BY <1>4 DEF AnyAnswer, Kept, ActiveKnown, StreamsKnown
<1>7. ~s.failed /\ (faults >= MaxFaults => Unarmed(s))
  BY <1>1, <1>3, <1>4 DEF Unarmed
<1> QED BY <1>4, <1>5, <1>6, <1>7 DEF SameNames, SameTexts

(* When no dispatch failed, none was to fail.                              *)
LEMMA HandledIs ==
  ASSUME AnyAnswer, AnswerBounds, NEW s \in Answer!Before,
         NEW n, NEW h \in Ingestion(n), Kept(h), ActiveKnown(h), Follows(h, s), Answer!Handled(h)
  PROVE  /\ state' \in Ingestion(n) /\ Kept(state') /\ ActiveKnown(state')
         /\ state'.failAt = 0 /\ ~state'.failed /\ SameNames(state', h)
         /\ state'.messages = h.messages /\ state'.buffer = h.buffer
         /\ faults' \in 0..MaxFaults /\ faults' >= faults
         /\ Answer!Failed <=> h.failed
         /\ faults' = 0 => faults = 0 /\ s = state /\ h = state' /\ ~h.failed
<1>1. state' = [h EXCEPT !.failAt = 0, !.failed = FALSE]
  BY DEF Answer!Handled
<1>2. /\ state' \in Ingestion(n) /\ state'.failAt = 0 /\ ~state'.failed
      /\ state'.remembered = h.remembered /\ state'.buffer = h.buffer /\ state'.active = h.active
      /\ state'.segment = h.segment /\ state'.messages = h.messages
  BY <1>1 DEF Ingestion
<1>3. Kept(state') /\ ActiveKnown(state')
  BY <1>2 DEF Kept, ActiveKnown
<1>4. faults' = faults + (IF h.failed THEN 1 ELSE 0) /\ faults \in 0..MaxFaults /\ MaxFaults \in Nat
  BY DEF Answer!Handled, AnyAnswer, AnswerTyped, AnswerBounds
<1>5. h.failed => ~(faults >= MaxFaults)
  BY BeforeIs DEF Follows, Unarmed
<1>6. /\ faults' \in 0..MaxFaults /\ faults' >= faults
      /\ Answer!Failed <=> h.failed
      /\ faults' = 0 => faults = 0 /\ ~h.failed
  BY <1>4, <1>5 DEF Answer!Failed
<1>7. ASSUME ~h.failed  PROVE h = state' /\ s = state
  <2>1. h.failAt = 0
    BY <1>7, IngestionIs DEF Answer!Handled
  <2>2. h = state'
    BY <1>1, <1>7, <2>1 DEF Ingestion
  <2>3. ~Armed(s)
    BY <1>7, <2>1 DEF Follows, Armed
  <2>4. s.failAt = 0
    <3>1. s.failAt \in Nat
      BY BeforeIs, IngestionIs
    <3> QED BY <2>3, <3>1 DEF Armed
  <2> QED BY <2>2, <2>4, BeforeIs
<1> QED BY <1>2, <1>3, <1>6, <1>7 DEF SameNames

(* An event, and what of it is left when nothing failed.                   *)
Setting == buffered' = buffered /\ blank' = blank

LEMMA DeltaIs ==
  ASSUME AnyAnswer, AnswerBounds, Answer!ContentDelta, Setting
  PROVE  /\ AnyAnswer'
         /\ faults' = 0 => faults = 0 /\ state' = Answer!OnDelta(state, item'.number, sent')
<1>1. /\ sent \in Nat /\ sent' = sent + 1 /\ sent' \in 0..MaxDeltas /\ items' \in 0..MaxItems
      /\ turn = "running" /\ turn' = turn /\ pauses' = pauses
  BY DEF AnyAnswer, AnswerTyped, AnswerBounds, Answer!ContentDelta
<1>2. PICK n \in Nat : n = sent'
  BY <1>1
<1>3. item' \in ItemRecord(n)
  <2>1. Text(sent) \subseteq Text(n)
    BY <1>1, <1>2, MoreDeltas
  <2>2. n \in 1..n
    BY <1>1, <1>2
  <2>3. item \in ItemRecord(sent)
    BY DEF AnyAnswer, AnswerTyped
  <2>4. CASE item # Answer!NoItem
    <3>1. item' = [item EXCEPT !.text = Append(@, n)]
      BY <1>1, <1>2, <2>4 DEF Answer!ContentDelta
    <3>2. item.text \in Text(n)
      BY <2>1, <2>3 DEF ItemRecord
    <3>3. Append(item.text, n) \in Text(n)
      BY <2>2, <3>2 DEF Text
    <3> QED BY <2>3, <3>1, <3>3 DEF ItemRecord
  <2>5. CASE item = Answer!NoItem
    <3>1. item' = [number |-> items + 1, text |-> <<n>>] /\ items + 1 \in Nat
      BY <1>1, <1>2, <2>5 DEF Answer!ContentDelta, AnyAnswer, AnswerTyped, AnswerBounds
    <3>2. <<n>> \in Text(n)
      BY <2>2 DEF Text
    <3> QED BY <3>1, <3>2 DEF ItemRecord
  <2> QED BY <2>4, <2>5
<1>a. PICK number \in Nat : number = item'.number
  BY <1>3 DEF ItemRecord
<1>4. PICK s \in Answer!Before : Answer!Handled(Answer!OnDelta(s, number, n))
  BY <1>2, <1>a DEF Answer!ContentDelta
<1>5. PICK h : h = Answer!OnDelta(s, number, n)
  OBVIOUS
<1>6. s \in Ingestion(n) /\ Kept(s) /\ StreamsKnown(s) /\ ~s.failed
  <2>1. s \in Ingestion(sent) /\ Kept(s) /\ StreamsKnown(s) /\ ~s.failed
    BY <1>1, BeforeIs DEF AnyAnswer
  <2>2. Ingestion(sent) \subseteq Ingestion(n)
    BY <1>1, <1>2, MoreDeltas
  <2> QED BY <2>1, <2>2
<1>7. n \in 1..n /\ MaxBuffer \in Nat
  BY <1>1, <1>2 DEF AnswerBounds
<1>8. Steady(n, h, s)
  BY <1>5, <1>6, <1>7, DeltaKeeps
<1>9. /\ state' \in Ingestion(n) /\ Kept(state') /\ ActiveKnown(state')
      /\ state'.failAt = 0 /\ ~state'.failed /\ SameNames(state', h)
      /\ state'.messages = h.messages
      /\ faults' \in 0..MaxFaults
      /\ faults' = 0 => faults = 0 /\ s = state /\ h = state'
  BY <1>4, <1>5, <1>8, HandledIs DEF Steady
<1>10. StreamsKnown(state')
  BY <1>8, <1>9 DEF Steady, StreamsKnown, SameNames
<1>11. AnswerTyped'
  BY <1>1, <1>2, <1>3, <1>9 DEF AnyAnswer, AnswerTyped, Setting
<1>12. AnyAnswer'
  BY <1>1, <1>9, <1>10, <1>11 DEF AnyAnswer
<1> QED BY <1>2, <1>a, <1>5, <1>9, <1>12

LEMMA PauseIs ==
  ASSUME AnyAnswer, AnswerBounds, Answer!Pause, Setting
  PROVE  /\ AnyAnswer'
         /\ faults' = 0 => faults = 0 /\ state' = Answer!OnPause(state)
<1>1. /\ pauses' \in 0..MaxPauses /\ turn = "running" /\ turn' = turn
      /\ sent' = sent /\ items' = items /\ item' = item
  BY DEF AnyAnswer, AnswerTyped, AnswerBounds, Answer!Pause
<1>2. PICK n : n = sent
  OBVIOUS
<1>3. PICK s \in Answer!Before : Answer!Handled(Answer!OnPause(s))
  BY DEF Answer!Pause
<1>4. PICK h : h = Answer!OnPause(s)
  OBVIOUS
<1>5. s \in Ingestion(n) /\ Kept(s) /\ StreamsKnown(s) /\ ActiveKnown(s)
  BY <1>1, <1>2, BeforeIs DEF AnyAnswer
<1>6. Steady(n, h, s)
  BY <1>4, <1>5, PauseKeeps
<1>7. /\ state' \in Ingestion(n) /\ Kept(state') /\ ActiveKnown(state')
      /\ state'.failAt = 0 /\ ~state'.failed /\ SameNames(state', h)
      /\ state'.messages = h.messages
      /\ faults' \in 0..MaxFaults
      /\ faults' = 0 => faults = 0 /\ s = state /\ h = state'
  BY <1>3, <1>4, <1>6, HandledIs DEF Steady
<1>8. StreamsKnown(state')
  BY <1>6, <1>7 DEF Steady, StreamsKnown, SameNames
<1>9. AnswerTyped'
  BY <1>1, <1>2, <1>7 DEF AnyAnswer, AnswerTyped, Setting
<1>10. AnyAnswer'
  BY <1>1, <1>7, <1>8, <1>9 DEF AnyAnswer
<1> QED BY <1>4, <1>7, <1>10

LEMMA ItemIs ==
  ASSUME AnyAnswer, AnswerBounds, Setting,
         NEW n \in Nat, sent' = n, sent <= n, turn = "running", turn' = turn, pauses' = pauses,
         items' \in 0..MaxItems, item' = Answer!NoItem, sent' \in 0..MaxDeltas,
         NEW number \in Nat, NEW detail \in Text(n),
         NEW s \in Answer!Before, Answer!Handled(Answer!OnItemCompleted(s, number, detail))
  PROVE  /\ AnyAnswer'
         /\ faults' = 0 => faults = 0 /\ state' = Answer!OnItemCompleted(state, number, detail)
<1>1. PICK h : h = Answer!OnItemCompleted(s, number, detail)
  OBVIOUS
<1>2. s \in Ingestion(n) /\ Kept(s) /\ StreamsKnown(s) /\ ActiveKnown(s) /\ ~s.failed
  <2>1. s \in Ingestion(sent) /\ Kept(s) /\ StreamsKnown(s) /\ ActiveKnown(s) /\ ~s.failed
    BY BeforeIs DEF AnyAnswer
  <2>2. sent \in Nat
    BY DEF AnyAnswer, AnswerTyped, AnswerBounds
  <2>3. Ingestion(sent) \subseteq Ingestion(n)
    BY <2>2, MoreDeltas
  <2> QED BY <2>1, <2>3
<1>3. Steady(n, h, s)
  BY <1>1, <1>2, ItemKeeps
<1>4. /\ state' \in Ingestion(n) /\ Kept(state') /\ ActiveKnown(state')
      /\ state'.failAt = 0 /\ ~state'.failed /\ SameNames(state', h)
      /\ state'.messages = h.messages
      /\ faults' \in 0..MaxFaults
      /\ faults' = 0 => faults = 0 /\ s = state /\ h = state'
  BY <1>1, <1>3, HandledIs DEF Steady
<1>5. StreamsKnown(state')
  BY <1>3, <1>4 DEF Steady, StreamsKnown, SameNames
<1>6. item' \in ItemRecord(n)
  BY NothingTyped DEF Answer!NoItem, ItemRecord
<1>7. AnswerTyped'
  BY <1>4, <1>6 DEF AnyAnswer, AnswerTyped, Setting
<1>8. AnyAnswer'
  BY <1>4, <1>5, <1>7 DEF AnyAnswer
<1> QED BY <1>1, <1>4, <1>8

LEMMA ItemCompletedIs ==
  ASSUME AnyAnswer, AnswerBounds, Answer!ItemCompleted, Setting
  PROVE  /\ AnyAnswer'
         /\ faults' = 0 => /\ faults = 0
                           /\ \E detail \in {<<>>, item.text} :
                                state' = Answer!OnItemCompleted(state, item.number, detail)
<1>1. /\ sent \in Nat /\ sent' = sent /\ sent \in 0..MaxDeltas /\ turn = "running" /\ turn' = turn
      /\ pauses' = pauses /\ items' \in 0..MaxItems /\ item' = Answer!NoItem
      /\ item \in ItemRecord(sent)
  BY DEF AnyAnswer, AnswerTyped, AnswerBounds, Answer!ItemCompleted
<1>2. PICK n \in Nat : n = sent
  BY <1>1
<1>3. PICK number \in Nat : number = item.number
  BY <1>1 DEF ItemRecord
<1>4. PICK s \in Answer!Before, detail \in {<<>>, item.text} :
        Answer!Handled(Answer!OnItemCompleted(s, item.number, detail))
  BY DEF Answer!ItemCompleted
<1>5. detail \in Text(n)
  BY <1>1, <1>2, <1>4, NothingTyped DEF ItemRecord
<1>6. Answer!Handled(Answer!OnItemCompleted(s, number, detail))
  BY <1>3, <1>4
<1>7. sent' = n /\ sent <= n /\ sent' \in 0..MaxDeltas
  BY <1>1, <1>2
<1>8. AnyAnswer'
  BY <1>1, <1>5, <1>6, <1>7, ItemIs
<1>9. faults' = 0 => faults = 0 /\ state' = Answer!OnItemCompleted(state, number, detail)
  BY <1>1, <1>5, <1>6, <1>7, ItemIs
<1> QED BY <1>3, <1>8, <1>9

LEMMA WholeItemIs ==
  ASSUME AnyAnswer, AnswerBounds, Answer!WholeItemCompleted, Setting
  PROVE  /\ AnyAnswer'
         /\ faults' = 0 => /\ faults = 0
                           /\ state' = Answer!OnItemCompleted(state, items', <<sent'>>)
<1>1. /\ sent \in Nat /\ sent' = sent + 1 /\ sent' \in 0..MaxDeltas /\ turn = "running"
      /\ turn' = turn /\ pauses' = pauses /\ items' \in 0..MaxItems /\ items' \in Nat
      /\ item' = Answer!NoItem
  BY DEF AnyAnswer, AnswerTyped, AnswerBounds, Answer!WholeItemCompleted
<1>2. PICK n \in Nat : n = sent'
  BY <1>1
<1>3. PICK number \in Nat : number = items'
  BY <1>1
<1>4. PICK s \in Answer!Before : Answer!Handled(Answer!OnItemCompleted(s, items', <<sent'>>))
  BY DEF Answer!WholeItemCompleted
<1>5. PICK detail \in Text(n) : detail = <<sent'>>
  <2>1. n \in 1..n
    BY <1>1, <1>2
  <2>2. <<n>> \in Text(n)
    BY <2>1 DEF Text
  <2> QED BY <1>2, <2>2
<1>6. Answer!Handled(Answer!OnItemCompleted(s, number, detail))
  BY <1>3, <1>4, <1>5
<1>7. sent' = n /\ sent <= n /\ sent' \in 0..MaxDeltas
  BY <1>1, <1>2
<1>8. AnyAnswer'
  BY <1>1, <1>6, <1>7, ItemIs
<1>9. faults' = 0 => faults = 0 /\ state' = Answer!OnItemCompleted(state, number, detail)
  BY <1>1, <1>6, <1>7, ItemIs
<1> QED BY <1>3, <1>5, <1>8, <1>9

LEMMA TurnEndIs ==
  ASSUME AnyAnswer, AnswerBounds, Answer!TurnCompleted, Setting
  PROVE  /\ AnyAnswer'
         /\ faults' = 0 => faults = 0 /\ state' = Answer!OnTurnCompleted(state) /\ turn' = "completed"
<1>1. /\ turn = "running" /\ turn' = IF Answer!Failed THEN "failed" ELSE "completed"
      /\ sent' = sent /\ items' = items /\ item' = item /\ pauses' = pauses
  BY DEF Answer!TurnCompleted
<1>2. PICK n : n = sent
  OBVIOUS
<1>3. PICK s \in Answer!Before : Answer!Handled(Answer!OnTurnCompleted(s))
  BY DEF Answer!TurnCompleted
<1>4. PICK h : h = Answer!OnTurnCompleted(s)
  OBVIOUS
<1>5. s \in Ingestion(n) /\ Kept(s) /\ StreamsKnown(s) /\ ActiveKnown(s) /\ ~s.failed
  BY <1>1, <1>2, BeforeIs DEF AnyAnswer
<1>6. Steady(n, h, s) /\ (~h.failed => h.remembered = <<>>)
  BY <1>4, <1>5, TurnEndKeeps
<1>7. /\ state' \in Ingestion(n) /\ Kept(state') /\ ActiveKnown(state')
      /\ state'.failAt = 0 /\ ~state'.failed /\ SameNames(state', h)
      /\ state'.messages = h.messages
      /\ faults' \in 0..MaxFaults
      /\ faults' = 0 => faults = 0 /\ s = state /\ h = state' /\ ~h.failed
      /\ Answer!Failed <=> h.failed
  BY <1>3, <1>4, <1>6, HandledIs DEF Steady
<1>8. StreamsKnown(state')
  BY <1>6, <1>7 DEF Steady, StreamsKnown, SameNames
<1>9. AnswerTyped'
  BY <1>1, <1>2, <1>7 DEF AnyAnswer, AnswerTyped, Setting
<1>10. turn' = "completed" => state'.remembered = <<>>
  BY <1>1, <1>6, <1>7 DEF SameNames
<1>11. AnyAnswer'
  BY <1>1, <1>7, <1>8, <1>9, <1>10 DEF AnyAnswer
<1> QED BY <1>1, <1>4, <1>7, <1>11

LEMMA ExitIs ==
  ASSUME AnyAnswer, AnswerBounds, Answer!SessionExited, Setting
  PROVE  AnyAnswer' /\ turn' = "exited"
<1>1. /\ turn' = "exited"
      /\ sent' = sent /\ items' = items /\ item' = item /\ pauses' = pauses
  BY DEF Answer!SessionExited
<1>2. PICK n : n = sent
  OBVIOUS
<1>3. PICK s \in Answer!Before : Answer!Handled(Answer!OnSessionExited(s))
  BY DEF Answer!SessionExited
<1>4. PICK h : h = Answer!OnSessionExited(s)
  OBVIOUS
<1>5. s \in Ingestion(n) /\ Kept(s) /\ ActiveKnown(s) /\ ~s.failed
  BY <1>2, BeforeIs DEF AnyAnswer
<1>6. h \in Ingestion(n) /\ Kept(h) /\ ActiveKnown(h) /\ Follows(h, s)
  BY <1>4, <1>5, ExitKeeps
<1>7. /\ state' \in Ingestion(n) /\ Kept(state') /\ ActiveKnown(state')
      /\ state'.failAt = 0 /\ ~state'.failed
      /\ faults' \in 0..MaxFaults
  BY <1>3, <1>4, <1>6, HandledIs
<1>8. AnswerTyped'
  BY <1>1, <1>2, <1>7 DEF AnyAnswer, AnswerTyped, Setting
<1>9. AnyAnswer'
  BY <1>1, <1>7, <1>8 DEF AnyAnswer
<1> QED BY <1>1, <1>9

-----------------------------------------------------------------------------
(* As long as no dispatch failed: the messages, and the rest of the last   *)
(* one in the buffer, have each visible delta, in the order of their       *)
(* sending.                                                                *)
Holds(text, d) == \E k \in 1..Len(text) : text[k] = d
Rising(text) == \A k, l \in 1..Len(text) : k < l => text[k] < text[l]
AllBefore(text, rest) == \A k \in 1..Len(text), l \in 1..Len(rest) : text[k] < rest[l]
OrderedRows(rows) ==
  /\ \A i \in 1..Len(rows) : Rising(rows[i].text)
  /\ \A i, j \in 1..Len(rows) : i < j => AllBefore(rows[i].text, rows[j].text)
InOrder(rows, rest) ==
  /\ OrderedRows(rows) /\ Rising(rest)
  /\ \A i \in 1..Len(rows) : AllBefore(rows[i].text, rest)
Shown(rows, rest, d) == Holds(rest, d) \/ \E i \in 1..Len(rows) : Holds(rows[i].text, d)
Told(rows, rest, m) ==
  InOrder(rows, rest) /\ \A d \in (1..m) \ blank : Shown(rows, rest, d)

LastOnly(rows, id) == \A i \in 1..Len(rows) : rows[i].id = id => i = Len(rows)
NoneEmpty(rows) == \A i \in 1..Len(rows) : rows[i].text # <<>>

LEMMA JoinedIs ==
  ASSUME NEW n, NEW text \in Text(n), NEW rest \in Text(n), NEW new, new = text \o rest
  PROVE  /\ new \in Text(n)
         /\ \A d : Holds(new, d) <=> Holds(text, d) \/ Holds(rest, d)
         /\ Rising(text) /\ Rising(rest) /\ AllBefore(text, rest) => Rising(new)
         /\ \A before \in Text(n) :
              AllBefore(before, text) /\ AllBefore(before, rest) => AllBefore(before, new)
<1>1. /\ new \in Text(n) /\ Len(new) = Len(text) + Len(rest)
      /\ Len(text) \in Nat /\ Len(rest) \in Nat
      /\ \A k \in 1..Len(new) : new[k] = IF k <= Len(text) THEN text[k] ELSE rest[k - Len(text)]
  BY DEF Text
<1>2. ASSUME NEW d, Holds(new, d)  PROVE Holds(text, d) \/ Holds(rest, d)
  <2>1. PICK k \in 1..Len(new) : new[k] = d
    BY <1>2 DEF Holds
  <2>2. CASE k <= Len(text)
    <3>1. k \in 1..Len(text) /\ text[k] = d
      BY <1>1, <2>1, <2>2
    <3> QED BY <3>1 DEF Holds
  <2>3. CASE ~(k <= Len(text))
    <3>1. k - Len(text) \in 1..Len(rest) /\ rest[k - Len(text)] = d
      BY <1>1, <2>1, <2>3
    <3> QED BY <3>1 DEF Holds
  <2> QED BY <2>2, <2>3
<1>3. ASSUME NEW d, Holds(text, d) \/ Holds(rest, d)  PROVE Holds(new, d)
  <2>1. CASE Holds(text, d)
    <3>1. PICK k \in 1..Len(text) : text[k] = d
      BY <2>1 DEF Holds
    <3>2. k \in 1..Len(new) /\ new[k] = d
      BY <1>1, <3>1
    <3> QED BY <3>2 DEF Holds
  <2>2. CASE Holds(rest, d)
    <3>1. PICK k \in 1..Len(rest) : rest[k] = d
      BY <2>2 DEF Holds
    <3>2. k + Len(text) \in 1..Len(new) /\ ~(k + Len(text) <= Len(text)) /\ (k + Len(text)) - Len(text) = k
      BY <1>1
    <3>3. new[k + Len(text)] = d
      BY <1>1, <3>1, <3>2
    <3> QED BY <3>2, <3>3 DEF Holds
  <2> QED BY <1>3, <2>1, <2>2
<1>4. ASSUME Rising(text), Rising(rest), AllBefore(text, rest)  PROVE Rising(new)
  <2> SUFFICES ASSUME NEW k \in 1..Len(new), NEW l \in 1..Len(new), k < l
               PROVE  new[k] < new[l]
    BY DEF Rising
  <2>1. CASE l <= Len(text)
    <3>1. k \in 1..Len(text) /\ l \in 1..Len(text) /\ new[k] = text[k] /\ new[l] = text[l]
      BY <1>1, <2>1
    <3> QED BY <1>4, <3>1 DEF Rising
  <2>2. CASE k <= Len(text) /\ ~(l <= Len(text))
    <3>1. /\ k \in 1..Len(text) /\ l - Len(text) \in 1..Len(rest)
          /\ new[k] = text[k] /\ new[l] = rest[l - Len(text)]
      BY <1>1, <2>2
    <3> QED BY <1>4, <3>1 DEF AllBefore
  <2>3. CASE ~(k <= Len(text))
    <3>1. /\ k - Len(text) \in 1..Len(rest) /\ l - Len(text) \in 1..Len(rest)
          /\ k - Len(text) < l - Len(text)
          /\ new[k] = rest[k - Len(text)] /\ new[l] = rest[l - Len(text)]
      BY <1>1, <2>3
    <3> QED BY <1>4, <3>1 DEF Rising
  <2> QED BY <2>1, <2>2, <2>3
<1>5. ASSUME NEW before \in Text(n), AllBefore(before, text), AllBefore(before, rest)
      PROVE  AllBefore(before, new)
  <2> SUFFICES ASSUME NEW k \in 1..Len(before), NEW l \in 1..Len(new)
               PROVE  before[k] < new[l]
    BY DEF AllBefore
  <2>1. CASE l <= Len(text)
    <3>1. l \in 1..Len(text) /\ new[l] = text[l]
      BY <1>1, <2>1
    <3> QED BY <1>5, <3>1 DEF AllBefore
  <2>2. CASE ~(l <= Len(text))
    <3>1. l - Len(text) \in 1..Len(rest) /\ new[l] = rest[l - Len(text)]
      BY <1>1, <2>2
    <3> QED BY <1>5, <3>1 DEF AllBefore
  <2> QED BY <2>1, <2>2
<1> QED BY <1>1, <1>2, <1>3, <1>4, <1>5

(* The last message, of which rows knew the beginning or nothing.          *)
SentAtEnd(new, rows, id, text, streaming, before) ==
  /\ Len(new) >= 1 /\ new[Len(new)].id = id /\ new[Len(new)].streaming = streaming
  /\ new[Len(new)].text = before \o text
  /\ \A i \in 1..(Len(new) - 1) : i \in 1..Len(rows) /\ new[i] = rows[i]
  /\ \/ Len(rows) = Len(new) - 1 /\ before = <<>>
     \/ Len(rows) = Len(new) /\ rows[Len(rows)].id = id /\ before = rows[Len(rows)].text

LEMMA SentEnds ==
  ASSUME NEW n, NEW rows \in Seq(MessageRow(n)), NEW id \in MessageName, NEW text \in Text(n),
         NEW streaming \in Flag, OneRowEach(rows), LastOnly(rows, id),
         NEW new, new = Answer!Sent(rows, id, text, streaming)
  PROVE  \E before \in Text(n) : SentAtEnd(new, rows, id, text, streaming, before)
<1>0. Len(rows) \in Nat
  OBVIOUS
<1>1. CASE Row(rows, id)
  <2>1. Len(new) = Len(rows) /\ \A i \in 1..Len(rows) : new[i].id = rows[i].id
    BY <1>1, SentExtends
  <2>2. Len(rows) \in 1..Len(rows) /\ rows[Len(rows)].id = id
    BY <1>0, <1>1 DEF Row, LastOnly
  <2>3. \A i \in 1..(Len(rows) - 1) : i \in 1..Len(rows) /\ rows[i].id # id
    BY <1>0 DEF LastOnly
  <2>4. \A i \in 1..Len(rows) : rows[i].id # id => new[i] = rows[i]
    BY <1>1, SentExtends
  <2>5. \A i \in 1..Len(rows) : rows[i].id = id =>
          new[i].text = rows[i].text \o text /\ new[i].streaming = streaming
    BY <1>1, SentExtends
  <2>6. PICK before \in Text(n) : before = rows[Len(rows)].text
    BY <2>2, RowIs
  <2>7. /\ new[Len(new)].id = id /\ new[Len(new)].streaming = streaming
        /\ new[Len(new)].text = before \o text
    BY <2>1, <2>2, <2>5, <2>6
  <2>8. \A i \in 1..(Len(new) - 1) : i \in 1..Len(rows) /\ new[i] = rows[i]
    BY <2>1, <2>3, <2>4
  <2>9. SentAtEnd(new, rows, id, text, streaming, before)
    BY <1>0, <2>1, <2>2, <2>6, <2>7, <2>8 DEF SentAtEnd
  <2> QED BY <2>9
<1>2. CASE ~Row(rows, id)
  <2>1. /\ Len(new) = Len(rows) + 1
        /\ \A i \in 1..Len(rows) : new[i] = rows[i]
        /\ new[Len(new)].id = id /\ new[Len(new)].text = text
        /\ new[Len(new)].streaming = streaming
    BY <1>2, SentAppends
  <2>2. PICK before \in Text(n) : before = <<>> /\ before \o text = text
    <3>1. <<>> \in Text(n) /\ <<>> \o text = text
      BY DEF Text
    <3> QED BY <3>1
  <2>3. SentAtEnd(new, rows, id, text, streaming, before)
    BY <1>0, <2>1, <2>2 DEF SentAtEnd
  <2> QED BY <2>3
<1> QED BY <1>1, <1>2

LEMMA SentSays ==
  ASSUME NEW n, NEW rows \in Seq(MessageRow(n)), NEW id \in MessageName, NEW rest \in Text(n),
         NEW streaming \in Flag, OneRowEach(rows), LastOnly(rows, id),
         NEW new, new = Answer!Sent(rows, id, rest, streaming)
  PROVE  /\ LastOnly(new, id)
         /\ \A x : Row(new, x) <=> Row(rows, x) \/ x = id
         /\ NoneEmpty(rows) /\ (Row(rows, id) \/ rest # <<>>) => NoneEmpty(new)
<1>1. PICK before \in Text(n) : SentAtEnd(new, rows, id, rest, streaming, before)
  BY SentEnds
<1>2. PICK L : L = Len(new)
  OBVIOUS
<1>3. new \in Seq(MessageRow(n)) /\ OneRowEach(new)
  BY SentStreams
<1>4. L \in Nat /\ L >= 1 /\ L \in 1..Len(new) /\ Len(rows) \in Nat
  BY <1>1, <1>2, <1>3 DEF SentAtEnd
<1>5. \A i \in 1..(L - 1) : i \in 1..Len(rows) /\ new[i] = rows[i] /\ new[i].text = rows[i].text
  BY <1>1, <1>2 DEF SentAtEnd
<1>6. PICK last \in Text(n) : last = before \o rest /\ new[L].text = last /\ new[L].id = id
  BY <1>1, <1>2, JoinedIs DEF SentAtEnd
<1>7. \/ Len(rows) = L - 1 /\ before = <<>>
      \/ Len(rows) = L /\ rows[L].id = id /\ before = rows[L].text
  BY <1>1, <1>2 DEF SentAtEnd
<1>8. LastOnly(new, id)
  BY <1>2, <1>3, <1>4, <1>6 DEF OneRowEach, LastOnly
<1>9. ASSUME NEW x  PROVE Row(new, x) <=> Row(rows, x) \/ x = id
  <2>1. ASSUME Row(new, x)  PROVE Row(rows, x) \/ x = id
    <3>1. PICK i \in 1..Len(new) : new[i].id = x
      BY <2>1 DEF Row
    <3>2. CASE i = L
      BY <1>6, <3>1, <3>2
    <3>3. CASE i \in 1..(L - 1)
      BY <1>5, <3>1, <3>3 DEF Row
    <3> QED BY <1>2, <1>4, <3>2, <3>3
  <2>2. ASSUME Row(rows, x)  PROVE Row(new, x)
    <3>1. PICK i \in 1..Len(rows) : rows[i].id = x
      BY <2>2 DEF Row
    <3>2. CASE i \in 1..(L - 1)
      <4>1. i \in 1..Len(new) /\ new[i].id = x
        BY <1>2, <1>4, <1>5, <3>1, <3>2
      <4> QED BY <4>1 DEF Row
    <3>3. CASE i \notin 1..(L - 1)
      <4>1. i = L /\ rows[L].id = id
        BY <1>4, <1>7, <3>3
      <4> QED BY <1>4, <1>6, <3>1, <4>1 DEF Row
    <3> QED BY <3>2, <3>3
  <2>3. Row(new, id)
    BY <1>4, <1>6 DEF Row
  <2> QED BY <2>1, <2>2, <2>3
<1>10. ASSUME NoneEmpty(rows), Row(rows, id) \/ rest # <<>>  PROVE NoneEmpty(new)
  <2>1. last # <<>>
    <3>1. CASE rest # <<>>
      BY <1>6, <3>1 DEF Text
    <3>2. CASE Row(rows, id)
      <4>1. PICK i \in 1..Len(rows) : rows[i].id = id /\ i = Len(rows)
        BY <3>2 DEF Row, LastOnly
      <4>2. Len(rows) = L
        <5>1. ASSUME Len(rows) = L - 1  PROVE FALSE
          <6>1. i \in 1..(L - 1)
            BY <4>1, <5>1
          <6>2. new[i].id = id /\ i \in 1..Len(new)
            BY <1>2, <1>4, <1>5, <4>1, <6>1
          <6> QED BY <1>2, <1>4, <1>8, <5>1, <4>1, <6>2 DEF LastOnly
        <5> QED BY <1>7, <5>1
      <4>3. before = rows[L].text /\ L \in 1..Len(rows)
        BY <1>4, <1>7, <4>2
      <4>4. before # <<>>
        BY <1>10, <4>3 DEF NoneEmpty
      <4> QED BY <1>6, <4>4 DEF Text
    <3> QED BY <1>10, <3>1, <3>2
  <2>2. \A i \in 1..Len(new) : i = L \/ i \in 1..(L - 1)
    BY <1>2, <1>4
  <2> QED BY <1>5, <1>6, <1>10, <2>1, <2>2 DEF NoneEmpty
<1> QED BY <1>8, <1>9, <1>10

LEMMA SentTold ==
  ASSUME NEW n, NEW rows \in Seq(MessageRow(n)), NEW id \in MessageName, NEW rest \in Text(n),
         NEW streaming \in Flag, OneRowEach(rows), LastOnly(rows, id), NEW m, Told(rows, rest, m),
         NEW new, new = Answer!Sent(rows, id, rest, streaming)
  PROVE  Told(new, <<>>, m)
<1>1. PICK before \in Text(n) : SentAtEnd(new, rows, id, rest, streaming, before)
  BY SentEnds
<1>2. PICK L : L = Len(new)
  OBVIOUS
<1>3. new \in Seq(MessageRow(n)) /\ OneRowEach(new)
  BY SentStreams
<1>4. L \in Nat /\ L >= 1 /\ L \in 1..Len(new) /\ Len(rows) \in Nat
  BY <1>1, <1>2, <1>3 DEF SentAtEnd
<1>5. \A i \in 1..(L - 1) : i \in 1..Len(rows) /\ new[i] = rows[i] /\ new[i].text = rows[i].text
  BY <1>1, <1>2 DEF SentAtEnd
<1>6. PICK last \in Text(n) : last = before \o rest /\ new[L].text = last /\ new[L].id = id
  BY <1>1, <1>2, JoinedIs DEF SentAtEnd
<1>7. \/ Len(rows) = L - 1 /\ before = <<>>
      \/ Len(rows) = L /\ rows[L].id = id /\ before = rows[L].text
  BY <1>1, <1>2 DEF SentAtEnd
<1>8. InOrder(rows, rest)
  BY DEF Told
<1>9. Rising(before) /\ AllBefore(before, rest)
  <2>1. CASE Len(rows) = L - 1 /\ before = <<>>
    <3>1. Len(before) = 0
      BY <2>1
    <3> QED BY <3>1 DEF Rising, AllBefore
  <2>2. CASE Len(rows) = L /\ before = rows[L].text
    <3>1. L \in 1..Len(rows)
      BY <1>4, <2>2
    <3> QED BY <1>8, <2>2, <3>1 DEF InOrder, OrderedRows
  <2> QED BY <1>7, <2>1, <2>2
<1>10. Rising(last)
  <2>1. Rising(rest)
    BY <1>8 DEF InOrder
  <2> QED BY <1>6, <1>9, <2>1, JoinedIs
<1>11. ASSUME NEW i \in 1..(L - 1)  PROVE AllBefore(new[i].text, last)
  <2>1. i \in 1..Len(rows) /\ new[i].text = rows[i].text
    BY <1>5
  <2>2. PICK text \in Text(n) : text = rows[i].text
    BY <2>1, RowIs
  <2>3. AllBefore(text, rest)
    BY <1>8, <2>1, <2>2 DEF InOrder
  <2>4. AllBefore(text, before)
    <3>1. CASE Len(rows) = L - 1 /\ before = <<>>
      <4>1. Len(before) = 0
        BY <3>1
      <4> QED BY <4>1 DEF AllBefore
    <3>2. CASE Len(rows) = L /\ before = rows[L].text
      <4>1. L \in 1..Len(rows) /\ i < L
        BY <1>4, <3>2
      <4> QED BY <1>8, <2>1, <2>2, <3>2, <4>1 DEF InOrder, OrderedRows
    <3> QED BY <1>7, <3>1, <3>2
  <2>5. AllBefore(text, last)
    BY <1>6, <2>3, <2>4, JoinedIs
  <2> QED BY <2>1, <2>2, <2>5
<1>12. OrderedRows(new)
  <2>1. \A i \in 1..Len(new) : i = L \/ i \in 1..(L - 1)
    BY <1>2, <1>4
  <2>2. ASSUME NEW i \in 1..Len(new)  PROVE Rising(new[i].text)
    <3>1. CASE i = L
      BY <1>6, <1>10, <3>1
    <3>2. CASE i \in 1..(L - 1)
      BY <1>5, <1>8, <3>2 DEF InOrder, OrderedRows
    <3> QED BY <2>1, <3>1, <3>2
  <2>3. ASSUME NEW i \in 1..Len(new), NEW j \in 1..Len(new), i < j
        PROVE  AllBefore(new[i].text, new[j].text)
    <3>0. i \in 1..(L - 1)
      BY <1>2, <1>4, <2>3
    <3>1. CASE j = L
      BY <1>6, <1>11, <3>0, <3>1
    <3>2. CASE j \in 1..(L - 1)
      BY <1>5, <1>8, <2>3, <3>0, <3>2 DEF InOrder, OrderedRows
    <3> QED BY <2>1, <3>1, <3>2
  <2> QED BY <2>2, <2>3 DEF OrderedRows
<1>13. InOrder(new, <<>>)
  BY <1>12 DEF InOrder, Rising, AllBefore
<1>14. ASSUME NEW d, Shown(rows, rest, d)  PROVE Shown(new, <<>>, d)
  <2>1. CASE Holds(rest, d)
    <3>1. Holds(last, d)
      BY <1>6, <2>1, JoinedIs
    <3> QED BY <1>4, <1>6, <3>1 DEF Shown
  <2>2. ASSUME NEW i \in 1..Len(rows), Holds(rows[i].text, d)  PROVE Shown(new, <<>>, d)
    <3>1. CASE i \in 1..(L - 1)
      <4>1. i \in 1..Len(new) /\ new[i].text = rows[i].text
        BY <1>2, <1>4, <1>5, <3>1
      <4> QED BY <2>2, <4>1 DEF Shown
    <3>2. CASE i \notin 1..(L - 1)
      <4>1. i = L /\ before = rows[L].text
        BY <1>4, <1>7, <3>2
      <4>2. Holds(before, d)
        BY <2>2, <4>1
      <4>3. Holds(last, d)
        BY <1>6, <4>2, JoinedIs
      <4> QED BY <1>4, <1>6, <4>3 DEF Shown
    <3> QED BY <3>1, <3>2
  <2> QED BY <1>14, <2>1, <2>2 DEF Shown
<1> QED BY <1>13, <1>14 DEF Told

(* One more delta, at the end of the rest.                                 *)
LEMMA TellsMore ==
  ASSUME NEW m \in Nat, NEW rows \in Seq(MessageRow(m)), NEW rest \in Text(m), Told(rows, rest, m),
         NEW new, new = Append(rest, m + 1)
  PROVE  new \in Text(m + 1) /\ Told(rows, new, m + 1) /\ new # <<>>
<1>1. /\ Len(new) = Len(rest) + 1 /\ Len(rest) \in Nat /\ new[Len(new)] = m + 1
      /\ \A k \in 1..Len(rest) : new[k] = rest[k] /\ rest[k] \in 1..m
  BY DEF Text
<1>2. new \in Text(m + 1)
  <2>1. rest \in Text(m + 1) /\ m + 1 \in 1..(m + 1)
    BY MoreDeltas
  <2> QED BY <2>1 DEF Text
<1>3. Rising(new)
  <2>1. Rising(rest)
    BY DEF Told, InOrder
  <2>2. ASSUME NEW k \in 1..Len(new), NEW l \in 1..Len(new), k < l  PROVE new[k] < new[l]
    <3>1. k \in 1..Len(rest)
      BY <1>1, <2>2
    <3>2. CASE l = Len(new)
      BY <1>1, <3>1, <3>2
    <3>3. CASE l \in 1..Len(rest)
      BY <1>1, <2>1, <2>2, <3>1, <3>3 DEF Rising
    <3> QED BY <1>1, <3>2, <3>3
  <2> QED BY <2>2 DEF Rising
<1>4. ASSUME NEW i \in 1..Len(rows)  PROVE AllBefore(rows[i].text, new)
  <2>1. PICK text \in Text(m) : text = rows[i].text
    BY RowIs
  <2>2. AllBefore(text, rest)
    BY <2>1 DEF Told, InOrder
  <2>3. ASSUME NEW k \in 1..Len(text), NEW l \in 1..Len(new)  PROVE text[k] < new[l]
    <3>1. text[k] \in 1..m
      BY DEF Text
    <3>2. CASE l = Len(new)
      BY <1>1, <3>1, <3>2
    <3>3. CASE l \in 1..Len(rest)
      BY <1>1, <2>2, <3>3 DEF AllBefore
    <3> QED BY <1>1, <3>2, <3>3
  <2> QED BY <2>1, <2>3 DEF AllBefore
<1>5. ASSUME NEW d \in (1..(m + 1)) \ blank  PROVE Shown(rows, new, d)
  <2>1. CASE d = m + 1
    BY <1>1, <2>1 DEF Shown, Holds
  <2>2. CASE d \in 1..m
    <3>1. Shown(rows, rest, d)
      BY <2>2 DEF Told
    <3>2. Holds(rest, d) => Holds(new, d)
      <4>1. ASSUME NEW k \in 1..Len(rest), rest[k] = d  PROVE k \in 1..Len(new) /\ new[k] = d
        BY <1>1, <4>1
      <4> QED BY <4>1 DEF Holds
    <3> QED BY <3>1, <3>2 DEF Shown
  <2> QED BY <2>1, <2>2
<1>6. Told(rows, new, m + 1)
  BY <1>3, <1>4, <1>5 DEF Told, InOrder
<1>7. new # <<>>
  BY <1>1
<1> QED BY <1>2, <1>6, <1>7

(* White space may go.                                                     *)
LEMMA TellsLess ==
  ASSUME NEW n, NEW rows \in Seq(MessageRow(n)), NEW rest \in Text(n), NEW m, Told(rows, rest, m),
         ~Answer!Renderable(rest)
  PROVE  Told(rows, <<>>, m)
<1>1. InOrder(rows, <<>>)
  BY DEF Told, InOrder, Rising, AllBefore
<1>2. ASSUME NEW d \in (1..m) \ blank  PROVE Shown(rows, <<>>, d)
  <2>1. Shown(rows, rest, d)
    BY DEF Told
  <2>2. ~Holds(rest, d)
    BY DEF Holds, Answer!Renderable, Text
  <2> QED BY <2>1, <2>2 DEF Shown
<1> QED BY <1>1, <1>2 DEF Told

-----------------------------------------------------------------------------
(* The parts of a handler when no dispatch fails.                          *)
LEMMA DispatchCalm ==
  ASSUME NEW n, NEW s \in Ingestion(n), NEW id \in MessageName, NEW text \in Text(n),
         NEW streaming \in Flag, Kept(s), Unarmed(s),
         NEW new, new = Answer!Dispatch(s, id, text, streaming)
  PROVE  /\ new \in Ingestion(n) /\ Kept(new) /\ SameNames(new, s) /\ SameTexts(new, s)
         /\ Unarmed(new) /\ new.messages = Answer!Sent(s.messages, id, text, streaming)
<1>1. OneRowEach(s.messages) /\ s.messages \in Seq(MessageRow(n))
  BY IngestionIs DEF Kept
<1>2. PICK rows : rows = Answer!Sent(s.messages, id, text, streaming)
  OBVIOUS
<1>3. /\ new \in Ingestion(n) /\ SameNames(new, s) /\ SameTexts(new, s) /\ Follows(new, s)
      /\ (new.failed /\ new.messages = s.messages) \/ new.messages = rows
  BY <1>1, <1>2, DispatchTells
<1>4. Unarmed(new) /\ new.messages = rows
  BY <1>3 DEF Follows, Unarmed
<1>5. OneRowEach(rows)
  BY <1>1, <1>2, SentStreams
<1>6. Kept(new)
  BY <1>1, <1>3, <1>4, <1>5 DEF Kept, SameNames, SameTexts
<1> QED BY <1>2, <1>3, <1>4, <1>6

(* What is left of a message is told, and the message complete.            *)
ClosedFrom(new, rows, id, text, projected) ==
  /\ Answer!Renderable(text) =>
       new = Answer!Sent(Answer!Sent(rows, id, text, Opens), id, <<>>, Closes)
  /\ ~Answer!Renderable(text) /\ projected => new = Answer!Sent(rows, id, <<>>, Closes)
  /\ ~Answer!Renderable(text) /\ ~projected => new = rows

LEMMA FinalizeCalm ==
  ASSUME NEW n, NEW s \in Ingestion(n), NEW id \in MessageName, NEW projected,
         NEW fallback \in Text(n), Kept(s), Unarmed(s), NEW text \in Text(n),
         text = IF Answer!TextOf(s, id) # <<>> THEN Answer!TextOf(s, id)
                ELSE IF Answer!Renderable(fallback) THEN fallback ELSE <<>>,
         NEW new, new = Answer!Finalize(s, id, projected, fallback)
  PROVE  /\ new \in Ingestion(n) /\ Kept(new) /\ SameNames(new, s) /\ Unarmed(new)
         /\ DOMAIN new.buffer = DOMAIN s.buffer \ {id}
         /\ ClosedFrom(new.messages, s.messages, id, text, projected)
<1>1. PICK clear : clear = Answer!Cleared(s, id)
  OBVIOUS
<1>2. PICK told : told = IF Answer!Renderable(text) THEN Answer!Dispatch(clear, id, text, TRUE)
                         ELSE clear
  OBVIOUS
<1>3. new = IF projected \/ Answer!Renderable(text) THEN Answer!Dispatch(told, id, <<>>, FALSE)
            ELSE told
  BY <1>1, <1>2 DEF Answer!Finalize, Unarmed
<1>4. PICK open \in Flag, shut \in Flag, none \in Text(n) : open = Opens /\ shut = Closes /\ none = <<>>
  BY NothingTyped DEF Flag, Opens, Closes
<1>5. /\ clear \in Ingestion(n) /\ Kept(clear) /\ SameNames(clear, s) /\ Follows(clear, s)
      /\ clear.messages = s.messages /\ DOMAIN clear.buffer = DOMAIN s.buffer \ {id}
  BY <1>1, ClearedIs
<1>6. Unarmed(clear)
  BY <1>5 DEF Follows
<1>7. CASE Answer!Renderable(text)
  <2>1. told = Answer!Dispatch(clear, id, text, open)
    BY <1>2, <1>4, <1>7 DEF Opens
  <2>2. /\ told \in Ingestion(n) /\ Kept(told) /\ SameNames(told, clear) /\ SameTexts(told, clear)
        /\ Unarmed(told) /\ told.messages = Answer!Sent(clear.messages, id, text, open)
    BY <1>5, <1>6, <2>1, DispatchCalm
  <2>3. new = Answer!Dispatch(told, id, none, shut)
    BY <1>3, <1>4, <1>7 DEF Closes
  <2>4. /\ new \in Ingestion(n) /\ Kept(new) /\ SameNames(new, told) /\ SameTexts(new, told)
        /\ Unarmed(new) /\ new.messages = Answer!Sent(told.messages, id, none, shut)
    BY <2>2, <2>3, DispatchCalm
  <2>5. ClosedFrom(new.messages, s.messages, id, text, projected)
    BY <1>4, <1>5, <1>7, <2>2, <2>4 DEF ClosedFrom
  <2> QED BY <1>5, <2>2, <2>4, <2>5 DEF SameNames, SameTexts
<1>8. CASE ~Answer!Renderable(text) /\ projected
  <2>1. new = Answer!Dispatch(clear, id, none, shut)
    BY <1>2, <1>3, <1>4, <1>8 DEF Closes
  <2>2. /\ new \in Ingestion(n) /\ Kept(new) /\ SameNames(new, clear) /\ SameTexts(new, clear)
        /\ Unarmed(new) /\ new.messages = Answer!Sent(clear.messages, id, none, shut)
    BY <1>5, <1>6, <2>1, DispatchCalm
  <2>3. ClosedFrom(new.messages, s.messages, id, text, projected)
    BY <1>4, <1>5, <1>8, <2>2 DEF ClosedFrom
  <2> QED BY <1>5, <2>2, <2>3 DEF SameNames, SameTexts
<1>9. CASE ~Answer!Renderable(text) /\ ~projected
  <2>1. new = clear
    BY <1>2, <1>3, <1>9
  <2> QED BY <1>5, <1>6, <1>9, <2>1 DEF ClosedFrom
<1> QED BY <1>7, <1>8, <1>9

(* A message that is complete tells its rest, in order.                    *)
LEMMA ClosedTells ==
  ASSUME NEW n, NEW rows \in Seq(MessageRow(n)), NEW id \in MessageName, NEW text \in Text(n),
         NEW projected, OneRowEach(rows), LastOnly(rows, id), NoneEmpty(rows),
         Streaming(rows) \subseteq {id}, projected => Row(rows, id),
         Streaming(rows) # {} => projected,
         NEW new, ClosedFrom(new, rows, id, text, projected)
  PROVE  /\ NoneEmpty(new) /\ Streaming(new) = {}
         /\ \A x : Row(new, x) => Row(rows, x) \/ x = id
         /\ \A x : Row(rows, x) => Row(new, x)
         /\ Answer!Renderable(text) => Row(new, id)
         /\ \A m : Told(rows, text, m) => Told(new, <<>>, m)
<1>1. PICK open \in Flag, shut \in Flag, none \in Text(n) : open = Opens /\ shut = Closes /\ none = <<>>
  BY NothingTyped DEF Flag, Opens, Closes
<1>2. CASE Answer!Renderable(text)
  <2>1. PICK mid : mid = Answer!Sent(rows, id, text, open)
    OBVIOUS
  <2>2. new = Answer!Sent(mid, id, none, shut)
    BY <1>1, <1>2, <2>1 DEF ClosedFrom
  <2>3. /\ mid \in Seq(MessageRow(n)) /\ OneRowEach(mid)
        /\ Streaming(mid) = Streaming(rows) \cup {id}
    BY <1>1, <2>1, SentOpens
  <2>4. text # <<>>
    BY <1>2, NothingToShow
  <2>5. /\ LastOnly(mid, id) /\ NoneEmpty(mid)
        /\ \A x : Row(mid, x) <=> Row(rows, x) \/ x = id
    BY <2>1, <2>4, SentSays
  <2>6. Streaming(new) = Streaming(mid) \ {id}
    BY <1>1, <2>2, <2>3, SentCloses
  <2>7. /\ \A x : Row(new, x) <=> Row(mid, x) \/ x = id
        /\ NoneEmpty(new)
    BY <2>2, <2>3, <2>5, SentSays
  <2>8. ASSUME NEW m, Told(rows, text, m)  PROVE Told(new, <<>>, m)
    <3>1. Told(mid, none, m)
      BY <1>1, <2>1, <2>8, SentTold
    <3> QED BY <2>2, <2>3, <2>5, <3>1, SentTold
  <2> QED BY <2>3, <2>5, <2>6, <2>7, <2>8
<1>3. CASE ~Answer!Renderable(text) /\ projected
  <2>1. new = Answer!Sent(rows, id, none, shut)
    BY <1>1, <1>3 DEF ClosedFrom
  <2>2. Streaming(new) = Streaming(rows) \ {id}
    BY <1>1, <2>1, SentStreams
  <2>3. /\ \A x : Row(new, x) <=> Row(rows, x) \/ x = id
        /\ NoneEmpty(new)
    BY <1>3, <2>1, SentSays
  <2>4. ASSUME NEW m, Told(rows, text, m)  PROVE Told(new, <<>>, m)
    <3>1. Told(rows, none, m)
      BY <1>1, <1>3, <2>4, TellsLess
    <3> QED BY <2>1, <3>1, SentTold
  <2> QED BY <1>3, <2>2, <2>3, <2>4
<1>4. CASE ~Answer!Renderable(text) /\ ~projected
  <2>1. new = rows
    BY <1>4 DEF ClosedFrom
  <2>2. ASSUME NEW m, Told(rows, text, m)  PROVE Told(new, <<>>, m)
    BY <1>4, <2>1, <2>2, TellsLess
  <2> QED BY <1>4, <2>1, <2>2
<1> QED BY <1>2, <1>3, <1>4

(* Of at most one message that is remembered, nothing is left to fold.     *)
LEMMA FlushAllOf ==
  ASSUME NEW s, NEW id, NEW new, new = Answer!FlushAll(s)
  PROVE  /\ s.remembered = <<>> => new = s
         /\ s.remembered = <<id>> => new = Answer!Flush(s, id)
<1>1. ASSUME s.remembered = <<>>  PROVE new = s
  <2>1. PICK f, ids : /\ f = CHOOSE g : g = [i \in 0..0 |-> IF i = 0 THEN s
                                                         ELSE Answer!Flush(g[i - 1], ids[i])]
                      /\ ids = s.remembered
    OBVIOUS
  <2>2. \E g : Flushes(g, s, ids, 0)
    BY FlushesExist
  <2>3. f = [i \in 0..0 |-> IF i = 0 THEN s ELSE Answer!Flush(f[i - 1], ids[i])]
    BY <2>1, <2>2 DEF Flushes
  <2>4. Len(s.remembered) = 0
    BY <1>1
  <2>5. new = f[0]
    BY <2>1, <2>4 DEF Answer!FlushAll
  <2> QED BY <2>3, <2>5
<1>2. ASSUME s.remembered = <<id>>  PROVE new = Answer!Flush(s, id)
  <2>1. PICK f, ids : /\ f = CHOOSE g : g = [i \in 0..1 |-> IF i = 0 THEN s
                                                         ELSE Answer!Flush(g[i - 1], ids[i])]
                      /\ ids = s.remembered
    OBVIOUS
  <2>2. \E g : Flushes(g, s, ids, 1)
    BY FlushesExist
  <2>3. f = [i \in 0..1 |-> IF i = 0 THEN s ELSE Answer!Flush(f[i - 1], ids[i])]
    BY <2>1, <2>2 DEF Flushes
  <2>4. Len(s.remembered) = 1 /\ ids[1] = id
    BY <1>2, <2>1
  <2>5. new = f[1]
    BY <2>1, <2>4 DEF Answer!FlushAll
  <2>6. f[0] = s
    BY <2>3
  <2>7. f[1] = Answer!Flush(f[0], ids[1])
    BY <2>3
  <2> QED BY <2>4, <2>5, <2>6, <2>7
<1> QED BY <1>1, <1>2

LEMMA FinalizeAllOf ==
  ASSUME NEW s, NEW id, NEW known, NEW ids, NEW new, new = Answer!FinalizeAll(s, known, ids)
  PROVE  /\ ids = <<>> => new = s
         /\ ids = <<id>> => new = Ended(s, id, known)
<1>1. ASSUME ids = <<>>  PROVE new = s
  <2>1. PICK f : f = CHOOSE g : g = [i \in 0..0 |-> IF i = 0 THEN s ELSE Ended(g[i - 1], ids[i], known)]
    OBVIOUS
  <2>2. \E g : Finalizes(g, s, known, ids, 0)
    BY FinalizesExist
  <2>3. f = [i \in 0..0 |-> IF i = 0 THEN s ELSE Ended(f[i - 1], ids[i], known)]
    BY <2>1, <2>2 DEF Finalizes
  <2>4. Len(ids) = 0
    BY <1>1
  <2>5. new = f[0]
    BY <2>1, <2>4 DEF Answer!FinalizeAll, Ended
  <2> QED BY <2>3, <2>5
<1>2. ASSUME ids = <<id>>  PROVE new = Ended(s, id, known)
  <2>1. PICK f : f = CHOOSE g : g = [i \in 0..1 |-> IF i = 0 THEN s ELSE Ended(g[i - 1], ids[i], known)]
    OBVIOUS
  <2>2. \E g : Finalizes(g, s, known, ids, 1)
    BY FinalizesExist
  <2>3. f = [i \in 0..1 |-> IF i = 0 THEN s ELSE Ended(f[i - 1], ids[i], known)]
    BY <2>1, <2>2 DEF Finalizes
  <2>4. Len(ids) = 1 /\ ids[1] = id
    BY <1>2
  <2>5. new = f[1]
    BY <2>1, <2>4 DEF Answer!FinalizeAll, Ended
  <2>6. f[0] = s
    BY <2>3
  <2>7. f[1] = Ended(f[0], ids[1], known)
    BY <2>3
  <2> QED BY <2>4, <2>5, <2>6, <2>7
<1> QED BY <1>1, <1>2

LEMMA FlushCalm ==
  ASSUME NEW n, NEW s \in Ingestion(n), NEW id \in MessageName, Kept(s), Unarmed(s),
         NEW text \in Text(n), text = Answer!TextOf(s, id), NEW new, new = Answer!Flush(s, id)
  PROVE  /\ new \in Ingestion(n) /\ Kept(new) /\ SameNames(new, s) /\ Unarmed(new)
         /\ DOMAIN new.buffer = DOMAIN s.buffer \ {id}
         /\ Answer!Renderable(text) => new.messages = Answer!Sent(s.messages, id, text, Opens)
         /\ ~Answer!Renderable(text) => new.messages = s.messages
<1>1. PICK clear : clear = Answer!Cleared(s, id)
  OBVIOUS
<1>2. /\ clear \in Ingestion(n) /\ Kept(clear) /\ SameNames(clear, s) /\ Follows(clear, s)
      /\ clear.messages = s.messages /\ DOMAIN clear.buffer = DOMAIN s.buffer \ {id}
  BY <1>1, ClearedIs
<1>3. Unarmed(clear)
  BY <1>2 DEF Follows
<1>4. CASE ~Answer!Renderable(text)
  <2>1. new = clear
    BY <1>1, <1>4 DEF Answer!Flush, Unarmed
  <2> QED BY <1>2, <1>3, <1>4, <2>1
<1>5. CASE Answer!Renderable(text)
  <2>1. PICK open \in Flag : open = Opens
    BY DEF Flag, Opens
  <2>2. new = Answer!Dispatch(clear, id, text, open)
    BY <1>1, <1>5, <2>1 DEF Answer!Flush, Unarmed, Opens
  <2>3. /\ new \in Ingestion(n) /\ Kept(new) /\ SameNames(new, clear) /\ SameTexts(new, clear)
        /\ Unarmed(new) /\ new.messages = Answer!Sent(clear.messages, id, text, open)
    BY <1>2, <1>3, <2>2, DispatchCalm
  <2> QED BY <1>2, <1>5, <2>1, <2>3 DEF SameNames, SameTexts
<1> QED BY <1>4, <1>5

-----------------------------------------------------------------------------
(* The handlers when no dispatch failed: at most the message of the open   *)
(* segment is remembered, has a rest in the buffer, and streams.           *)
Rest(s) == Answer!TextOf(s, s.active)
CalmRows(s) ==
  /\ s.remembered = IF s.active # NoMessage THEN <<s.active>> ELSE <<>>
  /\ \A id \in Streaming(s.messages) : s.active # NoMessage /\ id = s.active
  /\ s.active # NoMessage => /\ LastOnly(s.messages, s.active)
                             /\ Row(s.messages, s.active) \/ Rest(s) # <<>>
  /\ NoneEmpty(s.messages)
  /\ ~buffered => DOMAIN s.buffer = {}

Settled(new, s) ==
  /\ new.remembered = <<>> /\ new.active = NoMessage
  /\ \E projected :
       /\ projected => Row(s.messages, s.active)
       /\ Streaming(s.messages) # {} => projected
       /\ ClosedFrom(new.messages, s.messages, s.active, Rest(s), projected)

LEMMA NothingBuffered ==
  ASSUME NEW n, NEW s \in Ingestion(n), Kept(s), s.remembered = <<>>
  PROVE  DOMAIN s.buffer = {} /\ \A id : Answer!TextOf(s, id) = <<>>
<1>1. DOMAIN s.buffer = {}
  BY DEF Kept, Known
<1> QED BY <1>1 DEF Answer!TextOf

LEMMA ClosedIsCalm ==
  ASSUME NEW n, NEW s \in Ingestion(n), Kept(s), CalmRows(s), s.active # NoMessage,
         NEW new \in Ingestion(n), Kept(new), Settled(new, s)
  PROVE  /\ CalmRows(new)
         /\ \A x : Row(new.messages, x) => Row(s.messages, x) \/ x = s.active
         /\ \A x : Row(s.messages, x) => Row(new.messages, x)
         /\ Answer!Renderable(Rest(s)) => Row(new.messages, s.active)
         /\ Rest(new) = <<>>
         /\ \A m : Told(s.messages, Rest(s), m) => Told(new.messages, Rest(new), m)
<1>1. PICK rows \in Seq(MessageRow(n)), id \in MessageName, text \in Text(n) :
        rows = s.messages /\ id = s.active /\ text = Rest(s)
  BY IngestionIs, TextOfIs DEF Rest
<1>2. PICK projected :
        /\ projected => Row(rows, id)
        /\ Streaming(rows) # {} => projected
        /\ ClosedFrom(new.messages, rows, id, text, projected)
  BY <1>1 DEF Settled
<1>3. OneRowEach(rows) /\ LastOnly(rows, id) /\ NoneEmpty(rows) /\ Streaming(rows) \subseteq {id}
  BY <1>1 DEF Kept, CalmRows
<1>4. PICK after : after = new.messages
  OBVIOUS
<1>5. ClosedFrom(after, rows, id, text, projected)
  BY <1>2, <1>4
<1>6. /\ NoneEmpty(after) /\ Streaming(after) = {}
      /\ \A x : Row(after, x) => Row(rows, x) \/ x = id
      /\ \A x : Row(rows, x) => Row(after, x)
      /\ Answer!Renderable(text) => Row(after, id)
      /\ \A m : Told(rows, text, m) => Told(after, <<>>, m)
  BY <1>2, <1>3, <1>5, ClosedTells
<1>7. DOMAIN new.buffer = {} /\ Rest(new) = <<>>
  BY NothingBuffered DEF Settled, Rest
<1>8. CalmRows(new)
  BY <1>4, <1>6, <1>7 DEF CalmRows, Settled
<1> QED BY <1>1, <1>4, <1>6, <1>7, <1>8

LEMMA WithoutOne ==
  ASSUME NEW id \in MessageName, NEW ids, ids = <<id>>  PROVE Answer!Without(ids, id) = <<>>
<1>1. ids \in Seq(MessageName) /\ OnceEach(ids) /\ \A x : Known(ids, x) <=> x = id
  BY DEF OnceEach, Known
<1>2. PICK new : new = Answer!Without(ids, id)
  OBVIOUS
<1>3. new \in Seq(MessageName) /\ \A x : ~Known(new, x)
  BY <1>1, <1>2, WithoutIs
<1>4. Len(new) = 0
  <2>1. ASSUME Len(new) # 0  PROVE FALSE
    <3>1. Len(new) \in 1..Len(new)
      BY <1>3, <2>1
    <3>2. Known(new, new[Len(new)])
      BY <3>1 DEF Known
    <3> QED BY <1>3, <3>2
  <2> QED BY <2>1
<1> QED BY <1>2, <1>3, <1>4

LEMMA FinalizeActiveCalm ==
  ASSUME NEW n, NEW s \in Ingestion(n), Kept(s), Unarmed(s), NEW projected,
         s.active # NoMessage, s.remembered = <<s.active>>,
         NEW new, new = Answer!FinalizeActive(s, projected)
  PROVE  /\ new.remembered = <<>> /\ new.active = NoMessage /\ new.segment = s.segment
         /\ ClosedFrom(new.messages, s.messages, s.active, Rest(s), projected)
<1>1. PICK id \in MessageName, none \in Text(n) : id = s.active /\ none = <<>>
  BY IngestionIs, NothingTyped
<1>2. PICK text \in Text(n) : text = Answer!TextOf(s, id)
  BY TextOfIs
<1>3. text = IF Answer!TextOf(s, id) # <<>> THEN Answer!TextOf(s, id)
             ELSE IF Answer!Renderable(none) THEN none ELSE <<>>
  BY <1>1, <1>2
<1>4. PICK ended : ended = Answer!Finalize(s, id, projected, none)
  OBVIOUS
<1>5. /\ ended \in Ingestion(n) /\ SameNames(ended, s) /\ Unarmed(ended)
      /\ ClosedFrom(ended.messages, s.messages, id, text, projected)
  BY <1>3, <1>4, FinalizeCalm
<1>6. PICK done : done = Answer!Forget(ended, id)
  OBVIOUS
<1>7. PICK ids \in Seq(MessageName) : ids = Answer!Without(ended.remembered, id) /\ ids = <<>>
  <2>1. Answer!Without(ended.remembered, id) = <<>>
    BY <1>1, <1>5, WithoutOne DEF SameNames
  <2>2. <<>> \in Seq(MessageName)
    OBVIOUS
  <2> QED BY <2>1, <2>2
<1>8. done = [ended EXCEPT !.remembered = ids]
  BY <1>5, <1>6, <1>7 DEF Answer!Forget, Unarmed
<1>9. /\ done \in Ingestion(n) /\ done.remembered = ids /\ done.segment = ended.segment
      /\ done.messages = ended.messages /\ done.failed = ended.failed
  BY <1>5, <1>7, <1>8 DEF Ingestion
<1>10. new = [done EXCEPT !.active = NoMessage]
  BY <1>1, <1>4, <1>5, <1>6, <1>9 DEF Answer!FinalizeActive, Unarmed, NoMessage
<1>11. /\ new.active = NoMessage /\ new.remembered = done.remembered
       /\ new.segment = done.segment /\ new.messages = done.messages
  BY <1>9, <1>10 DEF Ingestion
<1> QED BY <1>1, <1>2, <1>5, <1>7, <1>9, <1>11 DEF SameNames, Rest

LEMMA PauseCalm ==
  ASSUME NEW n, NEW s \in Ingestion(n), Kept(s), Unarmed(s), CalmRows(s),
         NEW new, new = Answer!OnPause(s)
  PROVE  /\ s.active = NoMessage => new = s
         /\ s.active # NoMessage => Settled(new, s) /\ new.segment = s.segment
<1>1. PICK streaming : streaming = (\E m \in Answer!ToSet(s.messages) : m.streaming)
  OBVIOUS
<1>2. PICK flushes : flushes = (/\ Answer!Contains(s.remembered, s.active)
                                /\ Answer!Renderable(Answer!TextOf(s, s.active)))
  OBVIOUS
<1>3. s.messages \in Seq(MessageRow(n))
  BY IngestionIs
<1>a. PICK r : r = IF buffered THEN Answer!FlushAll(s) ELSE s
  OBVIOUS
<1>b. PICK projected : projected = IF buffered THEN streaming \/ flushes ELSE streaming
  OBVIOUS
<1>4. new = Answer!FinalizeActive(r, projected)
  BY <1>1, <1>2, <1>a, <1>b DEF Answer!OnPause
<1>5. ASSUME s.active = NoMessage  PROVE new = s
  <2>1. s.remembered = <<>>
    BY <1>5 DEF CalmRows
  <2>2. r = s
    BY <1>a, <2>1, FlushAllOf
  <2> QED BY <1>4, <1>5, <2>2 DEF Answer!FinalizeActive, NoMessage
<1>6. ASSUME s.active # NoMessage  PROVE Settled(new, s) /\ new.segment = s.segment
  <2>1. PICK id \in MessageName, text \in Text(n) : id = s.active /\ text = Rest(s)
    BY IngestionIs, TextOfIs DEF Rest
  <2>2. s.remembered = <<id>>
    BY <1>6, <2>1 DEF CalmRows
  <2>3. Streaming(s.messages) # {} => streaming
    BY <1>1, <1>3, SomeStreams
  <2>4. streaming => Row(s.messages, id)
    <3>1. ASSUME streaming  PROVE Row(s.messages, id)
      <4>0. PICK m \in Answer!ToSet(s.messages) : m.streaming
        BY <1>1, <3>1
      <4>a. PICK i \in 1..Len(s.messages) : m = s.messages[i]
        BY <1>3 DEF Answer!ToSet
      <4>1. s.messages[i].streaming
        BY <4>0, <4>a
      <4>2. s.messages[i].id \in Streaming(s.messages)
        BY <4>1 DEF Streaming
      <4>3. s.messages[i].id = id
        BY <2>1, <4>2 DEF CalmRows
      <4> QED BY <4>3 DEF Row
    <3> QED BY <3>1
  <2>5. CASE ~buffered
    <3>1. new = Answer!FinalizeActive(s, streaming)
      BY <1>4, <1>a, <1>b, <2>5
    <3>2. /\ new.remembered = <<>> /\ new.active = NoMessage /\ new.segment = s.segment
          /\ ClosedFrom(new.messages, s.messages, s.active, Rest(s), streaming)
      BY <1>6, <2>1, <2>2, <3>1, FinalizeActiveCalm
    <3> QED BY <2>1, <2>3, <2>4, <3>2 DEF Settled
  <2>6. CASE buffered
    <3>1. r = Answer!Flush(s, id)
      BY <1>a, <2>2, <2>6, FlushAllOf
    <3>2. /\ r \in Ingestion(n) /\ Kept(r) /\ SameNames(r, s) /\ Unarmed(r)
          /\ DOMAIN r.buffer = DOMAIN s.buffer \ {id}
          /\ Answer!Renderable(text) => r.messages = Answer!Sent(s.messages, id, text, Opens)
          /\ ~Answer!Renderable(text) => r.messages = s.messages
      BY <2>1, <3>1, FlushCalm DEF Rest
    <3>3. Rest(r) = <<>>
      BY <2>1, <3>2 DEF Rest, Answer!TextOf, SameNames
    <3>4. r.active = id /\ r.active # NoMessage /\ r.remembered = <<r.active>> /\ r.segment = s.segment
      BY <1>6, <2>1, <2>2, <3>2 DEF SameNames
    <3>5. /\ new.remembered = <<>> /\ new.active = NoMessage /\ new.segment = r.segment
          /\ ClosedFrom(new.messages, r.messages, r.active, Rest(r), projected)
      BY <1>4, <3>2, <3>4, FinalizeActiveCalm
    <3>6. flushes <=> Answer!Renderable(text)
      BY <1>2, <2>1, <2>2 DEF Rest, Answer!Contains
    <3>7. ClosedFrom(new.messages, s.messages, id, text, streaming)
      <4>1. CASE Answer!Renderable(text)
        <5>1. projected
          BY <1>b, <2>6, <3>6, <4>1
        <5>2. new.messages = Answer!Sent(r.messages, id, <<>>, Closes)
          BY <3>3, <3>4, <3>5, <5>1, NothingToShow DEF ClosedFrom
        <5> QED BY <3>2, <4>1, <5>2 DEF ClosedFrom
      <4>2. CASE ~Answer!Renderable(text)
        <5>1. projected <=> streaming
          BY <1>b, <2>6, <3>6, <4>2
        <5> QED BY <3>2, <3>3, <3>4, <3>5, <4>2, <5>1, NothingToShow DEF ClosedFrom
      <4> QED BY <4>1, <4>2
    <3> QED BY <2>1, <2>3, <2>4, <3>4, <3>5, <3>7 DEF Settled
  <2> QED BY <2>5, <2>6
<1> QED BY <1>5, <1>6

LEMMA TurnEndCalm ==
  ASSUME NEW n, NEW s \in Ingestion(n), Kept(s), StreamsKnown(s), ActiveKnown(s), Unarmed(s),
         CalmRows(s), NEW new, new = Answer!OnTurnCompleted(s)
  PROVE  /\ s.active = NoMessage => /\ new.remembered = <<>> /\ new.active = NoMessage
                                    /\ new.messages = s.messages
         /\ s.active # NoMessage => Settled(new, s)
<1>1. PICK told : told = Answer!SessionSet(s)
  OBVIOUS
<1>2. ~s.failed /\ s.failAt = 0
  BY DEF Unarmed
<1>3. /\ told \in Ingestion(n) /\ SameNames(told, s) /\ SameTexts(told, s) /\ Follows(told, s)
      /\ told.messages = s.messages
  BY <1>1, <1>2, SessionSetIs
<1>4. Kept(told) /\ Unarmed(told)
  BY <1>3 DEF SameNames, SameTexts, Kept, Follows
<1>5. PICK done : done = Answer!FinalizeAll(told, s.messages, s.remembered)
  OBVIOUS
<1>6. new = IF done.failed THEN done ELSE [Answer!WithoutSegment(done) EXCEPT !.remembered = <<>>]
  BY <1>1, <1>5 DEF Answer!OnTurnCompleted
<1>7. ASSUME done \in Ingestion(n), Unarmed(done)
      PROVE  new.remembered = <<>> /\ new.active = NoMessage /\ new.messages = done.messages
  <2>1. new = [[done EXCEPT !.segment = Answer!NoSegment, !.active = NoMessage] EXCEPT !.remembered = <<>>]
    BY <1>6, <1>7 DEF Unarmed, Answer!WithoutSegment, NoMessage
  <2> QED BY <1>7, <2>1 DEF Ingestion
<1>8. ASSUME s.active = NoMessage
      PROVE  new.remembered = <<>> /\ new.active = NoMessage /\ new.messages = s.messages
  <2>1. s.remembered = <<>>
    BY <1>8 DEF CalmRows
  <2>2. done = told
    BY <1>5, <2>1, FinalizeAllOf
  <2> QED BY <1>3, <1>4, <1>7, <2>2
<1>9. ASSUME s.active # NoMessage  PROVE Settled(new, s)
  <2>1. PICK id \in MessageName, text \in Text(n) : id = s.active /\ text = Rest(s)
    BY IngestionIs, TextOfIs DEF Rest
  <2>2. s.remembered = <<id>>
    BY <1>9, <2>1 DEF CalmRows
  <2>3. done = Ended(told, id, s.messages)
    BY <1>5, <2>2, FinalizeAllOf
  <2>4. PICK projected : projected = Answer!IsMessage(s.messages, id)
    OBVIOUS
  <2>5. PICK none \in Text(n) : none = <<>>
    BY NothingTyped
  <2>6. done = Answer!Finalize(told, id, projected, none)
    BY <2>3, <2>4, <2>5 DEF Ended
  <2>7. Answer!TextOf(told, id) = text
    BY <1>3, <2>1 DEF SameTexts, Rest, Answer!TextOf
  <2>8. text = IF Answer!TextOf(told, id) # <<>> THEN Answer!TextOf(told, id)
               ELSE IF Answer!Renderable(none) THEN none ELSE <<>>
    BY <2>5, <2>7
  <2>9. /\ done \in Ingestion(n) /\ Unarmed(done)
        /\ ClosedFrom(done.messages, told.messages, id, text, projected)
    BY <1>3, <1>4, <2>6, <2>8, FinalizeCalm
  <2>10. s.messages \in Seq(MessageRow(n))
    BY IngestionIs
  <2>11. projected <=> Row(s.messages, id)
    BY <2>4, <2>10, NoRow
  <2>12. Streaming(s.messages) # {} => Row(s.messages, id)
    <3>1. ASSUME NEW x \in Streaming(s.messages)  PROVE Row(s.messages, id)
      <4>1. x = id /\ Row(s.messages, x)
        BY <2>1, <2>10, SomeStreams DEF CalmRows
      <4> QED BY <4>1
    <3> QED BY <3>1
  <2>13. new.remembered = <<>> /\ new.active = NoMessage /\ new.messages = done.messages
    BY <1>7, <2>9
  <2> QED BY <1>3, <2>1, <2>9, <2>11, <2>12, <2>13 DEF Settled
<1> QED BY <1>8, <1>9

(* A completion without an open segment: the text of the completion is     *)
(* taken, unless there is a message of the item.                           *)
ClosedItem(new, s, id, detail, text) ==
  /\ new.remembered = <<>> /\ new.active = NoMessage
  /\ \E projected :
       /\ projected => Row(s.messages, id)
       /\ ClosedFrom(new.messages, s.messages, id, text, projected)
  /\ Row(s.messages, id) => text = <<>>
  /\ text = detail \/ (text = <<>> /\ (Row(s.messages, id) \/ ~Answer!Renderable(detail)))

LEMMA WithoutSegmentCalm ==
  ASSUME NEW n, NEW s \in Ingestion(n), Unarmed(s), NEW new, new = Answer!WithoutSegment(s)
  PROVE  /\ new.remembered = s.remembered /\ new.active = NoMessage
         /\ new.segment = Answer!NoSegment /\ new.messages = s.messages
<1>1. new = [s EXCEPT !.segment = Answer!NoSegment, !.active = NoMessage]
  BY DEF Unarmed, Answer!WithoutSegment, NoMessage
<1> QED BY <1>1 DEF Ingestion

LEMMA ItemCalm ==
  ASSUME NEW n, NEW s \in Ingestion(n), NEW number \in Nat, NEW detail \in Text(n),
         Kept(s), StreamsKnown(s), Unarmed(s), CalmRows(s),
         NEW new, new = Answer!OnItemCompleted(s, number, detail)
  PROVE  /\ new.segment = Answer!NoSegment
         /\ s.active # NoMessage => Settled(new, s)
         /\ s.active = NoMessage =>
              \E text \in Text(n) : ClosedItem(new, s, <<number, 0>>, detail, text)
<1>1. PICK id \in MessageName : id = IF s.active # NoMessage THEN s.active ELSE <<number, 0>>
  <2>1. s.active \in MessageName /\ <<number, 0>> \in MessageName
    BY IngestionIs DEF MessageName
  <2> QED BY <2>1
<1>2. PICK old : old = {m \in Answer!ToSet(s.messages) : m.id = id}
  OBVIOUS
<1>3. PICK fallback \in Text(n) : fallback = Answer!FallbackText(old, detail)
  BY NothingTyped DEF Answer!FallbackText
<1>4. PICK known : known = IF s.active = NoMessage THEN Answer!Remember(s, id) ELSE s
  OBVIOUS
<1>5. PICK projected : projected = (old # {})
  OBVIOUS
<1>6. PICK ended : ended = Answer!Finalize(known, id, projected, fallback)
  OBVIOUS
<1>7. PICK done : done = Answer!Forget(ended, id)
  OBVIOUS
<1>8. new = Answer!WithoutSegment(
              IF s.active = NoMessage /\ s.messages # <<>> /\ ~Answer!Renderable(detail) THEN s ELSE done)
  BY <1>1, <1>2, <1>3, <1>4, <1>5, <1>6, <1>7
     DEF Answer!OnItemCompleted, NoMessage, Answer!MessageId
<1>9. s.messages \in Seq(MessageRow(n))
  BY IngestionIs
<1>10. /\ projected <=> Row(s.messages, id)
       /\ Row(s.messages, id) => fallback = <<>>
       /\ ~Row(s.messages, id) => fallback = detail
  <2>1. \A i \in 1..Len(s.messages) : s.messages[i].id = id => s.messages[i] \in old
    BY <1>2, <1>9 DEF Answer!ToSet
  <2>2. \A m \in old : \E i \in 1..Len(s.messages) : m = s.messages[i] /\ s.messages[i].id = id
    BY <1>2, <1>9 DEF Answer!ToSet
  <2>3. old # {} <=> Row(s.messages, id)
    BY <2>1, <2>2 DEF Row
  <2>4. ASSUME Row(s.messages, id)  PROVE fallback = <<>>
    <3>1. PICK i \in 1..Len(s.messages) : s.messages[i].id = id
      BY <2>4 DEF Row
    <3>2. s.messages[i].text # <<>> /\ s.messages[i] \in old
      BY <2>1, <3>1 DEF CalmRows, NoneEmpty
    <3> QED BY <1>3, <3>2 DEF Answer!FallbackText
  <2>5. ASSUME ~Row(s.messages, id)  PROVE fallback = detail
    <3>1. old = {}
      BY <2>3, <2>5
    <3> QED BY <1>3, <3>1 DEF Answer!FallbackText
  <2> QED BY <1>5, <2>3, <2>4, <2>5
<1>11. /\ known \in Ingestion(n) /\ Kept(known) /\ Unarmed(known) /\ known.messages = s.messages
       /\ known.remembered = <<id>> /\ known.buffer = s.buffer
  <2>1. CASE s.active = NoMessage
    <3>1. known = Answer!Remember(s, id)
      BY <1>4, <2>1
    <3>2. s.remembered = <<>> /\ ~Known(s.remembered, id) /\ ~s.failed
      BY <2>1 DEF CalmRows, Known, Unarmed
    <3>3. /\ known \in Ingestion(n) /\ Kept(known) /\ Follows(known, s)
          /\ known.messages = s.messages /\ known.buffer = s.buffer
          /\ known.remembered = Append(s.remembered, id)
      BY <3>1, <3>2, RememberIs
    <3> QED BY <3>2, <3>3 DEF Follows
  <2>2. CASE s.active # NoMessage
    BY <1>1, <1>4, <2>2 DEF CalmRows
  <2> QED BY <2>1, <2>2
<1>12. PICK text \in Text(n) :
         text = IF Answer!TextOf(known, id) # <<>> THEN Answer!TextOf(known, id)
                ELSE IF Answer!Renderable(fallback) THEN fallback ELSE <<>>
  BY <1>11, TextOfIs, NothingTyped
<1>13. /\ ended \in Ingestion(n) /\ SameNames(ended, known) /\ Unarmed(ended)
       /\ ClosedFrom(ended.messages, known.messages, id, text, projected)
  BY <1>6, <1>11, <1>12, FinalizeCalm
<1>14. /\ done \in Ingestion(n) /\ Unarmed(done) /\ done.remembered = <<>>
       /\ done.messages = ended.messages
  <2>1. PICK ids \in Seq(MessageName) : ids = Answer!Without(ended.remembered, id) /\ ids = <<>>
    <3>1. Answer!Without(ended.remembered, id) = <<>>
      BY <1>11, <1>13, WithoutOne DEF SameNames
    <3>2. <<>> \in Seq(MessageName)
      OBVIOUS
    <3> QED BY <3>1, <3>2
  <2>2. done = [ended EXCEPT !.remembered = ids]
    BY <1>7, <1>13, <2>1 DEF Answer!Forget, Unarmed
  <2> QED BY <1>13, <2>1, <2>2 DEF Ingestion, Unarmed
<1>15. Answer!TextOf(known, id) = Answer!TextOf(s, id)
  BY <1>11 DEF Answer!TextOf
<1>16. new.segment = Answer!NoSegment
  BY <1>8, <1>14, WithoutSegmentCalm
<1>17. ASSUME s.active # NoMessage  PROVE Settled(new, s)
  <2>1. new.remembered = <<>> /\ new.active = NoMessage /\ new.messages = ended.messages
    BY <1>8, <1>14, <1>17, WithoutSegmentCalm
  <2>2. id = s.active /\ Answer!TextOf(s, id) = Rest(s)
    BY <1>1, <1>17 DEF Rest
  <2>3. text = Rest(s)
    <3>1. CASE Rest(s) # <<>>
      BY <1>12, <1>15, <2>2, <3>1
    <3>2. CASE Rest(s) = <<>>
      <4>1. Row(s.messages, id)
        BY <1>17, <2>2, <3>2 DEF CalmRows
      <4> QED BY <1>10, <1>12, <1>15, <2>2, <3>2, <4>1
    <3> QED BY <3>1, <3>2
  <2>4. Streaming(s.messages) # {} => Row(s.messages, id)
    <3>1. ASSUME NEW x \in Streaming(s.messages)  PROVE Row(s.messages, id)
      <4>1. x = id /\ Row(s.messages, x)
        BY <1>9, <2>2, SomeStreams DEF CalmRows
      <4> QED BY <4>1
    <3> QED BY <3>1
  <2> QED BY <1>10, <1>11, <1>13, <2>1, <2>2, <2>3, <2>4 DEF Settled
<1>18. ASSUME s.active = NoMessage
       PROVE  \E t \in Text(n) : ClosedItem(new, s, <<number, 0>>, detail, t)
  <2>1. id = <<number, 0>> /\ Answer!TextOf(s, id) = <<>> /\ s.remembered = <<>>
    BY <1>1, <1>18, NothingBuffered DEF CalmRows
  <2>2. CASE s.messages # <<>> /\ ~Answer!Renderable(detail) /\ ~Row(s.messages, id)
    <3>1. new.remembered = <<>> /\ new.active = NoMessage /\ new.messages = s.messages
      BY <1>8, <1>18, <2>1, <2>2, WithoutSegmentCalm
    <3>2. PICK t \in Text(n) : t = <<>>
      BY NothingTyped
    <3>3. ClosedFrom(new.messages, s.messages, id, t, FALSE)
      BY <3>1, <3>2, NothingToShow DEF ClosedFrom
    <3>4. ClosedItem(new, s, id, detail, t)
      BY <2>2, <3>1, <3>2, <3>3 DEF ClosedItem
    <3> QED BY <2>1, <3>4
  <2>3. CASE s.messages # <<>> /\ ~Answer!Renderable(detail) /\ Row(s.messages, id)
    <3>1. new.remembered = <<>> /\ new.active = NoMessage /\ new.messages = s.messages
      BY <1>8, <1>18, <2>1, <2>3, WithoutSegmentCalm
    <3>2. PICK t \in Text(n) : t = <<>>
      BY NothingTyped
    <3>3. ClosedFrom(new.messages, s.messages, id, t, FALSE)
      BY <3>1, <3>2, NothingToShow DEF ClosedFrom
    <3>4. ClosedItem(new, s, id, detail, t)
      BY <2>3, <3>1, <3>2, <3>3 DEF ClosedItem
    <3> QED BY <2>1, <3>4
  <2>4. CASE ~(s.messages # <<>> /\ ~Answer!Renderable(detail))
    <3>1. new.remembered = <<>> /\ new.active = NoMessage /\ new.messages = ended.messages
      BY <1>8, <1>14, <2>4, WithoutSegmentCalm
    <3>2. text = IF Answer!Renderable(fallback) THEN fallback ELSE <<>>
      BY <1>12, <1>15, <2>1
    <3>3. ClosedFrom(new.messages, s.messages, id, text, projected)
      BY <1>11, <1>13, <3>1
    <3>4. Row(s.messages, id) => text = <<>>
      BY <1>10, <3>2
    <3>5. text = detail \/ (text = <<>> /\ (Row(s.messages, id) \/ ~Answer!Renderable(detail)))
      BY <1>10, <3>2
    <3>6. ClosedItem(new, s, id, detail, text)
      BY <1>10, <3>1, <3>3, <3>4, <3>5 DEF ClosedItem
    <3> QED BY <2>1, <3>6
  <2> QED BY <2>2, <2>3, <2>4
<1> QED BY <1>16, <1>17, <1>18

(* The delta joins the rest, which is told when it is too much or streams. *)
Heard(new, s, id, held) ==
  /\ new.remembered = <<id>> /\ new.active = id
  /\ \/ buffered /\ new.messages = s.messages /\ Rest(new) = held
     \/ Rest(new) = <<>> /\ new.messages = Answer!Sent(s.messages, id, held, Opens)
  /\ ~buffered => DOMAIN new.buffer = {}

Next0(s, number) == IF s.segment.number = number THEN s.segment.next ELSE 0
IdOf(s, number) == IF s.active # NoMessage THEN s.active ELSE <<number, Next0(s, number)>>

LEMMA WithActiveCalm ==
  ASSUME NEW n, NEW s \in Ingestion(n), NEW number \in Nat,
         NEW new, new = Answer!WithActive(s, number)
  PROVE  /\ new.active = IdOf(s, number) /\ IdOf(s, number) \in MessageName
         /\ s.active # NoMessage => new.segment = s.segment
         /\ s.active = NoMessage => /\ new.segment.number = number
                                    /\ new.segment.next = Next0(s, number) + 1
         /\ Next0(s, number) \in Nat
<1>0. Next0(s, number) \in Nat
  BY DEF Ingestion, SegmentRecord, Next0
<1>1. CASE s.active # NoMessage
  <2>1. new = s
    BY <1>1 DEF Answer!WithActive, NoMessage
  <2> QED BY <1>0, <1>1, <2>1, IngestionIs DEF IdOf
<1>2. CASE s.active = NoMessage
  <2>1. PICK next \in Nat : next = Next0(s, number)
    BY <1>0
  <2>2. PICK seg, id : seg = [number |-> number, next |-> next + 1] /\ id = <<number, next>>
    OBVIOUS
  <2>3. new = [s EXCEPT !.segment = seg, !.active = id]
    BY <1>2, <2>1, <2>2
       DEF Answer!WithActive, NoMessage, Answer!WithSegment, Answer!MessageId, Next0
  <2>4. new.segment = seg /\ new.active = id
    BY <2>3 DEF Ingestion
  <2>5. id \in MessageName /\ IdOf(s, number) = id
    BY <1>2, <2>1, <2>2 DEF IdOf, MessageName
  <2> QED BY <1>2, <2>1, <2>2, <2>4, <2>5
<1> QED BY <1>1, <1>2

LEMMA DeltaCalm ==
  ASSUME NEW n, NEW s \in Ingestion(n), NEW number \in Nat, NEW delta \in 1..n,
         Kept(s), StreamsKnown(s), Unarmed(s), CalmRows(s), IdOf(s, number) # NoMessage,
         NEW new, new = Answer!OnDelta(s, number, delta)
  PROVE  /\ Heard(new, s, IdOf(s, number), Append(Rest(s), delta))
         /\ new.segment = Answer!WithActive(s, number).segment
<1>1. PICK known : known = Answer!WithActive(s, number)
  OBVIOUS
<1>2. /\ known \in Ingestion(n) /\ Kept(known) /\ StreamsKnown(known) /\ Follows(known, s)
      /\ known.remembered = s.remembered /\ known.messages = s.messages
      /\ known.buffer = s.buffer
  BY <1>1, WithActiveKeeps
<1>3. PICK id \in MessageName : id = known.active /\ id = IdOf(s, number)
  BY <1>1, WithActiveCalm
<1>4. PICK told : told = Answer!Remember(known, id)
  OBVIOUS
<1>5. /\ told \in Ingestion(n) /\ Kept(told) /\ Follows(told, known)
      /\ told.active = known.active /\ told.segment = known.segment
      /\ told.messages = known.messages /\ told.buffer = known.buffer
  BY <1>2, <1>4, RememberIs
<1>6. Unarmed(told) /\ Unarmed(known)
  BY <1>2, <1>5 DEF Follows
<1>7. told.remembered = <<id>>
  <2>1. ~known.failed
    BY <1>6 DEF Unarmed
  <2>2. CASE s.active # NoMessage
    <3>1. known.remembered = <<id>> /\ Known(known.remembered, id)
      BY <1>2, <1>3, <2>2 DEF CalmRows, IdOf, Known
    <3>2. told = known
      BY <1>4, <3>1 DEF Answer!Remember, Answer!Contains, Known
    <3> QED BY <3>1, <3>2
  <2>3. CASE s.active = NoMessage
    <3>1. known.remembered = <<>> /\ ~Known(known.remembered, id)
      BY <1>2, <2>3 DEF CalmRows, Known
    <3>2. told.remembered = Append(known.remembered, id)
      BY <1>2, <1>4, <2>1, <3>1, RememberIs
    <3> QED BY <3>1, <3>2
  <2> QED BY <2>2, <2>3
<1>8. PICK held \in Text(n) : held = Answer!TextOf(told, id) /\ held = Rest(s)
  <2>1. Answer!TextOf(told, id) = Answer!TextOf(s, id)
    BY <1>2, <1>5 DEF Answer!TextOf
  <2>2. Answer!TextOf(s, id) = Rest(s)
    <3>1. CASE s.active # NoMessage
      BY <1>3, <3>1 DEF IdOf, Rest
    <3>2. CASE s.active = NoMessage
      <4>1. s.remembered = <<>>
        BY <3>2 DEF CalmRows
      <4> QED BY <4>1, NothingBuffered DEF Rest
    <3> QED BY <3>1, <3>2
  <2>3. Answer!TextOf(told, id) \in Text(n)
    BY <1>5, TextOfIs
  <2> QED BY <2>1, <2>2, <2>3
<1>9. PICK text \in Text(n) : text = Append(held, delta)
  <2>1. Append(held, delta) \in Text(n)
    BY DEF Text
  <2> QED BY <2>1
<1>10. PICK streaming \in Flag : streaming = Opens
  BY DEF Flag, Opens
<1>11. new = IF buffered THEN Answer!AppendBuffered(told, id, delta)
             ELSE Answer!Dispatch(told, id, <<delta>>, streaming)
  BY <1>1, <1>3, <1>4, <1>5, <1>10 DEF Answer!OnDelta, Opens
<1>12. CASE ~buffered
  <2>1. DOMAIN told.buffer = {} /\ held = <<>>
    <3>1. DOMAIN told.buffer = {}
      BY <1>2, <1>5, <1>12 DEF CalmRows
    <3> QED BY <1>8, <3>1 DEF Answer!TextOf
  <2>2. text = <<delta>>
    BY <1>9, <2>1
  <2>3. new = Answer!Dispatch(told, id, text, streaming)
    BY <1>11, <1>12, <2>2
  <2>4. /\ new \in Ingestion(n) /\ SameNames(new, told) /\ SameTexts(new, told)
        /\ new.messages = Answer!Sent(told.messages, id, text, streaming)
    BY <1>5, <1>6, <2>3, DispatchCalm
  <2>5. DOMAIN new.buffer = {} /\ Rest(new) = <<>>
    BY <2>1, <2>4 DEF SameTexts, Rest, Answer!TextOf
  <2>6. Heard(new, s, id, text)
    BY <1>2, <1>3, <1>5, <1>7, <1>10, <2>4, <2>5 DEF Heard, SameNames
  <2> QED BY <1>1, <1>3, <1>5, <1>8, <1>9, <2>4, <2>6 DEF SameNames
<1>13. CASE buffered
  <2>1. CASE Len(text) <= MaxBuffer
    <3>1. new = Answer!WithText(told, id, text)
      BY <1>8, <1>9, <1>11, <1>13, <2>1 DEF Answer!AppendBuffered
    <3>2. new = [told EXCEPT !.buffer = [x \in DOMAIN told.buffer \cup {id} |->
                                           IF x = id THEN text ELSE told.buffer[x]]]
      BY <3>1 DEF Answer!WithText
    <3>3. /\ new.remembered = told.remembered /\ new.active = told.active
          /\ new.segment = told.segment /\ new.messages = told.messages
          /\ id \in DOMAIN new.buffer /\ new.buffer[id] = text
      BY <1>5, <3>2 DEF Ingestion
    <3>4. Rest(new) = text
      BY <1>3, <1>5, <3>3 DEF Rest, Answer!TextOf
    <3>5. Heard(new, s, id, text)
      BY <1>2, <1>3, <1>5, <1>7, <1>13, <3>3, <3>4 DEF Heard
    <3> QED BY <1>1, <1>3, <1>5, <1>8, <1>9, <3>3, <3>5
  <2>2. CASE ~(Len(text) <= MaxBuffer)
    <3>1. PICK clear : clear = Answer!Cleared(told, id)
      OBVIOUS
    <3>2. new = Answer!Dispatch(clear, id, text, streaming)
      BY <1>8, <1>9, <1>10, <1>11, <1>13, <2>2, <3>1 DEF Answer!AppendBuffered, Opens
    <3>3. /\ clear \in Ingestion(n) /\ Kept(clear) /\ SameNames(clear, told)
          /\ Follows(clear, told) /\ clear.messages = told.messages
          /\ DOMAIN clear.buffer = DOMAIN told.buffer \ {id}
      BY <1>5, <3>1, ClearedIs
    <3>4. Unarmed(clear)
      BY <1>6, <3>3 DEF Follows
    <3>5. /\ new \in Ingestion(n) /\ SameNames(new, clear) /\ SameTexts(new, clear)
          /\ new.messages = Answer!Sent(clear.messages, id, text, streaming)
      BY <3>2, <3>3, <3>4, DispatchCalm
    <3>6. Rest(new) = <<>>
      BY <1>3, <1>5, <3>3, <3>5 DEF SameNames, SameTexts, Rest, Answer!TextOf
    <3>7. Heard(new, s, id, text)
      BY <1>2, <1>3, <1>5, <1>7, <1>10, <1>13, <3>3, <3>5, <3>6 DEF Heard, SameNames
    <3> QED BY <1>1, <1>3, <1>5, <1>8, <1>9, <3>3, <3>5, <3>7 DEF SameNames
  <2> QED BY <2>1, <2>2
<1> QED BY <1>12, <1>13

LEMMA HeardIsCalm ==
  ASSUME NEW n, NEW s \in Ingestion(n), Kept(s), CalmRows(s), NEW id \in MessageName,
         id # NoMessage, LastOnly(s.messages, id), Streaming(s.messages) \subseteq {id},
         NEW held \in Text(n), held # <<>>, NEW new \in Ingestion(n), Heard(new, s, id, held)
  PROVE  /\ CalmRows(new)
         /\ \A x : Row(new.messages, x) => Row(s.messages, x) \/ x = id
         /\ \A x : Row(s.messages, x) => Row(new.messages, x)
         /\ Row(new.messages, id) \/ (buffered /\ Rest(new) = held)
         /\ \A m : Told(s.messages, held, m) => Told(new.messages, Rest(new), m)
<1>1. PICK rows \in Seq(MessageRow(n)) : rows = s.messages
  BY IngestionIs
<1>2. OneRowEach(rows) /\ LastOnly(rows, id) /\ NoneEmpty(rows) /\ Streaming(rows) \subseteq {id}
  BY <1>1 DEF Kept, CalmRows
<1>3. CASE buffered /\ new.messages = s.messages /\ Rest(new) = held
  <2>1. CalmRows(new)
    BY <1>1, <1>2, <1>3 DEF CalmRows, Heard
  <2> QED BY <1>3, <2>1
<1>4. CASE Rest(new) = <<>> /\ new.messages = Answer!Sent(s.messages, id, held, Opens)
  <2>1. PICK streaming \in Flag : streaming = Opens
    BY DEF Flag, Opens
  <2>2. PICK after : after = Answer!Sent(rows, id, held, streaming)
    OBVIOUS
  <2>a. after = new.messages
    BY <1>1, <1>4, <2>1, <2>2
  <2>3. Streaming(after) = Streaming(rows) \cup {id}
    BY <1>2, <2>1, <2>2, SentStreams
  <2>4. /\ LastOnly(after, id) /\ NoneEmpty(after)
        /\ \A x : Row(after, x) <=> Row(rows, x) \/ x = id
    BY <1>2, <2>2, SentSays
  <2>5. \A m : Told(rows, held, m) => Told(after, <<>>, m)
    BY <1>2, <2>2, SentTold
  <2>6. CalmRows(new)
    BY <1>2, <2>a, <2>3, <2>4, <1>4 DEF CalmRows, Heard
  <2> QED BY <1>1, <1>4, <2>a, <2>4, <2>5, <2>6
<1> QED BY <1>3, <1>4 DEF Heard

-----------------------------------------------------------------------------
(* The names: num items were opened, the last of them may still be open.   *)
CalmNames(s, num, open) ==
  /\ open => num >= 1 /\ s.segment.number = num /\ s.segment.next >= 1
  /\ ~open => s.segment = Answer!NoSegment /\ s.active = NoMessage
  /\ s.active # NoMessage => s.active = <<num, s.segment.next - 1>>
  /\ \A x \in MessageName :
       Row(s.messages, x) => x[1] <= num /\ (open /\ x[1] = num => x[2] < s.segment.next)

(* The first message of the item has its text from the beginning, or the   *)
(* agent waited while that was white space.                                *)
FirstTold(s, num, open, text, waits) ==
  open /\ ~Row(s.messages, <<num, 0>>) =>
    \/ s.active = <<num, 0>> /\ Rest(s) = text
    \/ /\ buffered /\ blank # {} /\ waits >= 1
       /\ s.active = NoMessage => ~Answer!Renderable(text)

LEMMA NextName ==
  ASSUME NEW n, NEW s \in Ingestion(n), Kept(s), CalmRows(s), NEW num \in Nat, NEW open,
         CalmNames(s, num, open), NEW number \in Nat, number = IF open THEN num ELSE num + 1,
         NEW id, id = IdOf(s, number)
  PROVE  /\ id \in MessageName /\ id # NoMessage
         /\ LastOnly(s.messages, id) /\ Streaming(s.messages) \subseteq {id}
         /\ ~open => id = <<number, 0>>
         /\ s.active # NoMessage => id = s.active
<1>0. number >= 1 /\ number \in Nat
  BY DEF CalmNames
<1>1. Next0(s, number) \in Nat /\ id \in MessageName
  BY WithActiveCalm
<1>2. CASE s.active # NoMessage
  <2>1. id = s.active
    BY <1>2 DEF IdOf
  <2>2. open
    BY <1>2 DEF CalmNames
  <2> QED BY <1>1, <1>2, <2>1, <2>2 DEF CalmRows
<1>3. CASE s.active = NoMessage
  <2>1. id = <<number, Next0(s, number)>>
    BY <1>3 DEF IdOf
  <2>2. id # NoMessage
    BY <1>0, <2>1 DEF NoMessage, Answer!NoMessage
  <2>3. ~Row(s.messages, id)
    <3>1. ASSUME Row(s.messages, id)  PROVE FALSE
      <4>1. id[1] = number /\ id[2] = Next0(s, number)
        BY <2>1
      <4>2. number <= num /\ (open /\ number = num => Next0(s, number) < s.segment.next)
        BY <1>1, <3>1, <4>1 DEF CalmNames
      <4>3. open
        BY <1>0, <4>2
      <4>4. Next0(s, number) = s.segment.next
        BY <4>3 DEF CalmNames, Next0
      <4> QED BY <1>1, <4>2, <4>3, <4>4
    <3> QED BY <3>1
  <2>4. LastOnly(s.messages, id)
    BY <2>3 DEF LastOnly, Row
  <2>5. Streaming(s.messages) \subseteq {id}
    BY <1>3 DEF CalmRows
  <2>6. ~open => Next0(s, number) = 0
    BY <1>0 DEF CalmNames, Answer!NoSegment, Next0
  <2> QED BY <1>1, <1>3, <2>1, <2>2, <2>4, <2>5, <2>6
<1> QED BY <1>2, <1>3

AfterDelta(new, s, m, num, open, number) ==
  /\ CalmRows(new) /\ CalmNames(new, number, TRUE)
  /\ Told(s.messages, Rest(s), m) => Told(new.messages, Rest(new), m + 1)
  /\ \A text, waits : FirstTold(s, num, open, text, waits) =>
       FirstTold(new, number, TRUE, IF open THEN Append(text, m + 1) ELSE <<m + 1>>, waits)

LEMMA DeltaStays ==
  ASSUME NEW m \in Nat, NEW n \in Nat, n = m + 1, NEW s \in Ingestion(m), Kept(s), StreamsKnown(s),
         Unarmed(s), CalmRows(s), NEW num \in Nat, NEW open, CalmNames(s, num, open),
         NEW number \in Nat, number = IF open THEN num ELSE num + 1,
         NEW new \in Ingestion(n), new = Answer!OnDelta(s, number, n)
  PROVE  AfterDelta(new, s, m, num, open, number)
<1>1. PICK id : id = IdOf(s, number)
  OBVIOUS
<1>2. /\ id \in MessageName /\ id # NoMessage
      /\ LastOnly(s.messages, id) /\ Streaming(s.messages) \subseteq {id}
  BY <1>1, NextName
<1>3. (~open => id = <<number, 0>>) /\ (s.active # NoMessage => id = s.active)
  BY <1>1, NextName
<1>4. s \in Ingestion(n) /\ n \in 1..n
  BY MoreDeltas
<1>5. PICK rest \in Text(m) : rest = Rest(s)
  BY TextOfIs DEF Rest
<1>6. PICK held : held = Append(rest, n)
  OBVIOUS
<1>7. held \in Text(n) /\ held # <<>>
  <2>1. Text(m) \subseteq Text(n)
    BY MoreDeltas
  <2> QED BY <1>4, <1>6, <2>1 DEF Text
<1>8. Heard(new, s, id, held) /\ new.segment = Answer!WithActive(s, number).segment
  BY <1>1, <1>2, <1>4, <1>5, <1>6, DeltaCalm
<1>9. /\ CalmRows(new)
      /\ \A x : Row(new.messages, x) => Row(s.messages, x) \/ x = id
      /\ \A x : Row(s.messages, x) => Row(new.messages, x)
      /\ Row(new.messages, id) \/ (buffered /\ Rest(new) = held)
      /\ \A k : Told(s.messages, held, k) => Told(new.messages, Rest(new), k)
  <2>1. PICK later \in Ingestion(n) : later = new
    OBVIOUS
  <2>2. Heard(later, s, id, held)
    BY <1>8, <2>1
  <2>3. /\ CalmRows(later)
        /\ \A x : Row(later.messages, x) => Row(s.messages, x) \/ x = id
        /\ \A x : Row(s.messages, x) => Row(later.messages, x)
        /\ Row(later.messages, id) \/ (buffered /\ Rest(later) = held)
        /\ \A k : Told(s.messages, held, k) => Told(later.messages, Rest(later), k)
    BY <1>2, <1>4, <1>7, <2>2, HeardIsCalm
  <2> QED BY <2>1, <2>3
<1>10. Told(s.messages, Rest(s), m) => Told(new.messages, Rest(new), n)
  <2>1. s.messages \in Seq(MessageRow(m))
    BY IngestionIs
  <2>2. Told(s.messages, rest, m) => Told(s.messages, held, n)
    BY <1>6, <2>1, TellsMore
  <2> QED BY <1>5, <1>9, <2>2
<1>11. new.active = id
  BY <1>8 DEF Heard
<1>12. CalmNames(new, number, TRUE)
  <2>0. PICK k \in Nat : k = s.segment.next
    BY DEF Ingestion, SegmentRecord
  <2>1. /\ s.active # NoMessage => new.segment = s.segment
        /\ s.active = NoMessage => /\ new.segment.number = number
                                   /\ new.segment.next = Next0(s, number) + 1
        /\ Next0(s, number) \in Nat
    BY <1>8, WithActiveCalm
  <2>2. CASE s.active # NoMessage
    <3>1. /\ open /\ number = num /\ num >= 1 /\ s.segment.number = num /\ k >= 1
          /\ s.active = <<num, k - 1>>
      BY <2>0, <2>2 DEF CalmNames
    <3>2. id = <<number, k - 1>> /\ new.segment.number = number /\ new.segment.next = k
      BY <1>3, <2>0, <2>1, <2>2, <3>1
    <3>3. ASSUME NEW x \in MessageName, Row(new.messages, x)
          PROVE  x[1] <= number /\ (x[1] = number => x[2] < new.segment.next)
      <4>1. CASE Row(s.messages, x)
        BY <2>0, <3>1, <3>2, <4>1 DEF CalmNames
      <4>2. CASE x = id
        BY <2>0, <3>1, <3>2, <4>2
      <4> QED BY <1>9, <3>3, <4>1, <4>2
    <3> QED BY <1>11, <2>0, <3>1, <3>2, <3>3 DEF CalmNames
  <2>3. CASE s.active = NoMessage
    <3>1. PICK j \in Nat : j = Next0(s, number)
      BY <2>1
    <3>2. id = <<number, j>> /\ new.segment.number = number /\ new.segment.next = j + 1
      BY <1>1, <2>1, <2>3, <3>1 DEF IdOf
    <3>3. number >= 1 /\ (open => j = k) /\ (open => number = num)
      BY <2>0, <3>1 DEF CalmNames, Next0
    <3>4. ASSUME NEW x \in MessageName, Row(new.messages, x)
          PROVE  x[1] <= number /\ (x[1] = number => x[2] < new.segment.next)
      <4>0. x[1] \in Nat /\ x[2] \in Nat
        BY DEF MessageName
      <4>1. CASE Row(s.messages, x)
        <5>1. x[1] <= num /\ (open /\ x[1] = num => x[2] < k)
          BY <2>0, <4>1 DEF CalmNames
        <5> QED BY <3>2, <3>3, <4>0, <5>1
      <4>2. CASE x = id
        BY <3>2, <4>2
      <4> QED BY <1>9, <3>4, <4>1, <4>2
    <3> QED BY <1>11, <3>2, <3>3, <3>4 DEF CalmNames
  <2> QED BY <2>2, <2>3
<1>13. ASSUME NEW text, NEW waits, FirstTold(s, num, open, text, waits),
              ~Row(new.messages, <<number, 0>>)
       PROVE  \/ /\ new.active = <<number, 0>>
                 /\ Rest(new) = IF open THEN Append(text, n) ELSE <<n>>
              \/ /\ buffered /\ blank # {} /\ waits >= 1 /\ new.active # NoMessage
  <2>1. ~Row(s.messages, <<number, 0>>)
    BY <1>9, <1>13
  <2>2. id = <<number, 0>> => Rest(new) = held
    BY <1>9, <1>13
  <2>3. CASE ~open
    <3>1. s.active = NoMessage /\ id = <<number, 0>>
      BY <1>3, <2>3 DEF CalmNames
    <3>2. s.remembered = <<>>
      BY <3>1 DEF CalmRows
    <3>3. rest = <<>>
      BY <1>5, <3>2, NothingBuffered DEF Rest
    <3>4. held = <<n>>
      BY <1>6, <3>3
    <3> QED BY <1>11, <2>2, <2>3, <3>1, <3>4
  <2>4. CASE open
    <3>1. number = num
      BY <2>4
    <3>2. CASE s.active = <<num, 0>> /\ Rest(s) = text
      <4>1. s.active # NoMessage
        <5>1. num >= 1
          BY <2>4 DEF CalmNames
        <5> QED BY <3>2, <5>1 DEF NoMessage, Answer!NoMessage
      <4>2. id = <<number, 0>> /\ held = Append(text, n)
        BY <1>3, <1>5, <1>6, <3>1, <3>2, <4>1
      <4> QED BY <1>11, <2>2, <2>4, <4>2
    <3>3. CASE buffered /\ blank # {} /\ waits >= 1
      BY <1>2, <1>11, <3>3
    <3> QED BY <1>13, <2>1, <2>4, <3>1, <3>2, <3>3 DEF FirstTold
  <2> QED BY <2>3, <2>4
<1>14. ASSUME NEW text, NEW waits, FirstTold(s, num, open, text, waits)
       PROVE  FirstTold(new, number, TRUE, IF open THEN Append(text, n) ELSE <<n>>, waits)
  BY <1>13, <1>14 DEF FirstTold
<1> QED BY <1>9, <1>10, <1>12, <1>14 DEF AfterDelta

LEMMA BlankIs ==
  ASSUME NEW n, NEW text \in Text(n), text # <<>>, ~Answer!Renderable(text)
  PROVE  blank # {}
<1>1. 1 \in DOMAIN text
  BY DEF Text
<1> QED BY <1>1 DEF Answer!Renderable

Short(waits) == buffered /\ blank # {} => waits < 2
AfterPause(new, s, num, open) ==
  /\ CalmRows(new) /\ CalmNames(new, num, open)
  /\ \A m : Told(s.messages, Rest(s), m) => Told(new.messages, Rest(new), m)
  /\ \A text : \A waits \in Nat :
       FirstTold(s, num, open, text, waits) /\ Short(waits + 1) =>
         FirstTold(new, num, open, text, waits + 1)

LEMMA PauseStays ==
  ASSUME NEW n, NEW s \in Ingestion(n), Kept(s), Unarmed(s), CalmRows(s),
         NEW num \in Nat, NEW open, CalmNames(s, num, open),
         NEW new \in Ingestion(n), Kept(new), new = Answer!OnPause(s)
  PROVE  AfterPause(new, s, num, open)
<1>1. /\ s.active = NoMessage => new = s
      /\ s.active # NoMessage => Settled(new, s) /\ new.segment = s.segment
  BY PauseCalm
<1>2. CASE s.active = NoMessage
  <2>1. ASSUME NEW text, NEW waits \in Nat, FirstTold(s, num, open, text, waits)
        PROVE  FirstTold(s, num, open, text, waits + 1)
    BY <2>1 DEF FirstTold
  <2> QED BY <1>1, <1>2, <2>1 DEF AfterPause
<1>3. CASE s.active # NoMessage
  <2>1. Settled(new, s) /\ new.active = NoMessage /\ new.segment = s.segment
    BY <1>1, <1>3 DEF Settled
  <2>2. /\ CalmRows(new)
        /\ \A x : Row(new.messages, x) => Row(s.messages, x) \/ x = s.active
        /\ \A x : Row(s.messages, x) => Row(new.messages, x)
        /\ Answer!Renderable(Rest(s)) => Row(new.messages, s.active)
        /\ Rest(new) = <<>>
        /\ \A m : Told(s.messages, Rest(s), m) => Told(new.messages, Rest(new), m)
    BY <1>3, <2>1, ClosedIsCalm
  <2>3. PICK k \in Nat : k = s.segment.next
    BY DEF Ingestion, SegmentRecord
  <2>4. open /\ num >= 1 /\ s.segment.number = num /\ k >= 1 /\ s.active = <<num, k - 1>>
    BY <1>3, <2>3 DEF CalmNames
  <2>5. ASSUME NEW x \in MessageName, Row(new.messages, x)
        PROVE  x[1] <= num /\ (x[1] = num => x[2] < k)
    <3>1. CASE Row(s.messages, x)
      BY <2>3, <2>4, <3>1 DEF CalmNames
    <3>2. CASE x = s.active
      BY <2>3, <2>4, <3>2
    <3> QED BY <2>2, <2>5, <3>1, <3>2
  <2>6. CalmNames(new, num, open)
    BY <2>1, <2>3, <2>4, <2>5 DEF CalmNames
  <2>7. ASSUME NEW text, NEW waits \in Nat, FirstTold(s, num, open, text, waits),
               buffered /\ blank # {} => waits + 1 < 2, ~Row(new.messages, <<num, 0>>)
        PROVE  buffered /\ blank # {} /\ waits + 1 >= 1 /\ ~Answer!Renderable(text)
    <3>1. ~Row(s.messages, <<num, 0>>)
      BY <2>2, <2>7
    <3>2. CASE s.active = <<num, 0>> /\ Rest(s) = text
      <4>1. ~Answer!Renderable(text) /\ text # <<>>
        BY <1>3, <2>2, <2>7, <3>1, <3>2 DEF CalmRows
      <4>2. text \in Text(n)
        BY <3>2, TextOfIs DEF Rest
      <4>3. s.active \in DOMAIN s.buffer
        BY <3>2, <4>1, TextOfIs DEF Rest
      <4>4. buffered
        BY <4>3 DEF CalmRows
      <4> QED BY <4>1, <4>2, <4>4, BlankIs
    <3>3. CASE buffered /\ blank # {} /\ waits >= 1
      BY <2>7, <3>3
    <3> QED BY <2>4, <2>7, <3>1, <3>2, <3>3 DEF FirstTold
  <2>8. ASSUME NEW text, NEW waits \in Nat, FirstTold(s, num, open, text, waits),
               Short(waits + 1)
        PROVE  FirstTold(new, num, open, text, waits + 1)
    BY <2>7, <2>8 DEF FirstTold, Short
  <2> QED BY <2>2, <2>6, <2>8 DEF AfterPause
<1> QED BY <1>2, <1>3 DEF AfterPause

(* The completion of a message that streams no more changes nothing.       *)
LEMMA SentSame ==
  ASSUME NEW n, NEW rows \in Seq(MessageRow(n)), NEW id \in MessageName, OneRowEach(rows),
         Row(rows, id), Streaming(rows) = {},
         NEW new, new = Answer!Sent(rows, id, <<>>, Closes)
  PROVE  new = rows
<1>1. PICK text \in Text(n), streaming \in Flag : text = <<>> /\ streaming = Closes
  BY NothingTyped DEF Flag, Closes
<1>2. new = Answer!Sent(rows, id, text, streaming)
  BY <1>1
<1>3. /\ new \in Seq(MessageRow(n)) /\ Len(new) = Len(rows)
      /\ \A i \in 1..Len(rows) : new[i].id = rows[i].id
      /\ \A i \in 1..Len(rows) : rows[i].id # id => new[i] = rows[i]
      /\ \A i \in 1..Len(rows) : rows[i].id = id =>
           new[i].text = rows[i].text \o text /\ new[i].streaming = streaming
  BY <1>2, SentExtends
<1>4. ASSUME NEW i \in 1..Len(rows)  PROVE new[i] = rows[i]
  <2>1. rows[i] \in MessageRow(n) /\ rows[i].text \in Text(n)
    BY RowIs
  <2>2. new[i] \in MessageRow(n)
    BY <1>3, RowIs
  <2>3. ~rows[i].streaming
    BY DEF Streaming
  <2>4. rows[i].text \o <<>> = rows[i].text
    BY <2>1 DEF Text
  <2>5. CASE rows[i].id = id
    <3>1. /\ new[i].id = rows[i].id /\ new[i].text = rows[i].text
          /\ new[i].streaming = rows[i].streaming
      BY <1>1, <1>3, <2>1, <2>3, <2>4, <2>5 DEF Closes, MessageRow
    <3> QED BY <2>1, <2>2, <3>1 DEF MessageRow
  <2> QED BY <1>3, <2>5
<1> QED BY <1>3, <1>4

(* A completion without an open segment.                                   *)
Completed(new, s, id, detail) ==
  /\ CalmRows(new) /\ Rest(new) = <<>>
  /\ \A x : Row(new.messages, x) => Row(s.messages, x) \/ x = id
  /\ Row(s.messages, id) \/ ~Answer!Renderable(detail) => new.messages = s.messages
  /\ ~Row(s.messages, id) =>
       \A m : Told(s.messages, detail, m) => Told(new.messages, <<>>, m)

LEMMA ClosedItemIs ==
  ASSUME NEW n, NEW s \in Ingestion(n), Kept(s), CalmRows(s), s.active = NoMessage,
         NEW id \in MessageName, NEW detail \in Text(n), NEW text \in Text(n),
         NEW new \in Ingestion(n), Kept(new), ClosedItem(new, s, id, detail, text)
  PROVE  Completed(new, s, id, detail)
<1>1. PICK rows : rows = s.messages
  OBVIOUS
<1>2. PICK later : later = new.messages
  OBVIOUS
<1>3. rows \in Seq(MessageRow(n)) /\ OneRowEach(rows) /\ NoneEmpty(rows) /\ Streaming(rows) = {}
  BY <1>1, IngestionIs DEF Kept, CalmRows
<1>4. new.remembered = <<>> /\ new.active = NoMessage
  BY DEF ClosedItem
<1>5. DOMAIN new.buffer = {} /\ Rest(new) = <<>>
  BY <1>4, NothingBuffered DEF Rest
<1>6. PICK projected : (projected => Row(rows, id)) /\ ClosedFrom(later, rows, id, text, projected)
  BY <1>1, <1>2 DEF ClosedItem
<1>7. ~Answer!Renderable(<<>>)
  BY DEF Answer!Renderable
<1>8. CASE ~Answer!Renderable(text)
  <2>1. later = rows
    <3>1. CASE projected
      BY <1>3, <1>6, <1>8, <3>1, SentSame DEF ClosedFrom
    <3> QED BY <1>6, <1>8, <3>1 DEF ClosedFrom
  <2>2. CalmRows(new)
    BY <1>1, <1>2, <1>3, <1>4, <1>5, <2>1 DEF CalmRows
  <2>3. ASSUME ~Row(rows, id), NEW m, Told(rows, detail, m)  PROVE Told(later, <<>>, m)
    <3>1. ~Answer!Renderable(detail)
      BY <1>1, <1>8, <2>3 DEF ClosedItem
    <3> QED BY <1>3, <2>1, <2>3, <3>1, TellsLess
  <2> QED BY <1>1, <1>2, <1>5, <2>1, <2>2, <2>3 DEF Completed
<1>9. CASE Answer!Renderable(text)
  <2>1. ~Row(rows, id) /\ ~projected
    BY <1>1, <1>6, <1>7, <1>9 DEF ClosedItem
  <2>2. text = detail
    BY <1>7, <1>9 DEF ClosedItem
  <2>3. LastOnly(rows, id)
    BY <2>1 DEF LastOnly, Row
  <2>4. /\ NoneEmpty(later) /\ Streaming(later) = {}
        /\ \A x : Row(later, x) => Row(rows, x) \/ x = id
        /\ \A m : Told(rows, text, m) => Told(later, <<>>, m)
    BY <1>3, <1>6, <2>3, ClosedTells
  <2>5. CalmRows(new)
    BY <1>2, <1>4, <1>5, <2>4 DEF CalmRows
  <2> QED BY <1>1, <1>2, <1>5, <1>9, <2>1, <2>2, <2>4, <2>5 DEF Completed
<1> QED BY <1>8, <1>9

AfterItem(new, s, num, open, detail) ==
  /\ CalmRows(new) /\ CalmNames(new, num, FALSE)
  /\ \A m, text, waits :
       /\ Told(s.messages, Rest(s), m) /\ FirstTold(s, num, open, text, waits)
       /\ detail = <<>> \/ detail = text
       => Told(new.messages, Rest(new), m)

LEMMA ItemStays ==
  ASSUME NEW n, NEW s \in Ingestion(n), Kept(s), StreamsKnown(s), Unarmed(s), CalmRows(s),
         NEW num \in Nat, NEW open, open, CalmNames(s, num, open),
         NEW detail \in Text(n),
         NEW new \in Ingestion(n), Kept(new), new = Answer!OnItemCompleted(s, num, detail)
  PROVE  AfterItem(new, s, num, open, detail)
<1>1. /\ new.segment = Answer!NoSegment
      /\ s.active # NoMessage => Settled(new, s)
      /\ s.active = NoMessage =>
           \E text \in Text(n) : ClosedItem(new, s, <<num, 0>>, detail, text)
  BY ItemCalm
<1>2. CASE s.active # NoMessage
  <2>1. Settled(new, s) /\ new.active = NoMessage
    BY <1>1, <1>2 DEF Settled
  <2>2. /\ CalmRows(new)
        /\ \A x : Row(new.messages, x) => Row(s.messages, x) \/ x = s.active
        /\ \A m : Told(s.messages, Rest(s), m) => Told(new.messages, Rest(new), m)
    BY <1>2, <2>1, ClosedIsCalm
  <2>3. s.active[1] = num
    BY <1>2 DEF CalmNames
  <2>4. \A x \in MessageName : Row(new.messages, x) => x[1] <= num
    BY <2>2, <2>3 DEF CalmNames
  <2>5. CalmNames(new, num, FALSE)
    BY <1>1, <2>1, <2>4 DEF CalmNames
  <2> QED BY <2>2, <2>5 DEF AfterItem
<1>3. CASE s.active = NoMessage
  <2>1. PICK id \in MessageName : id = <<num, 0>>
    BY DEF MessageName
  <2>2. PICK told \in Text(n) : ClosedItem(new, s, id, detail, told)
    BY <1>1, <1>3, <2>1
  <2>3. /\ CalmRows(new) /\ Rest(new) = <<>>
        /\ \A x : Row(new.messages, x) => Row(s.messages, x) \/ x = id
        /\ Row(s.messages, id) \/ ~Answer!Renderable(detail) => new.messages = s.messages
    <3>1. PICK later \in Ingestion(n) : later = new
      OBVIOUS
    <3>2. ClosedItem(later, s, id, detail, told) /\ Kept(later)
      BY <2>2, <3>1
    <3>3. Completed(later, s, id, detail)
      BY <1>3, <3>2, ClosedItemIs
    <3> QED BY <3>1, <3>3 DEF Completed
  <2>4. new.active = NoMessage
    BY <2>2 DEF ClosedItem
  <2>5. \A x \in MessageName : Row(new.messages, x) => x[1] <= num
    BY <2>1, <2>3 DEF CalmNames
  <2>6. CalmNames(new, num, FALSE)
    BY <1>1, <2>4, <2>5 DEF CalmNames
  <2>7. s.remembered = <<>> /\ Rest(s) = <<>>
    <3>1. s.remembered = <<>>
      BY <1>3 DEF CalmRows
    <3> QED BY <3>1, NothingBuffered DEF Rest
  <2>8. num >= 1 /\ NoMessage # <<num, 0>>
    <3>1. num >= 1
      BY DEF CalmNames
    <3> QED BY <3>1 DEF NoMessage, Answer!NoMessage
  <2>9. ASSUME NEW m, NEW text, NEW waits, Told(s.messages, Rest(s), m),
               FirstTold(s, num, open, text, waits), detail = <<>> \/ detail = text
        PROVE  Told(new.messages, Rest(new), m)
    <3>1. ~Row(s.messages, id) => ~Answer!Renderable(text)
      BY <1>3, <2>1, <2>8, <2>9 DEF FirstTold
    <3>2. ~Row(s.messages, id) => ~Answer!Renderable(detail)
      BY <2>9, <3>1 DEF Answer!Renderable
    <3> QED BY <2>3, <2>7, <2>9, <3>2
  <2> QED BY <2>3, <2>6, <2>9 DEF AfterItem
<1> QED BY <1>2, <1>3 DEF AfterItem

AfterWholeItem(new, s, m, num) ==
  /\ CalmRows(new) /\ CalmNames(new, num + 1, FALSE)
  /\ Told(s.messages, Rest(s), m) => Told(new.messages, Rest(new), m + 1)

LEMMA WholeItemStays ==
  ASSUME NEW m \in Nat, NEW n \in Nat, n = m + 1, NEW s \in Ingestion(m), Kept(s),
         StreamsKnown(s), Unarmed(s), CalmRows(s),
         NEW num \in Nat, NEW open, ~open, CalmNames(s, num, open),
         NEW new \in Ingestion(n), Kept(new), new = Answer!OnItemCompleted(s, num + 1, <<n>>)
  PROVE  AfterWholeItem(new, s, m, num)
<1>1. s \in Ingestion(n) /\ s.messages \in Seq(MessageRow(m)) /\ s.messages \in Seq(MessageRow(n))
  <2>1. s \in Ingestion(n)
    BY MoreDeltas
  <2> QED BY <2>1, IngestionIs
<1>2. PICK detail \in Text(n) : detail = <<n>>
  <2>1. n \in 1..n
    OBVIOUS
  <2>2. <<n>> \in Text(n)
    BY <2>1 DEF Text
  <2> QED BY <2>2
<1>3. s.active = NoMessage
  BY DEF CalmNames
<1>4. PICK number \in Nat : number = num + 1
  OBVIOUS
<1>5. PICK id \in MessageName : id = <<number, 0>>
  BY DEF MessageName
<1>6. /\ new.segment = Answer!NoSegment
      /\ \E text \in Text(n) : ClosedItem(new, s, id, detail, text)
  BY <1>1, <1>2, <1>3, <1>4, <1>5, ItemCalm
<1>7. PICK text \in Text(n) : ClosedItem(new, s, id, detail, text)
  BY <1>6
<1>8. /\ CalmRows(new) /\ Rest(new) = <<>>
      /\ \A x : Row(new.messages, x) => Row(s.messages, x) \/ x = id
      /\ ~Row(s.messages, id) =>
           \A k : Told(s.messages, detail, k) => Told(new.messages, <<>>, k)
  <2>1. PICK later \in Ingestion(n) : later = new
    OBVIOUS
  <2>2. ClosedItem(later, s, id, detail, text) /\ Kept(later)
    BY <1>7, <2>1
  <2>3. Completed(later, s, id, detail)
    BY <1>1, <1>3, <2>2, ClosedItemIs
  <2> QED BY <2>1, <2>3 DEF Completed
<1>9. new.active = NoMessage
  BY <1>7 DEF ClosedItem
<1>10. \A x \in MessageName : Row(new.messages, x) => x[1] <= number
  <2>1. \A x \in MessageName : Row(s.messages, x) => x[1] <= num /\ x[1] \in Nat
    BY DEF CalmNames, MessageName
  <2> QED BY <1>4, <1>5, <1>8, <2>1
<1>11. CalmNames(new, number, FALSE)
  BY <1>6, <1>9, <1>10 DEF CalmNames
<1>12. ~Row(s.messages, id)
  BY <1>4, <1>5 DEF CalmNames
<1>13. ASSUME Told(s.messages, Rest(s), m)  PROVE Told(new.messages, Rest(new), n)
  <2>1. PICK rest \in Text(m) : rest = Rest(s)
    BY TextOfIs DEF Rest
  <2>2. rest = <<>>
    <3>1. s.remembered = <<>>
      BY <1>3 DEF CalmRows
    <3> QED BY <2>1, <3>1, NothingBuffered DEF Rest
  <2>3. detail = Append(rest, m + 1)
    BY <1>2, <2>2
  <2>4. Told(s.messages, detail, n)
    BY <1>1, <1>13, <2>1, <2>3, TellsMore
  <2> QED BY <1>8, <1>12, <2>4
<1> QED BY <1>4, <1>8, <1>11, <1>13 DEF AfterWholeItem

LEMMA TurnEndStays ==
  ASSUME NEW n, NEW s \in Ingestion(n), Kept(s), StreamsKnown(s), ActiveKnown(s), Unarmed(s),
         CalmRows(s), NEW new \in Ingestion(n), Kept(new), new = Answer!OnTurnCompleted(s)
  PROVE  /\ new.active = NoMessage /\ Streaming(new.messages) = {}
         /\ \A m : Told(s.messages, Rest(s), m) => Told(new.messages, Rest(new), m)
<1>1. /\ s.active = NoMessage => /\ new.remembered = <<>> /\ new.active = NoMessage
                                 /\ new.messages = s.messages
      /\ s.active # NoMessage => Settled(new, s)
  BY TurnEndCalm
<1>2. CASE s.active # NoMessage
  <2>1. Settled(new, s) /\ new.active = NoMessage
    BY <1>1, <1>2 DEF Settled
  <2>2. CalmRows(new) /\ \A m : Told(s.messages, Rest(s), m) => Told(new.messages, Rest(new), m)
    BY <1>2, <2>1, ClosedIsCalm
  <2> QED BY <2>1, <2>2 DEF CalmRows
<1>3. CASE s.active = NoMessage
  <2>1. s.remembered = <<>> /\ Streaming(s.messages) = {}
    BY <1>3 DEF CalmRows
  <2>2. Rest(s) = <<>> /\ Rest(new) = <<>>
    BY <1>1, <1>3, <2>1, NothingBuffered DEF Rest
  <2> QED BY <1>1, <1>3, <2>1, <2>2
<1> QED BY <1>2, <1>3

-----------------------------------------------------------------------------
(* The answer as long as no dispatch failed.  What a wait costs depends on *)
(* white space: Whole.                                                     *)
Open == item # Answer!NoItem
Whole == buffered /\ blank # {} => pauses < 2

CalmRun ==
  /\ CalmRows(state) /\ CalmNames(state, items, Open)
  /\ Open => item.number = items
Calm ==
  /\ turn \in {"running", "completed"}
  /\ \A id \in Streaming(state.messages) : state.active # NoMessage /\ id = state.active
  /\ turn = "running" => CalmRun
  /\ Whole => /\ Told(state.messages, Rest(state), sent)
              /\ turn = "running" => FirstTold(state, items, Open, item.text, pauses)

AnswerInv == AnyAnswer /\ (faults = 0 /\ turn # "exited" => Calm)

LEMMA SettingStays ==
  ASSUME Setting
  PROVE  /\ CalmRows(state)' <=> CalmRows(state')
         /\ Told(state.messages, Rest(state), sent)' <=> Told(state'.messages, Rest(state'), sent')
         /\ FirstTold(state, items, Open, item.text, pauses)'
              <=> FirstTold(state', items', Open', item'.text, pauses')
         /\ Rest(state)' = Rest(state')
         /\ Whole' <=> (buffered /\ blank # {} => pauses' < 2)
<1>1. Rest(state)' = Rest(state')
  BY DEF Rest, Answer!TextOf
<1>2. CalmRows(state)' <=> CalmRows(state')
  BY <1>1 DEF CalmRows, Setting
<1>3. Told(state.messages, Rest(state), sent)' <=> Told(state'.messages, Rest(state'), sent')
  BY <1>1 DEF Told, Setting
<1>4. \A text : Answer!Renderable(text)' <=> Answer!Renderable(text)
  BY DEF Answer!Renderable, Setting
<1>5. FirstTold(state, items, Open, item.text, pauses)'
        <=> FirstTold(state', items', Open', item'.text, pauses')
  BY <1>1, <1>4 DEF FirstTold, Setting, Answer!Renderable
<1>6. Whole' <=> (buffered /\ blank # {} => pauses' < 2)
  BY DEF Whole, Setting
<1> QED BY <1>1, <1>2, <1>3, <1>5, <1>6

LEMMA CalmInit ==
  ASSUME Answer!Init, AnswerBounds  PROVE AnswerInv
<1>1. /\ state.remembered = <<>> /\ state.buffer = [id \in {} |-> <<>>]
      /\ state.active = NoMessage /\ state.segment = Answer!NoSegment /\ state.messages = <<>>
      /\ state.failAt = 0 /\ ~state.failed
  BY DEF Answer!Init, NoMessage
<1>2. state \in Ingestion(0)
  <2>1. [id \in {} |-> <<>>] \in Texts(0)
    <3>1. [id \in {} |-> <<>>] \in [{} -> Text(0)]
      OBVIOUS
    <3> QED BY <3>1 DEF Texts
  <2>2. Answer!NoSegment \in SegmentRecord
    BY DEF Answer!NoSegment, SegmentRecord
  <2>3. <<>> \in Seq(MessageName) /\ <<>> \in Seq(MessageRow(0))
    OBVIOUS
  <2>4. state = [remembered |-> <<>>, buffer |-> [id \in {} |-> <<>>], active |-> NoMessage,
                 segment |-> Answer!NoSegment, messages |-> <<>>, failAt |-> 0, failed |-> FALSE]
    BY DEF Answer!Init, NoMessage
  <2> QED BY <2>1, <2>2, <2>3, <2>4, NothingTyped DEF Ingestion
<1>3. /\ turn = "running" /\ sent = 0 /\ item = Answer!NoItem /\ items = 0
      /\ pauses = 0 /\ faults = 0
      /\ buffered \in BOOLEAN /\ blank \in SUBSET (1..MaxDeltas)
  BY DEF Answer!Init
<1>4. item \in ItemRecord(0)
  BY <1>3, NothingTyped DEF ItemRecord, Answer!NoItem
<1>5. AnswerTyped
  BY <1>1, <1>2, <1>3, <1>4 DEF AnswerTyped, AnswerBounds
<1>6. Kept(state) /\ ActiveKnown(state) /\ StreamsKnown(state)
  BY <1>1 DEF Kept, ActiveKnown, StreamsKnown, OneRowEach, OnceEach, Streaming
<1>7. AnyAnswer
  BY <1>3, <1>5, <1>6 DEF AnyAnswer
<1>8. Streaming(state.messages) = {} /\ NoneEmpty(state.messages) /\ \A x : ~Row(state.messages, x)
  BY <1>1 DEF Streaming, NoneEmpty, Row
<1>9. CalmRun
  BY <1>1, <1>3, <1>8 DEF CalmRun, CalmRows, CalmNames, Open
<1>10. Told(state.messages, Rest(state), sent)
  <2>1. Rest(state) = <<>>
    BY <1>1 DEF Rest, Answer!TextOf
  <2>2. InOrder(<<>>, <<>>)
    BY DEF InOrder, OrderedRows, Rising, AllBefore
  <2> QED BY <1>1, <1>3, <2>1, <2>2 DEF Told
<1>11. FirstTold(state, items, Open, item.text, pauses)
  BY <1>3 DEF FirstTold, Open
<1> QED BY <1>3, <1>7, <1>8, <1>9, <1>10, <1>11 DEF AnswerInv, Calm

(* What the record lemmas need of a state.                                 *)
LEMMA CalmState ==
  ASSUME AnyAnswer, turn = "running"
  PROVE  /\ state \in Ingestion(sent) /\ Kept(state) /\ StreamsKnown(state) /\ ActiveKnown(state)
         /\ Unarmed(state) /\ sent \in Nat /\ items \in Nat /\ pauses \in Nat
         /\ item.text \in Text(sent) /\ item.number \in Nat
BY DEF AnyAnswer, AnswerTyped, Unarmed, ItemRecord

LEMMA NewState ==
  ASSUME AnyAnswer'
  PROVE  state' \in Ingestion(sent') /\ Kept(state') /\ sent' \in Nat /\ items' \in Nat
BY DEF AnyAnswer, AnswerTyped

LEMMA DeltaStep ==
  ASSUME AnswerInv, AnswerBounds, Answer!ContentDelta, Setting  PROVE AnswerInv'
<1>1. AnyAnswer' /\ (faults' = 0 => faults = 0 /\ state' = Answer!OnDelta(state, item'.number, sent'))
  BY DeltaIs DEF AnswerInv
<1> SUFFICES ASSUME faults' = 0  PROVE Calm'
  BY <1>1 DEF AnswerInv
<1>2. turn = "running" /\ turn' = turn /\ pauses' = pauses /\ sent' = sent + 1
  BY DEF Answer!ContentDelta
<1>3. Calm /\ CalmRun
  BY <1>1, <1>2 DEF AnswerInv, Calm
<1>4. PICK s : s = state
  OBVIOUS
<1>5. PICK m \in Nat, num \in Nat : m = sent /\ num = items
  BY <1>2, CalmState DEF AnswerInv
<1>6. PICK n \in Nat : n = sent'
  BY <1>2, <1>5
<1>7. PICK new : new = state'
  OBVIOUS
<1>8. PICK open : open = Open
  OBVIOUS
<1>9. PICK number \in Nat : number = IF open THEN num ELSE num + 1
  OBVIOUS
<1>10. /\ item'.number = number /\ items' = number
       /\ item'.text = IF open THEN Append(item.text, n) ELSE <<n>>
  <2>1. CASE open
    <3>1. item # Answer!NoItem /\ item.number = num
      BY <1>3, <1>5, <1>8, <2>1 DEF CalmRun, Open
    <3>2. item' = [item EXCEPT !.text = Append(@, sent + 1)] /\ items' = items
      BY <3>1 DEF Answer!ContentDelta
    <3>3. item'.number = item.number /\ item'.text = Append(item.text, sent + 1)
      BY <3>2 DEF AnswerInv, AnyAnswer, AnswerTyped, ItemRecord
    <3> QED BY <1>2, <1>5, <1>6, <1>9, <2>1, <3>1, <3>2, <3>3
  <2>2. CASE ~open
    <3>1. items' = items + 1 /\ item' = [number |-> items + 1, text |-> <<sent + 1>>]
      BY <1>8, <2>2 DEF Answer!ContentDelta, Open
    <3> QED BY <1>2, <1>5, <1>6, <1>9, <2>2, <3>1
  <2> QED BY <2>1, <2>2
<1>11. /\ s \in Ingestion(m) /\ Kept(s) /\ StreamsKnown(s) /\ Unarmed(s) /\ CalmRows(s)
       /\ CalmNames(s, num, open) /\ n = m + 1
  BY <1>2, <1>3, <1>4, <1>5, <1>6, <1>8, CalmState DEF AnswerInv, CalmRun
<1>12. new \in Ingestion(n) /\ new = Answer!OnDelta(s, number, n)
  BY <1>1, <1>4, <1>6, <1>7, <1>10, NewState
<1>13. AfterDelta(new, s, m, num, open, number)
  BY <1>9, <1>11, <1>12, DeltaStays
<1>14. Open'
  <2>1. number >= 1
    BY <1>9, <1>11 DEF CalmNames
  <2> QED BY <1>10, <2>1 DEF Open, Answer!NoItem
<1>15. CalmRun'
  BY <1>7, <1>10, <1>13, <1>14, SettingStays DEF CalmRun, CalmNames, AfterDelta
<1>16. Whole' => Told(s.messages, Rest(s), m) /\ FirstTold(s, num, open, item.text, pauses)
  BY <1>2, <1>3, <1>4, <1>5, <1>8, SettingStays DEF Calm, Whole
<1>17. Whole' => Told(new.messages, Rest(new), n) /\ FirstTold(new, number, TRUE, item'.text, pauses')
  BY <1>2, <1>10, <1>11, <1>13, <1>16 DEF AfterDelta
<1>18. Whole' => FirstTold(new, number, Open', item'.text, pauses')
  BY <1>14, <1>17 DEF FirstTold
<1>19. \A id \in Streaming(new.messages) : new.active # NoMessage /\ id = new.active
  BY <1>13 DEF CalmRows, AfterDelta
<1> QED BY <1>2, <1>6, <1>7, <1>10, <1>15, <1>17, <1>18, <1>19, SettingStays DEF Calm

LEMMA PauseStep ==
  ASSUME AnswerInv, AnswerBounds, Answer!Pause, Setting  PROVE AnswerInv'
<1>1. AnyAnswer' /\ (faults' = 0 => faults = 0 /\ state' = Answer!OnPause(state))
  BY PauseIs DEF AnswerInv
<1> SUFFICES ASSUME faults' = 0  PROVE Calm'
  BY <1>1 DEF AnswerInv
<1>2. /\ turn = "running" /\ turn' = turn /\ pauses' = pauses + 1 /\ sent' = sent
      /\ item' = item /\ items' = items
  BY DEF Answer!Pause
<1>3. Calm /\ CalmRun
  BY <1>1, <1>2 DEF AnswerInv, Calm
<1>4. PICK s : s = state
  OBVIOUS
<1>5. PICK n : n = sent
  OBVIOUS
<1>6. PICK num \in Nat, waits \in Nat : num = items /\ waits = pauses
  BY <1>2, CalmState DEF AnswerInv
<1>7. PICK new : new = state'
  OBVIOUS
<1>8. PICK open : open = Open
  OBVIOUS
<1>9. /\ s \in Ingestion(n) /\ Kept(s) /\ Unarmed(s) /\ CalmRows(s) /\ CalmNames(s, num, open)
  BY <1>2, <1>3, <1>4, <1>5, <1>6, <1>8, CalmState DEF AnswerInv, CalmRun
<1>10. new \in Ingestion(n) /\ Kept(new) /\ new = Answer!OnPause(s)
  BY <1>1, <1>2, <1>4, <1>5, <1>7, NewState
<1>11. AfterPause(new, s, num, open)
  BY <1>9, <1>10, PauseStays
<1>12. CalmRun'
  BY <1>2, <1>3, <1>6, <1>7, <1>8, <1>11, SettingStays DEF CalmRun, CalmNames, AfterPause, Open
<1>13. Whole' => /\ Told(s.messages, Rest(s), n) /\ FirstTold(s, num, open, item.text, waits)
                 /\ buffered /\ blank # {} => waits + 1 < 2
  BY <1>2, <1>3, <1>4, <1>5, <1>6, <1>8, SettingStays DEF Calm, Whole
<1>14. Whole' => Told(new.messages, Rest(new), n) /\ FirstTold(new, num, open, item.text, waits + 1)
  <2>1. PICK text : text = item.text
    OBVIOUS
  <2>2. ASSUME Whole'  PROVE FirstTold(new, num, open, text, waits + 1)
    <3>1. FirstTold(s, num, open, text, waits) /\ Short(waits + 1)
      BY <1>13, <2>1, <2>2 DEF Short
    <3> QED BY <1>11, <3>1 DEF AfterPause
  <2>3. ASSUME Whole'  PROVE Told(new.messages, Rest(new), n)
    BY <1>11, <1>13, <2>3 DEF AfterPause
  <2> QED BY <2>1, <2>2, <2>3
<1>15. Whole' => FirstTold(new, items', Open', item'.text, pauses')
  BY <1>2, <1>6, <1>8, <1>14 DEF FirstTold, Open
<1>16. \A id \in Streaming(new.messages) : new.active # NoMessage /\ id = new.active
  BY <1>11 DEF CalmRows, AfterPause
<1> QED BY <1>2, <1>5, <1>7, <1>12, <1>14, <1>15, <1>16, SettingStays DEF Calm

(* An item that is complete is no longer open.                             *)
LEMMA ItemStep ==
  ASSUME AnswerInv, AnswerBounds, Answer!ItemCompleted, Setting  PROVE AnswerInv'
<1>1. /\ AnyAnswer'
      /\ faults' = 0 => /\ faults = 0
                        /\ \E detail \in {<<>>, item.text} :
                             state' = Answer!OnItemCompleted(state, item.number, detail)
  BY ItemCompletedIs DEF AnswerInv
<1> SUFFICES ASSUME faults' = 0  PROVE Calm'
  BY <1>1 DEF AnswerInv
<1>2. /\ turn = "running" /\ turn' = turn /\ pauses' = pauses /\ sent' = sent
      /\ item' = Answer!NoItem /\ items' = items /\ Open
  BY DEF Answer!ItemCompleted, Open
<1>3. Calm /\ CalmRun
  BY <1>1, <1>2 DEF AnswerInv, Calm
<1>4. PICK s : s = state
  OBVIOUS
<1>5. PICK n : n = sent
  OBVIOUS
<1>6. PICK num \in Nat : num = items
  BY <1>2, CalmState DEF AnswerInv
<1>7. PICK new : new = state'
  OBVIOUS
<1>8. PICK open : open = Open
  OBVIOUS
<1>9. /\ s \in Ingestion(n) /\ Kept(s) /\ StreamsKnown(s) /\ Unarmed(s) /\ CalmRows(s)
      /\ CalmNames(s, num, open) /\ open
  BY <1>2, <1>3, <1>4, <1>5, <1>6, <1>8, CalmState DEF AnswerInv, CalmRun
<1>10. PICK detail \in Text(n) :
         /\ detail = <<>> \/ detail = item.text
         /\ state' = Answer!OnItemCompleted(state, item.number, detail)
  <2>1. <<>> \in Text(n) /\ item.text \in Text(n)
    BY <1>2, <1>5, CalmState, NothingTyped DEF AnswerInv
  <2> QED BY <1>1, <2>1
<1>11. new \in Ingestion(n) /\ Kept(new) /\ new = Answer!OnItemCompleted(s, num, detail)
  BY <1>1, <1>2, <1>3, <1>4, <1>5, <1>6, <1>7, <1>10, NewState DEF CalmRun
<1>12. AfterItem(new, s, num, open, detail)
  BY <1>9, <1>11, ItemStays
<1>13. ~Open'
  BY <1>2 DEF Open
<1>14. CalmRun'
  BY <1>2, <1>6, <1>7, <1>12, <1>13, SettingStays DEF CalmRun, CalmNames, AfterItem
<1>15. Whole' => Told(s.messages, Rest(s), n) /\ FirstTold(s, num, open, item.text, pauses)
  BY <1>2, <1>3, <1>4, <1>5, <1>6, <1>8, SettingStays DEF Calm, Whole
<1>16. Whole' => Told(new.messages, Rest(new), n)
  BY <1>10, <1>12, <1>15 DEF AfterItem
<1>17. FirstTold(new, items', Open', item'.text, pauses')
  BY <1>13 DEF FirstTold
<1>18. \A id \in Streaming(new.messages) : new.active # NoMessage /\ id = new.active
  BY <1>12 DEF CalmRows, AfterItem
<1> QED BY <1>2, <1>5, <1>7, <1>14, <1>16, <1>17, <1>18, SettingStays DEF Calm

LEMMA WholeItemStep ==
  ASSUME AnswerInv, AnswerBounds, Answer!WholeItemCompleted, Setting  PROVE AnswerInv'
<1>1. AnyAnswer' /\ (faults' = 0 => /\ faults = 0
                                    /\ state' = Answer!OnItemCompleted(state, items', <<sent'>>))
  BY WholeItemIs DEF AnswerInv
<1> SUFFICES ASSUME faults' = 0  PROVE Calm'
  BY <1>1 DEF AnswerInv
<1>2. /\ turn = "running" /\ turn' = turn /\ pauses' = pauses /\ sent' = sent + 1
      /\ item' = item /\ items' = items + 1 /\ ~Open
  BY DEF Answer!WholeItemCompleted, Open
<1>3. Calm /\ CalmRun
  BY <1>1, <1>2 DEF AnswerInv, Calm
<1>4. PICK s : s = state
  OBVIOUS
<1>5. PICK m \in Nat, num \in Nat : m = sent /\ num = items
  BY <1>2, CalmState DEF AnswerInv
<1>6. PICK n \in Nat : n = sent' /\ n = m + 1
  BY <1>2, <1>5
<1>7. PICK new : new = state'
  OBVIOUS
<1>8. PICK open : open = Open
  OBVIOUS
<1>9. /\ s \in Ingestion(m) /\ Kept(s) /\ StreamsKnown(s) /\ Unarmed(s) /\ CalmRows(s)
      /\ CalmNames(s, num, open) /\ ~open
  BY <1>2, <1>3, <1>4, <1>5, <1>8, CalmState DEF AnswerInv, CalmRun
<1>10. /\ new \in Ingestion(n) /\ Kept(new)
       /\ new = Answer!OnItemCompleted(s, num + 1, <<n>>)
  BY <1>1, <1>2, <1>4, <1>5, <1>6, <1>7, NewState
<1>11. AfterWholeItem(new, s, m, num)
  BY <1>6, <1>9, <1>10, WholeItemStays
<1>12. ~Open'
  BY <1>2 DEF Open
<1>13. CalmRun'
  BY <1>2, <1>5, <1>7, <1>11, <1>12, SettingStays DEF CalmRun, CalmNames, AfterWholeItem
<1>14. Whole' => Told(s.messages, Rest(s), m)
  BY <1>2, <1>3, <1>4, <1>5, SettingStays DEF Calm, Whole
<1>15. Whole' => Told(new.messages, Rest(new), n)
  BY <1>6, <1>11, <1>14 DEF AfterWholeItem
<1>16. FirstTold(new, items', Open', item'.text, pauses')
  BY <1>12 DEF FirstTold
<1>17. \A id \in Streaming(new.messages) : new.active # NoMessage /\ id = new.active
  BY <1>11 DEF CalmRows, AfterWholeItem
<1> QED BY <1>2, <1>6, <1>7, <1>13, <1>15, <1>16, <1>17, SettingStays DEF Calm

LEMMA TurnEndStep ==
  ASSUME AnswerInv, AnswerBounds, Answer!TurnCompleted, Setting  PROVE AnswerInv'
<1>1. AnyAnswer' /\ (faults' = 0 => /\ faults = 0 /\ state' = Answer!OnTurnCompleted(state)
                                    /\ turn' = "completed")
  BY TurnEndIs DEF AnswerInv
<1> SUFFICES ASSUME faults' = 0  PROVE Calm'
  BY <1>1 DEF AnswerInv
<1>2. turn = "running" /\ pauses' = pauses /\ sent' = sent
  BY DEF Answer!TurnCompleted
<1>3. Calm /\ CalmRun
  BY <1>1, <1>2 DEF AnswerInv, Calm
<1>4. PICK s : s = state
  OBVIOUS
<1>5. PICK n : n = sent
  OBVIOUS
<1>6. PICK new : new = state'
  OBVIOUS
<1>7. /\ s \in Ingestion(n) /\ Kept(s) /\ StreamsKnown(s) /\ ActiveKnown(s) /\ Unarmed(s)
      /\ CalmRows(s)
  BY <1>2, <1>3, <1>4, <1>5, CalmState DEF AnswerInv, CalmRun
<1>8. new \in Ingestion(n) /\ Kept(new) /\ new = Answer!OnTurnCompleted(s)
  BY <1>1, <1>2, <1>4, <1>5, <1>6, NewState
<1>9. /\ new.active = NoMessage /\ Streaming(new.messages) = {}
      /\ \A m : Told(s.messages, Rest(s), m) => Told(new.messages, Rest(new), m)
  BY <1>7, <1>8, TurnEndStays
<1>10. Whole' => Told(s.messages, Rest(s), n)
  BY <1>2, <1>3, <1>4, <1>5, SettingStays DEF Calm, Whole
<1> QED BY <1>1, <1>2, <1>5, <1>6, <1>9, <1>10, SettingStays DEF Calm

LEMMA AnswerStays ==
  ASSUME AnswerInv, AnswerBounds, Answer!Next  PROVE AnswerInv'
<1>1. Setting
  BY DEF Answer!Next, Setting
<1>2. CASE Answer!ContentDelta
  BY <1>1, <1>2, DeltaStep
<1>3. CASE Answer!Pause
  BY <1>1, <1>3, PauseStep
<1>4. CASE Answer!ItemCompleted
  BY <1>1, <1>4, ItemStep
<1>5. CASE Answer!WholeItemCompleted
  BY <1>1, <1>5, WholeItemStep
<1>6. CASE Answer!TurnCompleted
  BY <1>1, <1>6, TurnEndStep
<1>7. CASE Answer!SessionExited
  <2>1. AnyAnswer' /\ turn' = "exited"
    BY <1>1, <1>7, ExitIs DEF AnswerInv
  <2> QED BY <2>1 DEF AnswerInv
<1> QED BY <1>2, <1>3, <1>4, <1>5, <1>6, <1>7 DEF Answer!Next

-----------------------------------------------------------------------------
(* What it says of the answer.                                             *)
LEMMA InDomain ==
  ASSUME NEW n, NEW text \in Text(n)
  PROVE  /\ DOMAIN text = 1..Len(text)
         /\ \A d : Answer!Contains(text, d) <=> Holds(text, d)
<1>1. DOMAIN text = 1..Len(text)
  BY DEF Text
<1> QED BY <1>1 DEF Answer!Contains, Holds

(* The texts of the messages, and the rest of the open one.                *)
LEMMA TextsAreTold ==
  ASSUME NEW n, NEW rows \in Seq(MessageRow(n)), NEW rest \in Text(n), NEW texts,
         texts = Append([i \in DOMAIN rows |-> rows[i].text], rest)
  PROVE  /\ DOMAIN texts = 1..(Len(rows) + 1) /\ Len(rows) \in Nat
         /\ \A i \in 1..Len(rows) : texts[i] = rows[i].text
         /\ texts[Len(rows) + 1] = rest
         /\ \A i \in DOMAIN texts : texts[i] \in Text(n)
<1>1. PICK all \in Seq(Text(n)) :
        /\ all = [i \in DOMAIN rows |-> rows[i].text] /\ Len(all) = Len(rows)
        /\ \A i \in 1..Len(rows) : all[i] = rows[i].text
  <2>1. DOMAIN rows = 1..Len(rows) /\ Len(rows) \in Nat
    OBVIOUS
  <2>2. \A i \in 1..Len(rows) : rows[i].text \in Text(n)
    BY RowIs
  <2>3. PICK f : f = [i \in 1..Len(rows) |-> rows[i].text]
    OBVIOUS
  <2>4. f \in Seq(Text(n)) /\ Len(f) = Len(rows)
    BY <2>1, <2>2, <2>3
  <2>5. \A i \in 1..Len(rows) : f[i] = rows[i].text
    BY <2>3
  <2>6. f = [i \in DOMAIN rows |-> rows[i].text]
    BY <2>1, <2>3
  <2> QED BY <2>4, <2>5, <2>6
<1>2. texts = Append(all, rest) /\ Len(rows) \in Nat
  BY <1>1
<1>3. DOMAIN texts = 1..(Len(rows) + 1) /\ texts \in Seq(Text(n))
  BY <1>1, <1>2
<1> QED BY <1>1, <1>2, <1>3

EachDelta(texts, m) ==
  \A delta \in 1..m \ blank : \E i \in DOMAIN texts : Answer!Contains(texts[i], delta)
OneOrder(texts) ==
  \A i, j \in DOMAIN texts : \A k \in DOMAIN texts[i], l \in DOMAIN texts[j] :
    i < j \/ (i = j /\ k < l) => texts[i][k] < texts[j][l]

LEMMA WholeIsTold ==
  ASSUME NEW n, NEW rows \in Seq(MessageRow(n)), NEW rest \in Text(n), NEW m, Told(rows, rest, m),
         NEW texts, texts = Append([i \in DOMAIN rows |-> rows[i].text], rest)
  PROVE  EachDelta(texts, m) /\ OneOrder(texts)
<1>1. /\ DOMAIN texts = 1..(Len(rows) + 1) /\ Len(rows) \in Nat
      /\ \A i \in 1..Len(rows) : texts[i] = rows[i].text
      /\ texts[Len(rows) + 1] = rest
      /\ \A i \in DOMAIN texts : texts[i] \in Text(n)
  BY TextsAreTold
<1>2. \A i \in DOMAIN texts : \A d : Answer!Contains(texts[i], d) <=> Holds(texts[i], d)
  BY <1>1, InDomain
<1>3. \A i \in DOMAIN texts : DOMAIN texts[i] = 1..Len(texts[i])
  BY <1>1, InDomain
<1>4. ASSUME NEW delta \in 1..m \ blank
      PROVE  \E i \in DOMAIN texts : Answer!Contains(texts[i], delta)
  <2>1. Shown(rows, rest, delta)
    BY DEF Told
  <2>2. CASE Holds(rest, delta)
    <3>1. PICK i \in DOMAIN texts : i = Len(rows) + 1
      BY <1>1
    <3>2. Holds(texts[i], delta)
      BY <1>1, <2>2, <3>1
    <3> QED BY <1>2, <3>2
  <2>3. CASE \E i \in 1..Len(rows) : Holds(rows[i].text, delta)
    <3>1. PICK i \in 1..Len(rows) : Holds(rows[i].text, delta)
      BY <2>3
    <3>2. i \in DOMAIN texts /\ Holds(texts[i], delta)
      BY <1>1, <3>1
    <3> QED BY <1>2, <3>2
  <2> QED BY <2>1, <2>2, <2>3 DEF Shown
<1>5. /\ \A i \in 1..Len(rows) : Rising(rows[i].text) /\ AllBefore(rows[i].text, rest)
      /\ Rising(rest)
      /\ \A i, j \in 1..Len(rows) : i < j => AllBefore(rows[i].text, rows[j].text)
  BY DEF Told, InOrder, OrderedRows
<1>6. ASSUME NEW i \in DOMAIN texts  PROVE Rising(texts[i])
  <2>1. CASE i \in 1..Len(rows)
    BY <1>1, <1>5, <2>1
  <2>2. CASE i = Len(rows) + 1
    BY <1>1, <1>5, <2>2
  <2> QED BY <1>1, <2>1, <2>2
<1>7. ASSUME NEW i \in DOMAIN texts, NEW j \in DOMAIN texts, i < j
      PROVE  AllBefore(texts[i], texts[j])
  <2>1. i \in 1..Len(rows) /\ texts[i] = rows[i].text
    BY <1>1, <1>7
  <2>2. CASE j \in 1..Len(rows)
    BY <1>1, <1>5, <1>7, <2>1, <2>2
  <2>3. CASE j = Len(rows) + 1
    BY <1>1, <1>5, <2>1, <2>3
  <2> QED BY <1>1, <2>2, <2>3
<1>8. ASSUME NEW i \in DOMAIN texts, NEW j \in DOMAIN texts,
             NEW k \in DOMAIN texts[i], NEW l \in DOMAIN texts[j], i < j \/ (i = j /\ k < l)
      PROVE  texts[i][k] < texts[j][l]
  <2>0. k \in 1..Len(texts[i]) /\ l \in 1..Len(texts[j])
    BY <1>3
  <2>1. CASE i < j
    BY <1>7, <2>0, <2>1 DEF AllBefore
  <2>2. CASE i = j /\ k < l
    BY <1>6, <2>0, <2>2 DEF Rising
  <2> QED BY <1>8, <2>1, <2>2
<1> QED BY <1>4, <1>8 DEF EachDelta, OneOrder

LEMMA AnswerTypeOK ==
  ASSUME AnswerInv  PROVE Answer!TypeOK
<1>1. /\ turn \in {"running", "completed", "failed", "exited"}
      /\ sent \in 0..MaxDeltas /\ items \in 0..MaxItems
      /\ pauses \in 0..MaxPauses /\ faults \in 0..MaxFaults
      /\ state \in Ingestion(sent) /\ Kept(state)
  BY DEF AnswerInv, AnyAnswer, AnswerTyped
<1>2. PICK rows \in Seq(MessageRow(sent)) : rows = state.messages
  BY <1>1, IngestionIs
<1>3. DOMAIN rows = 1..Len(rows)
  OBVIOUS
<1>4. \A i \in DOMAIN rows : Answer!ToSet(rows[i].text) \subseteq 1..sent
  <2>1. ASSUME NEW i \in DOMAIN rows  PROVE Answer!ToSet(rows[i].text) \subseteq 1..sent
    <3>1. PICK text \in Text(sent) : text = rows[i].text
      BY <1>3, RowIs
    <3>2. DOMAIN text = 1..Len(text) /\ \A k \in 1..Len(text) : text[k] \in 1..sent
      <4>1. PICK numbers : numbers = 1..sent
        OBVIOUS
      <4>2. text \in Seq(numbers)
        BY <4>1 DEF Text
      <4>3. DOMAIN text = 1..Len(text)
        BY <4>2
      <4>4. \A k \in 1..Len(text) : text[k] \in numbers
        BY <4>2
      <4> QED BY <4>1, <4>3, <4>4
    <3>3. Answer!ToSet(text) \subseteq 1..sent
      BY <3>2 DEF Answer!ToSet
    <3> QED BY <3>1, <3>3
  <2> QED BY <2>1
<1>5. \A i, j \in DOMAIN rows : rows[i].id = rows[j].id => i = j
  BY <1>1, <1>2, <1>3 DEF Kept, OneRowEach
<1>6. \A id \in DOMAIN state.buffer : Len(state.buffer[id]) \in 1..MaxBuffer
  BY <1>1 DEF Kept
<1> QED BY <1>1, <1>2, <1>4, <1>5, <1>6 DEF Answer!TypeOK

LEMMA PendingIsKnown ==
  ASSUME AnswerInv  PROVE Answer!NothingPending
<1>1. /\ state \in Ingestion(sent) /\ Kept(state) /\ ActiveKnown(state)
      /\ turn # "exited" => StreamsKnown(state)
      /\ turn = "completed" => state.remembered = <<>>
  BY DEF AnswerInv, AnyAnswer, AnswerTyped
<1>2. ASSUME NEW id \in DOMAIN state.buffer  PROVE id \in Answer!ToSet(state.remembered)
  <2>1. state.remembered \in Seq(MessageName)
    BY <1>1, IngestionIs
  <2> QED BY <1>1, <2>1 DEF Kept, Known, Answer!ToSet
<1>3. ASSUME turn = "completed"
      PROVE  /\ state.remembered = <<>> /\ state.active = Answer!NoMessage
             /\ \A i \in DOMAIN state.messages : ~state.messages[i].streaming
  <2>1. state.remembered = <<>> /\ \A id : ~Known(state.remembered, id)
    BY <1>1, <1>3 DEF Known
  <2>2. state.active = Answer!NoMessage
    BY <1>1, <2>1 DEF ActiveKnown, NoMessage
  <2>3. Streaming(state.messages) = {}
    BY <1>1, <1>3, <2>1 DEF StreamsKnown
  <2>4. DOMAIN state.messages = 1..Len(state.messages)
    BY <1>1, IngestionIs
  <2>5. \A i \in DOMAIN state.messages : ~state.messages[i].streaming
    BY <2>3, <2>4 DEF Streaming
  <2> QED BY <2>1, <2>2, <2>5
<1> QED BY <1>2, <1>3 DEF Answer!NothingPending

LEMMA AnswerIsTold ==
  ASSUME AnswerInv  PROVE Answer!NothingLost
<1> SUFFICES ASSUME faults = 0, Whole, turn # "exited"
             PROVE  Answer!WholeAnswer
  BY DEF Answer!NothingLost, Whole, Answer!WholeAnswer
<1>1. Told(state.messages, Rest(state), sent)
  BY DEF AnswerInv, Calm
<1>2. /\ state \in Ingestion(sent) /\ Kept(state) /\ ActiveKnown(state)
      /\ turn # "exited" => StreamsKnown(state)
  BY DEF AnswerInv, AnyAnswer, AnswerTyped
<1>3. PICK rows \in Seq(MessageRow(sent)), rest \in Text(sent) :
        rows = state.messages /\ rest = Rest(state)
  <2>1. state.messages \in Seq(MessageRow(sent)) /\ Rest(state) \in Text(sent)
    BY <1>2, IngestionIs, TextOfIs DEF Rest
  <2> QED BY <2>1
<1>4. PICK texts : texts = Answer!Texts
  OBVIOUS
<1>5. state.active = NoMessage => Rest(state) = <<>>
  <2>1. ASSUME state.active = NoMessage  PROVE state.remembered = <<>>
    <3>1. CASE turn = "running"
      BY <2>1, <3>1 DEF AnswerInv, Calm, CalmRun, CalmRows
    <3>2. CASE turn = "completed"
      BY <3>2 DEF AnswerInv, AnyAnswer
    <3> QED BY <3>1, <3>2 DEF AnswerInv, Calm
  <2> QED BY <1>2, <2>1, NothingBuffered DEF Rest
<1>6. texts = Append([i \in DOMAIN rows |-> rows[i].text], rest)
  BY <1>3, <1>4, <1>5 DEF Answer!Texts, Rest, NoMessage
<1>7. Told(rows, rest, sent)
  BY <1>1, <1>3
<1>8. EachDelta(texts, sent) /\ OneOrder(texts)
  BY <1>6, <1>7, WholeIsTold
<1> QED BY <1>4, <1>8 DEF Answer!WholeAnswer, EachDelta, OneOrder

LEMMA ActiveAnswers ==
  ASSUME AnswerInv, faults = 0  PROVE Answer!OnlyActiveStreams
<1> SUFFICES ASSUME turn # "exited", NEW m \in Answer!ToSet(state.messages), m.streaming
             PROVE  m.id = state.active
  BY DEF Answer!OnlyActiveStreams
<1>1. state.messages \in Seq(MessageRow(sent))
  BY IngestionIs DEF AnswerInv, AnyAnswer, AnswerTyped
<1>2. PICK i \in 1..Len(state.messages) : m = state.messages[i]
  BY <1>1 DEF Answer!ToSet
<1>3. m.id \in Streaming(state.messages)
  BY <1>2 DEF Streaming
<1> QED BY <1>3 DEF AnswerInv, Calm

LEMMA AnswerKept == AnswerInv => AnswerIsWhole
BY AnswerTypeOK, PendingIsKnown, AnswerIsTold, ActiveAnswers DEF AnswerIsWhole

LEMMA BoundsHold == AnswerBounds
BY AnswerAssumption DEF AnswerBounds

LEMMA AnswerUnchanged ==
  ASSUME AnswerInv, UNCHANGED answerVars  PROVE AnswerInv'
<1>1. /\ buffered' = buffered /\ blank' = blank /\ turn' = turn /\ sent' = sent /\ item' = item
      /\ items' = items /\ pauses' = pauses /\ faults' = faults /\ state' = state
  BY DEF answerVars
<1>2. Setting /\ (Open' <=> Open)
  BY <1>1 DEF Setting, Open
<1>3. AnyAnswer'
  BY <1>1 DEF AnswerInv, AnyAnswer, AnswerTyped
<1>4. CalmRows(state)' <=> CalmRows(state)
  BY <1>1, <1>2, SettingStays
<1>5. Rest(state)' = Rest(state)
  BY <1>1, <1>2, SettingStays
<1>6. Told(state.messages, Rest(state), sent)' <=> Told(state.messages, Rest(state), sent)
  BY <1>1, <1>2, SettingStays
<1>7. FirstTold(state, items, Open, item.text, pauses)'
        <=> FirstTold(state, items, Open, item.text, pauses)
  BY <1>1, <1>2, <1>5 DEF FirstTold, Answer!Renderable
<1>8. CalmRun' <=> CalmRun
  BY <1>1, <1>2, <1>4 DEF CalmRun, CalmNames
<1>9. Whole' <=> Whole
  BY <1>1 DEF Whole
<1>10. Calm' <=> Calm
  BY <1>1, <1>6, <1>7, <1>8, <1>9 DEF Calm
<1> QED BY <1>1, <1>3, <1>10 DEF AnswerInv

(* For any bounds, deltas of white space, delivery mode and waits of the   *)
(* agent: as long as no dispatch fails, the messages of a turn and what is *)
(* buffered for the last of them have each visible delta of the answer, in *)
(* the order in which they were sent; and whatever fails, what is buffered *)
(* is found at the end (ProviderRuntimeIngestion.processRuntimeEvent).     *)
THEOREM AnswersAreWhole == MCSpec => []AnswerIsWhole
<1>1. MCInit => AnswerInv
  BY CalmInit, BoundsHold DEF MCInit
<1>2. AnswerInv /\ [MCNext]_allVars => AnswerInv'
  <2> SUFFICES ASSUME AnswerInv, [MCNext]_allVars  PROVE AnswerInv'
    OBVIOUS
  <2>1. CASE Answer!Next
    BY <2>1, AnswerStays, BoundsHold
  <2>2. CASE UNCHANGED answerVars
    BY <2>2, AnswerUnchanged
  <2> QED BY <2>1, <2>2 DEF MCNext, allVars
<1> QED BY <1>1, <1>2, AnswerKept, PTL DEF MCSpec
=============================================================================
