------------------------------- MODULE TurnFlow -------------------------------
(***************************************************************************)
(* From a user's request to the provider and back, for one thread: the     *)
(* command reactor (orchestration/Layers/ProviderCommandReactor.ts), the   *)
(* deletion reactor, the session reaper and the lifecycle part of the      *)
(* runtime ingestion, around the provider service of ProviderSessions.     *)
(*                                                                         *)
(* Requests are committed events: they change the thread at once and wait  *)
(* in the queue of a reactor.  Sending a turn is forked, so the reactor    *)
(* goes on with the next request meanwhile.  A command that a reactor      *)
(* dispatches is a step of its own, after the read that it is based on.    *)
(***************************************************************************)
EXTENDS ProviderSessions

CONSTANTS FullAccess,  \* the mode that is assumed of a thread without a session
          MaxModes, MaxStops, MaxInterrupts, MaxDeletes, MaxDeaths, MaxFaults

Reactors == {"worker", "deletion", "reaper"}
Bounded == {"modes", "stops", "interrupts", "deletes", "deaths", "faults"}

(* The callers are the reactors and the sends that they fork.              *)
ASSUME TurnFlowAssumption ==
  /\ Process = Turn \cup Reactors /\ Turn \cap Reactors = {}
  /\ FullAccess \in Mode
  /\ None \notin Turn \cup Mode \cup Session
  /\ None \notin [status : {"ready", "running", "stopped"}, mode : Mode, turn : Turn \cup {None}]

VARIABLES
  overlap,    \* what overlaps: "none"; "sweeps", which begin at any time and
              \* which requests do not wait for; or "all", requests of every kind
  thread,     \* the thread in the read model: mode, deleted, session
  intents,    \* the queue of the command reactor
  worker,     \* the command reactor: what it does with the intent it took
  sender,     \* Turn -> the state of the forked send
  outcome,    \* Turn -> what the user is told about the turn
  deletion,   \* the deletion reactor
  reaper,     \* the reaper
  ingest,     \* the session that the ingestion is about to dispatch, or None
  stopped,    \* whether a stop is the last thing that was asked for
  used,       \* how many of the bounded steps were taken
  running     \* for a property: the turn that ran when the last sweep read

vars == <<live, orphans, binding, call, emitted, thread, intents, worker, sender,
          outcome, deletion, reaper, ingest, stopped, used>>
engineVars == <<outcome, stopped, used>>

ThreadSession == [status : {"ready", "running", "stopped"}, mode : Mode,
                  turn : Turn \cup {None}]
Intent == [type : {"turn"}, turn : Turn] \cup [type : {"mode", "interrupt", "stop"}]

TypeOK ==
  /\ SessionsTypeOK
  /\ overlap \in {"none", "sweeps", "all"}
  /\ thread \in [mode : Mode, deleted : BOOLEAN, session : ThreadSession \cup {None}]
  /\ intents \in Seq(Intent)
  /\ worker \in [pc : {"idle", "starting", "asking", "stopping", "reset", "stopped"},
                 turn : Turn \cup {None}, mode : Mode \cup {None},
                 session : ThreadSession \cup {None}]
  /\ sender \in [Turn -> [pc : {"none", "forked", "sending", "reset", "done"},
                          session : ThreadSession \cup {None}]]
  /\ outcome \in [Turn -> {"none", "requested", "sent", "failed"}]
  /\ deletion \in {"none", "queued", "stopping", "done"}
  /\ reaper \in {"idle", "due", "stopping"}
  /\ ingest \in ThreadSession \cup {None}
  /\ stopped \in BOOLEAN
  /\ used \in [Bounded -> Nat]
  /\ running \in Turn \cup {None}

IdleWorker == [pc |-> "idle", turn |-> None, mode |-> None, session |-> None]

Init ==
  /\ SessionsInit
  /\ overlap \in {"none", "sweeps", "all"}
  /\ thread \in [mode : Mode, deleted : {FALSE}, session : {None}]
  /\ intents = <<>>
  /\ worker = IdleWorker
  /\ sender = [t \in Turn |-> [pc |-> "none", session |-> None]]
  /\ outcome = [t \in Turn |-> "none"]
  /\ deletion = "none"
  /\ reaper = "idle"
  /\ ingest = None
  /\ stopped = FALSE
  /\ used = [k \in Bounded |-> 0]
  /\ running = None

Use(kind) == used' = [used EXCEPT ![kind] = @ + 1]

(* No turn start is on its way to the provider, but those that hang.       *)
NothingOnItsWay ==
  /\ (intents = <<>> /\ worker = IdleWorker) \/ Hangs("worker")
  /\ \A t \in Turn : sender[t].pc \in {"none", "done"} \/ Hangs(t)

(* All that was asked for is done with, and told.                          *)
Handled ==
  /\ NothingOnItsWay
  /\ deletion \in {"none", "done"}
  /\ emitted = <<>> /\ ingest = None

(* Nothing at all is under way. *)
AtRest == Handled /\ reaper = "idle"

(* Where requests do not overlap, each finds the others handled, but for   *)
(* the turn that the provider may be working on; where sweeps do not       *)
(* either, they and the requests find everything at rest.                  *)
Undisturbed == \/ overlap = "all"
               \/ overlap = "sweeps" /\ Handled
               \/ AtRest

-----------------------------------------------------------------------------
(* Requests of users *)

StartTurn(t) ==
  /\ outcome[t] = "none"
  /\ Undisturbed
  /\ outcome' = [outcome EXCEPT ![t] = "requested"]
  /\ intents' = Append(intents, [type |-> "turn", turn |-> t])
  /\ stopped' = FALSE
  /\ UNCHANGED <<sessionVars, thread, worker, sender, deletion, reaper, ingest, used>>

SetMode(mode) ==
  /\ used["modes"] < MaxModes /\ Use("modes")
  /\ Undisturbed /\ mode # thread.mode
  /\ thread' = [thread EXCEPT !.mode = mode]
  /\ intents' = Append(intents, [type |-> "mode"])
  /\ UNCHANGED <<sessionVars, worker, sender, outcome, deletion, reaper, ingest, stopped>>

RequestInterrupt ==
  /\ used["interrupts"] < MaxInterrupts /\ Use("interrupts")
  /\ Undisturbed
  /\ intents' = Append(intents, [type |-> "interrupt"])
  /\ UNCHANGED <<sessionVars, thread, worker, sender, outcome, deletion, reaper, ingest, stopped>>

RequestStop ==
  /\ used["stops"] < MaxStops /\ Use("stops")
  /\ Undisturbed
  /\ intents' = Append(intents, [type |-> "stop"])
  /\ stopped' = TRUE
  /\ UNCHANGED <<sessionVars, thread, worker, sender, outcome, deletion, reaper, ingest>>

DeleteThread ==
  /\ used["deletes"] < MaxDeletes /\ Use("deletes")
  /\ Undisturbed /\ ~thread.deleted
  /\ thread' = [thread EXCEPT !.deleted = TRUE]
  /\ deletion' = "queued"
  /\ UNCHANGED <<sessionVars, intents, worker, sender, outcome, reaper, ingest, stopped>>

-----------------------------------------------------------------------------
(* The command reactor *)

SetThreadSession(session) == thread' = [thread EXCEPT !.session = session]

hasSession == thread.session # None /\ thread.session.status # "stopped"

Fork(t) == sender' = [sender EXCEPT ![t] = [pc |-> "forked", session |-> None]]

(* ensureSessionForThread: an existing session is kept if its mode is the  *)
(* thread's, and restarted otherwise.  The workspace and the model, which  *)
(* restart a session in the same way, are left out.                        *)
keepsSession == hasSession /\ live # None /\ thread.session.mode = thread.mode

TakeTurn(t) ==
  \/ /\ keepsSession
     /\ Fork(t)
     /\ UNCHANGED <<sessionVars, worker>>
  \/ /\ ~keepsSession
     /\ StartSession("worker", thread.mode)
     /\ worker' = [pc |-> "starting", turn |-> t, mode |-> thread.mode, session |-> None]
     /\ UNCHANGED sender

TakeMode ==
  /\ UNCHANGED sender
  /\ IF hasSession /\ ~keepsSession
     THEN /\ StartSession("worker", thread.mode)
          /\ worker' = [IdleWorker EXCEPT !.pc = "starting", !.mode = thread.mode]
     ELSE UNCHANGED <<sessionVars, worker>>

TakeInterrupt ==
  /\ UNCHANGED sender
  /\ IF hasSession
     THEN /\ Route("worker", "interrupt", None)
          /\ worker' = [IdleWorker EXCEPT !.pc = "asking"]
     ELSE UNCHANGED <<sessionVars, worker>>

TakeStop ==
  /\ UNCHANGED sender
  /\ IF hasSession
     THEN /\ StopSession("worker")
          /\ worker' = [IdleWorker EXCEPT !.pc = "stopping"]
     ELSE /\ worker' = [IdleWorker EXCEPT !.pc = "stopped"]
          /\ UNCHANGED sessionVars

(* processDomainEvent *)
TakeIntent ==
  /\ worker = IdleWorker /\ intents # <<>>
  /\ intents' = Tail(intents)
  /\ \/ Head(intents).type = "turn" /\ TakeTurn(Head(intents).turn)
     \/ Head(intents).type = "mode" /\ TakeMode
     \/ Head(intents).type = "interrupt" /\ TakeInterrupt
     \/ Head(intents).type = "stop" /\ TakeStop
  /\ UNCHANGED <<thread, engineVars, deletion, reaper, ingest>>

(* bindSessionToThread, and then the turn is forked. *)
BindSession ==
  /\ worker.pc = "starting" /\ Done("worker")
  /\ SetThreadSession([status |-> "ready", mode |-> worker.mode, turn |-> None])
  /\ Return("worker") /\ worker' = IdleWorker
  /\ IF worker.turn # None THEN Fork(worker.turn) ELSE UNCHANGED sender
  /\ UNCHANGED <<live, orphans, binding, emitted, intents, engineVars, deletion, reaper, ingest>>

(* The session that setThreadSessionErrorOnTurnStartFailure writes back. *)
ResetSession(session) ==
  IF session = None THEN None
  ELSE [session EXCEPT !.status = IF @ = "stopped" THEN "stopped" ELSE "ready", !.turn = None]

(* The session did not start: a turn start reads the thread to report it,  *)
(* a change of mode is only logged.                                        *)
StartFailed ==
  /\ worker.pc = "starting" /\ Failed("worker")
  /\ Return("worker")
  /\ worker' = IF worker.turn = None THEN IdleWorker
               ELSE [worker EXCEPT !.pc = "reset", !.session = ResetSession(thread.session)]
  /\ UNCHANGED <<live, orphans, binding, emitted, thread, intents, sender, engineVars,
                 deletion, reaper, ingest>>

ReportStartFailed ==
  /\ worker.pc = "reset"
  /\ IF worker.session = None THEN UNCHANGED thread ELSE SetThreadSession(worker.session)
  /\ outcome' = [outcome EXCEPT ![worker.turn] = "failed"]
  /\ worker' = IdleWorker
  /\ UNCHANGED <<sessionVars, intents, sender, deletion, reaper, ingest, stopped, used>>

(* An interrupt returns; a failure is only logged. *)
InterruptReturns ==
  /\ worker.pc = "asking" /\ (Done("worker") \/ Failed("worker"))
  /\ Return("worker") /\ worker' = IdleWorker
  /\ UNCHANGED <<live, orphans, binding, emitted, thread, intents, sender, engineVars,
                 deletion, reaper, ingest>>

(* The rest of processSessionStopRequested; a failure is only logged. *)
StopReturns ==
  /\ worker.pc = "stopping" /\ (Done("worker") \/ Failed("worker"))
  /\ Return("worker")
  /\ worker' = IF Done("worker") THEN [IdleWorker EXCEPT !.pc = "stopped"] ELSE IdleWorker
  /\ UNCHANGED <<live, orphans, binding, emitted, thread, intents, sender, engineVars,
                 deletion, reaper, ingest>>

SetStopped ==
  /\ worker.pc = "stopped"
  /\ SetThreadSession([status |-> "stopped", turn |-> None,
                       mode |-> IF thread.session = None THEN FullAccess ELSE thread.session.mode])
  /\ worker' = IdleWorker
  /\ UNCHANGED <<sessionVars, intents, sender, engineVars, deletion, reaper, ingest>>

-----------------------------------------------------------------------------
(* The forked sends *)

Send(t) ==
  /\ sender[t].pc = "forked"
  /\ Route(t, "send", t)
  /\ sender' = [sender EXCEPT ![t].pc = "sending"]
  /\ UNCHANGED <<thread, intents, worker, engineVars, deletion, reaper, ingest>>

SendReturns(t) ==
  /\ sender[t].pc = "sending" /\ Done(t)
  /\ Return(t)
  /\ sender' = [sender EXCEPT ![t].pc = "done"]
  /\ outcome' = [outcome EXCEPT ![t] = "sent"]
  /\ UNCHANGED <<live, orphans, binding, emitted, thread, intents, worker, deletion, reaper,
                 ingest, stopped, used>>

(* For a mutation: a failed send is only logged. *)
SendFailsUnseen(t) ==
  /\ sender[t].pc = "sending" /\ Failed(t)
  /\ Return(t)
  /\ sender' = [sender EXCEPT ![t].pc = "done"]
  /\ UNCHANGED <<live, orphans, binding, emitted, thread, intents, worker, engineVars,
                 deletion, reaper, ingest>>

(* recoverTurnStartFailure: the thread's session is read, and then written *)
(* back with the failure.                                                  *)
SendFails(t) ==
  /\ sender[t].pc = "sending" /\ Failed(t)
  /\ Return(t)
  /\ sender' = [sender EXCEPT ![t] = [pc |-> "reset", session |-> ResetSession(thread.session)]]
  /\ UNCHANGED <<live, orphans, binding, emitted, thread, intents, worker, engineVars,
                 deletion, reaper, ingest>>

ReportSendFailed(t) ==
  /\ sender[t].pc = "reset"
  /\ IF sender[t].session = None THEN UNCHANGED thread ELSE SetThreadSession(sender[t].session)
  /\ outcome' = [outcome EXCEPT ![t] = "failed"]
  /\ sender' = [sender EXCEPT ![t] = [pc |-> "done", session |-> None]]
  /\ UNCHANGED <<sessionVars, intents, worker, deletion, reaper, ingest, stopped, used>>

-----------------------------------------------------------------------------
(* The deletion reactor *)

StopDeleted ==
  /\ deletion = "queued"
  /\ StopSession("deletion")
  /\ deletion' = "stopping"
  /\ UNCHANGED <<thread, intents, worker, sender, engineVars, reaper, ingest>>

StopDeletedReturns ==
  /\ deletion = "stopping" /\ (Done("deletion") \/ Failed("deletion"))
  /\ Return("deletion")
  /\ deletion' = "done"
  /\ UNCHANGED <<live, orphans, binding, emitted, thread, intents, worker, sender,
                 engineVars, reaper, ingest>>

(* The reaper *)

(* The inactivity threshold passes since the binding was last written: it  *)
(* is long beside what the server does of itself.                          *)
GrowIdle ==
  /\ Handled
  /\ binding.status # "none" /\ ~binding.idle
  /\ binding' = [binding EXCEPT !.idle = TRUE]
  /\ UNCHANGED <<live, orphans, call, emitted, thread, intents, worker, sender, engineVars,
                 deletion, reaper, ingest>>

(* For a mutation: the sweep does not look at the thread's turn. *)
SweepAll ==
  /\ reaper = "idle"
  /\ overlap = "none" => AtRest
  /\ binding.status = "running" /\ binding.idle
  /\ reaper' = "due"
  /\ UNCHANGED <<sessionVars, thread, intents, worker, sender, engineVars, deletion, ingest>>

(* A sweep reads the thread and the binding, and finds the session due.    *)
Sweep ==
  /\ reaper = "idle"
  /\ overlap = "none" => AtRest
  /\ binding.status = "running" /\ binding.idle
  /\ thread.session = None \/ thread.session.turn = None
  /\ reaper' = "due"
  /\ UNCHANGED <<sessionVars, thread, intents, worker, sender, engineVars, deletion, ingest>>

Reap ==
  /\ reaper = "due"
  /\ StopSession("reaper")
  /\ reaper' = "stopping"
  /\ UNCHANGED <<thread, intents, worker, sender, engineVars, deletion, ingest>>

ReapReturns ==
  /\ reaper = "stopping" /\ (Done("reaper") \/ Failed("reaper"))
  /\ Return("reaper")
  /\ reaper' = "idle"
  /\ UNCHANGED <<live, orphans, binding, emitted, thread, intents, worker, sender,
                 engineVars, deletion, ingest>>

-----------------------------------------------------------------------------
(* The ingestion: an event that does not concern the thread's turn is      *)
(* dropped, any other is turned into a session to dispatch.                *)

Applies(event, turn) ==
  CASE event.type = "turn.started"   -> turn = None \/ turn = event.turn
    [] event.type = "turn.completed" -> turn = None \/ turn = event.turn
    [] OTHER -> TRUE

NextSession(event, turn, mode) ==
  CASE event.type = "turn.started" -> [status |-> "running", turn |-> event.turn, mode |-> mode]
    [] event.type = "turn.completed" -> [status |-> "ready", turn |-> None, mode |-> mode]
    [] event.type = "session.exited" -> [status |-> "stopped", turn |-> None, mode |-> mode]
    [] event.type = "session.started" ->
         [status |-> IF turn = None THEN "ready" ELSE "running", turn |-> turn, mode |-> mode]

ReadEvent ==
  /\ ingest = None /\ emitted # <<>>
  /\ emitted' = Tail(emitted)
  /\ LET event == Head(emitted)
         turn  == IF thread.session = None THEN None ELSE thread.session.turn
         mode  == IF thread.session = None THEN FullAccess ELSE thread.session.mode
     IN  ingest' = IF Applies(event, turn) THEN NextSession(event, turn, mode) ELSE None
  /\ UNCHANGED <<live, orphans, binding, call, thread, intents, worker, sender, engineVars,
                 deletion, reaper>>

DispatchSession ==
  /\ ingest # None
  /\ SetThreadSession(ingest)
  /\ ingest' = None
  /\ UNCHANGED <<sessionVars, intents, worker, sender, engineVars, deletion, reaper>>

-----------------------------------------------------------------------------
ServiceStep ==
  /\ \/ \E p \in Process : Resume(p)
     \/ TurnCompletes
  /\ UNCHANGED <<thread, intents, worker, sender, engineVars, deletion, reaper, ingest>>

Fault ==
  /\ \/ ProcessDies /\ used["deaths"] < MaxDeaths /\ Use("deaths")
     \/ (\E p \in Process : SpawnFails(p) \/ TurnRefused(p)) /\ used["faults"] < MaxFaults /\ Use("faults")
  /\ UNCHANGED <<thread, intents, worker, sender, outcome, stopped, deletion, reaper, ingest>>

(* The turn of the session; one whose end may be lost does not count.      *)
HeardTurn == IF live = None \/ live.by \in Turn THEN None ELSE live.turn

Next ==
  /\ UNCHANGED overlap
  /\ \/ \E t \in Turn : StartTurn(t) \/ Send(t) \/ SendReturns(t) \/ SendFails(t)
                         \/ ReportSendFailed(t)
     \/ \E mode \in Mode : SetMode(mode)
     \/ RequestInterrupt \/ RequestStop \/ DeleteThread
     \/ TakeIntent \/ BindSession \/ StartFailed \/ ReportStartFailed
     \/ InterruptReturns \/ StopReturns \/ SetStopped
     \/ StopDeleted \/ StopDeletedReturns
     \/ GrowIdle \/ Sweep \/ Reap \/ ReapReturns
     \/ ReadEvent \/ DispatchSession
     \/ ServiceStep \/ Fault
  /\ running' = IF reaper = "idle" /\ reaper' = "due" THEN HeardTurn ELSE running

Spec == Init /\ [][Next]_<<overlap, vars, running>>

(* The fibers of the server go on, the provider answers and ends its       *)
(* turns, and sweeps are repeated; users and faults owe nothing.           *)
Serves(p) ==
  /\ Resume(p)
  /\ UNCHANGED <<thread, intents, worker, sender, engineVars, deletion, reaper, ingest>>

TurnEnds ==
  /\ TurnCompletes
  /\ UNCHANGED <<thread, intents, worker, sender, engineVars, deletion, reaper, ingest>>

Fairness ==
  /\ \A p \in Process : WF_vars(Serves(p))
  /\ WF_vars(TakeIntent) /\ WF_vars(BindSession) /\ WF_vars(StartFailed)
  /\ WF_vars(ReportStartFailed) /\ WF_vars(InterruptReturns)
  /\ WF_vars(StopReturns) /\ WF_vars(SetStopped)
  /\ \A t \in Turn : WF_vars(Send(t) \/ SendReturns(t) \/ SendFails(t) \/ ReportSendFailed(t))
  /\ WF_vars(StopDeleted) /\ WF_vars(StopDeletedReturns)
  /\ WF_vars(GrowIdle) /\ WF_vars(TurnEnds) /\ WF_vars(Sweep) /\ WF_vars(Reap) /\ WF_vars(ReapReturns)
  /\ WF_vars(ReadEvent) /\ WF_vars(DispatchSession)

-----------------------------------------------------------------------------
(* Properties *)

(* Every turn that is started, once each, is sent to the provider or       *)
(* reported as failed, whatever is refused, stopped, restarted, deleted,   *)
(* reaped or dies on the way: but for those whose request waits for ever   *)
(* because the session went from under it (Abandoned), and those behind an *)
(* interrupt of which this is true, which keeps the reactor.  It never is, *)
(* where requests and sweeps wait for one another                          *)
(* (processTurnStartRequested and its forked send).                        *)
Answered(t) == outcome[t] # "requested"
EveryTurnIsAnswered ==
  /\ <>[](\A t \in Turn : Answered(t) \/ Hangs(t) \/ Hangs("worker"))
  /\ overlap = "none" => <>[](\A t \in Turn : Answered(t))

(* When all is quiet after a stop, nothing runs for the thread, and the    *)
(* thread says so (processSessionStopRequested).                           *)
StopHolds ==
  AtRest /\ stopped =>
    /\ live = None /\ orphans = 0
    /\ thread.session # None /\ thread.session.status = "stopped"

(* When all is quiet, a session that runs is marked as running in the      *)
(* directory, where the reaper will find it.                               *)
RunningIsKnown == AtRest /\ live # None => binding.status = "running"

(* A turn that the reaper takes with its session began after the sweep had *)
(* read the thread (ProviderSessionReaper), or in a session of which the   *)
(* thread does not hear, because a forked send recovered it.               *)
ReapsIdle ==
  Reap /\ live # None /\ live.turn # None => live.turn # running

(* In the end nothing runs for a deleted thread: what the deletion reactor *)
(* misses, the reaper stops.                                               *)
DeletedIsStopped == thread.deleted ~> [](live = None)

(* No provider process runs that the adapter does not list, so that        *)
(* stopAll would miss it (CodexAdapter.startSession).                      *)
EverySessionIsListed == orphans = 0
=============================================================================
