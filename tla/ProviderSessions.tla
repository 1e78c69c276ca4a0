--------------------------- MODULE ProviderSessions ---------------------------
(***************************************************************************)
(* The provider service (provider/Layers/ProviderService.ts) for one       *)
(* thread, with the session directory below it and the Codex adapter:      *)
(* starting, recovering, using and stopping the thread's provider session. *)
(*                                                                         *)
(* Every caller (the command reactor, the turn starts it forks, the        *)
(* deletion reactor, the reaper) is a process of its own.  A call is       *)
(* suspended where the code waits for another process: while the provider  *)
(* starts, answers a request, or closes.  Between two suspensions a call   *)
(* is one step.                                                            *)
(***************************************************************************)
EXTENDS Naturals, Sequences

CONSTANTS Process,      \* the callers of the provider service
          Turn,         \* turns, named by the message that starts them
          Mode,         \* runtime modes
          None

VARIABLES
  live,       \* the session that the adapter lists for the thread, or None
  orphans,    \* provider processes that run and that no session lists
  binding,    \* the thread's row of the session directory
  call,       \* what each process is doing in the provider service
  emitted     \* runtime events emitted by the adapter and not yet ingested

sessionVars == <<live, orphans, binding, call, emitted>>

(* A session is read by a fiber that the caller forks which started it.    *)
Session == [mode : Mode, turn : Turn \cup {None}, alive : BOOLEAN, by : Process]

RuntimeEvent ==
       [type : {"session.started", "session.exited"}]
  \cup [type : {"turn.started", "turn.completed"}, turn : Turn]

NoCall == [op |-> "none", pc |-> "idle", mode |-> None, turn |-> None]

SessionsTypeOK ==
  /\ live \in Session \cup {None}
  /\ orphans \in Nat
  /\ binding \in [status : {"none", "running", "stopped"}, mode : Mode \cup {None},
                  idle : BOOLEAN]
  /\ call \in [Process -> [op   : {"none", "start", "send", "interrupt", "stop"},
                           pc   : {"idle", "spawning", "asking", "astray", "broken",
                                   "hung", "closing", "done", "failed"},
                           mode : Mode \cup {None},
                           turn : Turn \cup {None}]]
  /\ emitted \in Seq(RuntimeEvent)

SessionsInit ==
  /\ live = None
  /\ orphans = 0
  /\ binding = [status |-> "none", mode |-> None, idle |-> FALSE]
  /\ call = [p \in Process |-> NoCall]
  /\ emitted = <<>>

Idle(p) == call[p].pc = "idle"
Done(p) == call[p].pc = "done"
Failed(p) == call[p].pc = "failed"
Hangs(p) == call[p].pc = "hung"

(* The process takes the result of its call. *)
Return(p) == call' = [call EXCEPT ![p] = NoCall]

Asking == {p \in Process : call[p].pc = "asking"}

(* The session goes to which calls are made.  Some fail, and others wait   *)
(* for ever, because nothing fails a request that is pending when the      *)
(* fibers of its session are interrupted, or that is made after the end    *)
(* of its process.                                                         *)
Abandoned(calls, hung) == [p \in Process |->
  IF calls[p].pc = "asking"
  THEN [calls[p] EXCEPT !.pc = IF p \in hung THEN "hung" ELSE "broken"]
  ELSE calls[p]]

(* What the session emits reaches the ingestion through the fiber that     *)
(* reads it.  That of a session which a forked send recovered is a child   *)
(* of the send and ends with it: what comes late is lost.                  *)
Emit(events) ==
  \/ /\ live.by \in Turn => ~Idle(live.by)
     /\ emitted' = emitted \o events
  \/ /\ live.by \in Turn
     /\ UNCHANGED emitted

EndOfTurn == IF live.turn = None THEN <<>>
             ELSE <<[type |-> "turn.completed", turn |-> live.turn]>>

(* For a mutation: a stopped binding stays stopped. *)
UpsertOnce(status, mode) ==
  binding' = [status |-> IF binding.status = "stopped" THEN "stopped" ELSE status,
              mode   |-> IF mode = None THEN binding.mode ELSE mode,
              idle   |-> FALSE]

(* directory.upsert: the status, and the mode when it is given; lastSeenAt *)
(* is refreshed.  The resume cursor is left out: both adapters return one  *)
(* with every session, so that a binding can always be resumed.            *)
Upsert(status, mode) ==
  binding' = [status |-> status,
              mode   |-> IF mode = None THEN binding.mode ELSE mode,
              idle   |-> FALSE]

(* Those that wait for a session that another one replaces in the list go  *)
(* on with a process that is no longer listed.                             *)
Astray(calls) == [p \in Process |->
  IF calls[p].pc = "asking" THEN [calls[p] EXCEPT !.pc = "astray"] ELSE calls[p]]

-----------------------------------------------------------------------------

(* adapter.startSession up to the start of the provider's process: an      *)
(* existing session is stopped first, and its exit or the end of its turn  *)
(* may be reported (Codex reports the exit, Claude the end of the turn).   *)
Spawn(p, op, mode, turn) ==
  LET calls == [call EXCEPT ![p] =
                  [op |-> op, pc |-> "spawning", mode |-> mode, turn |-> turn]]
  IN  IF live = None
      THEN call' = calls /\ UNCHANGED <<live, emitted>>
      ELSE /\ live' = None
           /\ \E hung \in SUBSET Asking : call' = Abandoned(calls, hung)
           /\ Emit(<<[type |-> "session.exited"]>>) \/ Emit(EndOfTurn)

(* startSession *)
StartSession(p, mode) ==
  /\ Idle(p)
  /\ Spawn(p, "start", mode, None)
  /\ UNCHANGED <<orphans, binding>>

(* resolveRoutableSession with recovery, for sendTurn and interruptTurn,   *)
(* and then the request to the session.  A session whose process has died  *)
(* is still listed: its turn needs no interrupt, and the start of a turn   *)
(* is a request that nobody reads.                                         *)
Route(p, op, turn) ==
  /\ Idle(p)
  /\ UNCHANGED <<orphans, binding>>
  /\ \/ /\ live # None
        /\ call' = [call EXCEPT ![p] = [op |-> op, mode |-> None, turn |-> turn,
                                        pc |-> IF live.alive THEN "asking"
                                               ELSE IF op = "send" THEN "hung" ELSE "done"]]
        /\ UNCHANGED <<live, emitted>>
     \/ /\ live = None /\ binding.status # "none"
        /\ Spawn(p, op, binding.mode, turn)

(* adapter.startSession returns: the session is listed, whatever was       *)
(* listed before, and the directory is updated.  A recovery goes on with   *)
(* the request.                                                            *)
Spawned(p) ==
  /\ call[p].pc = "spawning"
  /\ live' = [mode |-> call[p].mode, turn |-> None, alive |-> TRUE, by |-> p]
  /\ orphans' = IF live # None /\ live.alive THEN orphans + 1 ELSE orphans
  /\ call' = [Astray(call) EXCEPT ![p].pc = IF call[p].op = "start" THEN "done" ELSE "asking"]
  /\ Upsert("running", call[p].mode)
  /\ emitted' = Append(emitted, [type |-> "session.started"])

(* A provider does not start, or refuses a turn.                           *)
SpawnFails(p) ==
  /\ call[p].pc = "spawning"
  /\ call' = [call EXCEPT ![p].pc = "failed"]
  /\ UNCHANGED <<live, orphans, binding, emitted>>

TurnRefused(p) ==
  /\ call[p].pc = "asking" /\ call[p].op = "send"
  /\ call' = [call EXCEPT ![p].pc = "failed"]
  /\ UNCHANGED <<live, orphans, binding, emitted>>

(* The session accepts the turn; a turn that was running is completed.     *)
TurnAccepted(p) ==
  /\ call[p].pc = "asking" /\ call[p].op = "send"
  /\ live' = [live EXCEPT !.turn = call[p].turn]
  /\ Emit(EndOfTurn \o <<[type |-> "turn.started", turn |-> call[p].turn]>>)
  /\ Upsert("running", None)
  /\ call' = [call EXCEPT ![p].pc = "done"]
  /\ UNCHANGED orphans

(* The session ends its turn, if it has one. *)
Interrupted(p) ==
  /\ call[p].pc = "asking" /\ call[p].op = "interrupt"
  /\ live' = [live EXCEPT !.turn = None]
  /\ Emit(EndOfTurn)
  /\ call' = [call EXCEPT ![p].pc = "done"]
  /\ UNCHANGED <<orphans, binding>>

(* The same of a process that is no longer listed; its turn may end too.   *)
AnsweredAstray(p) ==
  /\ call[p].pc = "astray"
  /\ IF call[p].op = "send"
     THEN /\ Upsert("running", None)
          /\ \E ends \in BOOLEAN : emitted' = emitted
               \o <<[type |-> "turn.started", turn |-> call[p].turn]>>
               \o (IF ends THEN <<[type |-> "turn.completed", turn |-> call[p].turn]>> ELSE <<>>)
     ELSE UNCHANGED <<binding, emitted>>
  /\ call' = [call EXCEPT ![p].pc = "done"]
  /\ UNCHANGED <<live, orphans>>

(* The request fails, because the session went. *)
Refused(p) ==
  /\ call[p].pc = "broken"
  /\ call' = [call EXCEPT ![p].pc = "failed"]
  /\ UNCHANGED <<live, orphans, binding, emitted>>

(* stopSession, which recovers nothing: the session is unlisted and closed *)
(* before the directory is told.                                           *)
StopSession(p) ==
  /\ Idle(p)
  /\ UNCHANGED orphans
  /\ \/ /\ binding.status = "none"
        /\ call' = [call EXCEPT ![p] = [NoCall EXCEPT !.op = "stop", !.pc = "failed"]]
        /\ UNCHANGED <<live, binding, emitted>>
     \/ /\ binding.status # "none" /\ live # None
        /\ live' = None
        /\ Emit(<<[type |-> "session.exited"]>>)
        /\ \E hung \in SUBSET Asking :
             call' = [Abandoned(call, hung) EXCEPT ![p] = [NoCall EXCEPT !.op = "stop", !.pc = "closing"]]
        /\ UNCHANGED binding
     \/ /\ binding.status # "none" /\ live = None
        /\ Upsert("stopped", None)
        /\ call' = [call EXCEPT ![p] = [NoCall EXCEPT !.op = "stop", !.pc = "done"]]
        /\ UNCHANGED <<live, emitted>>

Closed(p) ==
  /\ call[p].pc = "closing"
  /\ Upsert("stopped", None)
  /\ call' = [call EXCEPT ![p].pc = "done"]
  /\ UNCHANGED <<live, orphans, emitted>>

(* The waiting calls go on. *)
Resume(p) ==
  \/ Spawned(p) \/ Closed(p)
  \/ TurnAccepted(p) \/ Interrupted(p) \/ AnsweredAstray(p) \/ Refused(p)

-----------------------------------------------------------------------------
(* The provider by itself: the turn ends, or the process dies.  A Claude   *)
(* session is dropped then.  A Codex session stays listed: its pending     *)
(* requests fail, and one that a call makes only now waits for ever.       *)
TurnCompletes ==
  /\ live # None /\ live.alive /\ live.turn # None
  /\ live' = [live EXCEPT !.turn = None]
  /\ Emit(EndOfTurn)
  /\ UNCHANGED <<orphans, binding, call>>

ProcessDies ==
  /\ live # None /\ live.alive
  /\ \/ live' = None /\ call' = Abandoned(call, {})
     \/ /\ live' = [live EXCEPT !.alive = FALSE, !.turn = None]
        /\ \E hung \in SUBSET Asking : call' = Abandoned(call, hung)
  /\ Emit(<<[type |-> "session.exited"]>>)
  /\ UNCHANGED <<orphans, binding>>
=============================================================================
