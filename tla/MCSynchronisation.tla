---------------------------- MODULE MCSynchronisation ----------------------------
(***************************************************************************)
(* What a client shows of the server: an open thread (ThreadSync), and the *)
(* list of threads (ShellSync).  They have no state in common: a behaviour *)
(* is one of a thread with a turn and its answer, one of a thread with     *)
(* plans and activities, or one of the list.                               *)
(***************************************************************************)
EXTENDS ThreadSync

CONSTANTS Thread, Time, MaxEvents, MaxDrops, MaxFaults   \* of the list

VARIABLES scenario, log, version, deletedAt, published, shellStage, snapshot, inbox, wire,
          shown, removed, lastApplied, missed, drops, faults

shellVars == <<log, version, deletedAt, published, shellStage, snapshot, inbox, wire,
               shown, removed, lastApplied, missed, drops, faults>>

MCAssistantMessage == [t \in TurnId |-> "a-" \o t]

(* A message, its turn, the streamed answer, the checkpoint and a revert.  *)
OneTurn ==
  {"project.create", "thread.create", "thread.turn.start", "thread.session.set",
   "thread.message.assistant.delta", "thread.message.assistant.complete",
   "thread.turn.diff.complete", "thread.revert.complete"}

(* Plans and activities of a turn, over a connection that does not break.  *)
Plans == INSTANCE ThreadSync
  WITH PlanId <- {"pl1"}, ActivityId <- {"ac1"}, MaxSequence <- 6, MaxBreaks <- 0,
       CommandTypes <-
         {"project.create", "thread.create", "thread.turn.start", "thread.session.set",
          "thread.proposed-plan.upsert", "thread.activity.append",
          "thread.turn.diff.complete", "thread.revert.complete"}

List == INSTANCE ShellSync WITH stage <- shellStage

MCInit ==
  /\ ThreadSyncInit /\ List!Init
  /\ scenario \in {"turn", "plans", "list"}

MCNext ==
  \/ scenario = "turn" /\ ThreadSyncNext /\ UNCHANGED <<scenario, shellVars>>
  \/ scenario = "plans" /\ Plans!ThreadSyncNext /\ UNCHANGED <<scenario, shellVars>>
  \/ scenario = "list" /\ List!Next /\ UNCHANGED <<scenario, vars, sync>>

MCSpec == MCInit /\ [][MCNext]_<<scenario, vars, sync, shellVars>> /\ List!Fairness

-----------------------------------------------------------------------------
(* The list of threads is that of the sequence the client compares with.   *)
ListIsApplied == List!TypeOK /\ List!AppliedIsShown

(* The list never goes back, and is that of the server in the end.         *)
ListFollows == List!NeverBack /\ (scenario = "list" => List!CatchesUp)
=============================================================================
