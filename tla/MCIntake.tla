-------------------------------- MODULE MCIntake --------------------------------
(***************************************************************************)
(* What clients ask of the server before a turn runs: commands that come   *)
(* while the server starts (CommandGate), and the first message of a draft *)
(* (FirstSend).  The two have no state in common: a behaviour is one of    *)
(* the first or one of the second, with a user who waits or one who sends  *)
(* again at once, whose connection lasts or breaks.                        *)
(***************************************************************************)
EXTENDS CommandGate

CONSTANTS Sends, MayFail, MaxDrops, None   \* of FirstSend

VARIABLES scenario, thread, worktree, turns, engineQueue, saga, created, disk, failed,
          link, stream, drops, patient, asks, answer, shown, draft, route, text

sendVars == <<thread, worktree, turns, engineQueue, saga, created, disk, failed, link, stream,
              drops, patient, asks, answer, shown, draft, route, text>>

Drafts == INSTANCE FirstSend WITH queue <- engineQueue

(* While a draft is sent, the server has started.                          *)
Started ==
  /\ readiness = "ready" /\ commandReady = "succeeded" /\ queue = <<>> /\ held = NoCommand
  /\ stage = [c \in Command |-> "none"] /\ waiting = {} /\ offered = <<>>

MCInit ==
  /\ Drafts!Init
  /\ \/ scenario = "gate" /\ Init /\ patient
     \/ scenario = "send" /\ Started

(* Bound: one kind of command fails, or a connection is lost. *)
OneFault == \A c, d \in failed' : c = d /\ drops' = 0

MCNext ==
  \/ scenario = "gate" /\ Next /\ UNCHANGED <<scenario, sendVars>>
  \/ scenario = "send" /\ Drafts!Next /\ OneFault /\ UNCHANGED <<scenario, vars>>

MCSpec ==
  MCInit /\ [][MCNext]_<<scenario, vars, sendVars>> /\ Fairness /\ Drafts!Fairness

-----------------------------------------------------------------------------
(* With a patient user, a connection that has lasted and a cleanup that    *)
(* does not fail: a send that fails takes the thread it created with it,   *)
(* it has started no turn, no other worktree is left than the thread's     *)
(* unless the thread could not be told of it, and a draft from which the   *)
(* user can send has no thread yet.  Whoever sends again, and whenever,    *)
(* one send creates the thread.                                            *)
FailureLeavesNothing == Drafts!FailureLeavesNothing

(* In the same case, a turn starts in the worktree that its own send asked *)
(* for; whoever sends again, and whatever fails, the client comes to show  *)
(* the thread.                                                             *)
SendArrives ==
  /\ [][Drafts!Orderly => Drafts!StartsInWorktree]_sendVars
  /\ Drafts!ShownInTheEnd
=============================================================================
