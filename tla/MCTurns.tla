--------------------------------- MODULE MCTurns ---------------------------------
(***************************************************************************)
(* Turns on their way to the provider (TurnFlow), with requests that       *)
(* overlap, or of which each finds the others handled.  In the other       *)
(* scenarios a turn is under way, and its answer comes: AssistantMessages, *)
(* buffered or streaming, with deltas of white space, and with dispatches  *)
(* that fail.  They have no state in common.                               *)
(***************************************************************************)
EXTENDS TurnFlow

CONSTANTS MaxBuffer, MaxItems, MaxDeltas, MaxPauses   \* of the answer

ASSUME AnswerAssumption ==
  {MaxBuffer, MaxItems, MaxDeltas, MaxPauses, MaxFaults} \subseteq Nat

VARIABLES scenario, buffered, blank, turn, sent, item, items, pauses, faults, state

answerVars == <<buffered, blank, turn, sent, item, items, pauses, faults, state>>
allVars == <<scenario, overlap, vars, running, answerVars>>

Answer == INSTANCE AssistantMessages

MCInit ==
  /\ Init /\ Answer!Init
  /\ \/ scenario \in {"stopping", "failing"} /\ overlap = "all"
     \/ scenario = "sweeping" /\ overlap = "sweeps"
     \/ scenario \in {"calm", "answering"} /\ overlap = "none"
  /\ scenario \in {"stopping", "sweeping", "answering"} => thread.mode = FullAccess
  /\ IF scenario = "answering" THEN blank \in {{}, {2}} ELSE buffered /\ blank = {}

First == CHOOSE t \in Turn : TRUE

(* Bounds: where requests overlap, two turns and a stop, or one turn with  *)
(* a change of mode, a process that dies and a request that fails; where   *)
(* they do not, requests of every kind, and nothing fails.                 *)
FewRequests ==
  /\ scenario = "stopping" =>
       \A k \in {"modes", "interrupts", "deletes", "deaths", "faults"} : used'[k] = 0
  /\ scenario = "failing" =>
       /\ \A k \in {"stops", "interrupts", "deletes"} : used'[k] = 0
       /\ \A t \in Turn \ {First} : outcome'[t] = "none"
  /\ scenario = "sweeping" =>
       \A k \in {"modes", "deletes"} : used'[k] = 0
  /\ scenario = "calm" => \A k \in {"deaths", "faults"} : used'[k] = 0

MCNext ==
  /\ UNCHANGED scenario
  /\ \/ /\ scenario \in {"stopping", "failing", "sweeping", "calm"}
        /\ Next /\ FewRequests
        /\ UNCHANGED answerVars
     \/ /\ scenario = "answering"
        /\ Answer!Next
        /\ UNCHANGED <<overlap, vars, running>>

MCSpec == MCInit /\ [][MCNext]_allVars /\ Fairness

-----------------------------------------------------------------------------
(* When requests do not overlap and nothing fails: what is stopped stays   *)
(* so, the reaper finds what runs, and no process is lost.                 *)
NothingFails == used["deaths"] = 0 /\ used["faults"] = 0

SessionsAreTrue ==
  /\ TypeOK
  /\ overlap = "none" /\ NothingFails => StopHolds /\ RunningIsKnown
  /\ overlap # "all" => EverySessionIsListed

(* When requests do not overlap one another, and none is refused: the      *)
(* reaper takes no turn that ran when it read, whenever it sweeps and      *)
(* whatever dies; and when sweeps wait as well, the session of a deleted   *)
(* thread is stopped.                                                      *)
StopsTheRightOnes ==
  /\ [][overlap # "all" /\ used["faults"] = 0 => ReapsIdle]_allVars
  /\ overlap = "none" => DeletedIsStopped

(* The messages of a turn are its answer: nothing is lost, repeated or out *)
(* of order as long as no dispatch fails, and whatever fails, the end of a *)
(* turn leaves no text behind in a buffer and no message open.             *)
AnswerIsWhole ==
  /\ Answer!TypeOK
  /\ Answer!NothingPending
  /\ Answer!NothingLost
  /\ faults = 0 => Answer!OnlyActiveStreams
=============================================================================
