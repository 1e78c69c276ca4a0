------------------------------ MODULE MCCheckpoints ------------------------------
(***************************************************************************)
(* The worker of the reactors (DrainableWorker), and the checkpoints that  *)
(* one of them keeps (Checkpointing).  They have no state in common: a     *)
(* behaviour is one of the worker, with a fiber and a scope that may end   *)
(* or without, or one of a thread's checkpoints: with a user who waits and *)
(* a provider that reports no diffs (Claude) or does (Codex), or with a    *)
(* user who does not wait, where steps may fail as well.                   *)
(***************************************************************************)
EXTENDS DrainableWorker

CONSTANTS MaxTurns, MaxEdits, MaxReverts, MaxFaults   \* of Checkpointing

VARIABLES scenario, diffs, patient, files, edits, refs, checkpoints, session, shown, turns,
          running, conversation, events, placeholder, inputs, reactor, reverts, faults, ends

checkpointVars ==
  <<diffs, patient, files, edits, refs, checkpoints, session, shown, turns, running,
    conversation, events, placeholder, inputs, reactor, reverts, faults, ends>>

Steady == INSTANCE DrainableWorker WITH MayEnd <- FALSE, MayClose <- FALSE

Checks == INSTANCE Checkpointing

MCInit ==
  /\ Init /\ Checks!Init
  /\ \/ scenario \in {"worker", "steady"} /\ ~diffs /\ patient
     \/ scenario = "checkpoints"

(* Bounds: no step fails while the user waits; a user who does not wait    *)
(* asks for fewer turns and one revert, and edits less if steps fail.      *)
FewSteps ==
  IF patient THEN faults' = 0
  ELSE /\ turns' <= 2 /\ edits' <= 2 /\ reverts'[2] = "none"
       /\ diffs => edits' <= 1
       /\ ~diffs => faults' = 0

MCNext ==
  \/ scenario = "worker" /\ Next /\ UNCHANGED <<scenario, checkpointVars>>
  \/ scenario = "steady" /\ Steady!Next /\ UNCHANGED <<scenario, checkpointVars>>
  \/ scenario = "checkpoints" /\ Checks!Next /\ FewSteps /\ UNCHANGED <<scenario, vars>>

MCSpec ==
  MCInit /\ [][MCNext]_<<scenario, vars, checkpointVars>> /\ Fairness /\ Checks!Fairness

-----------------------------------------------------------------------------
(* As long as no item ends the fiber and the scope is open, everything     *)
(* that is enqueued is handled, and every drain returns.                   *)
EveryItemIsHandled == scenario = "steady" => Steady!AllHandled

(* A checkpoint that names a ref has it.  With a user who waits, no two    *)
(* checkpoints share a count, none stays a placeholder, the provider's     *)
(* conversation has the turns of the thread, and, where no diffs are       *)
(* reported, the checkpoints are those of the ends of turns.               *)
CheckpointsAreTrue == Checks!CheckpointsAreTrue

(* With a user who waits, a revert that is done has restored the workspace.*)
RevertRestores == Checks!RevertRestores

(* Each revert is carried out or reported, whichever step fails.           *)
EveryRevertIsAnswered == Checks!EveryRevertIsAnswered
=============================================================================
