------------------------ MODULE MCOrchestrationEngine ------------------------
(***************************************************************************)
(* An instance of the engine for TLC: a project, a thread in it, and the   *)
(* deletion of the project with its thread (a batch of two events).  The   *)
(* creation of the thread is called twice with one id.  A behaviour is one *)
(* with two kinds of failure in a server that does not stop, or one with   *)
(* one of them in a server that stops before the deletion is called.       *)
(***************************************************************************)
EXTENDS OrchestrationEngine

VARIABLE scenario

MCCommandIdOf ==
  [k \in Call |-> CASE k = "k1" -> "project"
                    [] k \in {"k2", "k3"} -> "thread"
                    [] k = "k4" -> "delete"]

MCCommandOf ==
  ("project" :> [type |-> "project.create", projectId |-> "p1", meta |-> "m1"]) @@
  ("thread" :> [type |-> "thread.create", threadId |-> "th1", projectId |-> "p1",
                meta |-> "m1", runtimeMode |-> "full", interactionMode |-> "chat"]) @@
  ("delete" :> [type |-> "project.delete", projectId |-> "p1", force |-> TRUE])

Failing == INSTANCE OrchestrationEngine WITH MaxFaults <- 2, MaxCrashes <- 0
Stopping == INSTANCE OrchestrationEngine WITH MaxFaults <- 1, MaxCrashes <- 1

MCInit == Init /\ scenario \in {"failing", "stopping"}

MCNext ==
  \/ scenario = "failing" /\ Failing!Next /\ UNCHANGED scenario
  \/ scenario = "stopping" /\ Stopping!Next /\ calls'["k4"] = calls["k4"] /\ UNCHANGED scenario

MCSpec == MCInit /\ [][MCNext]_<<scenario, vars>> /\ WF_vars(Worker)
=============================================================================
