------------------------------- MODULE MCWorkspace -------------------------------
(***************************************************************************)
(* What the server keeps of a workspace: the worker that writes terminal   *)
(* transcripts (KeyedCoalescingWorker), the output of a terminal           *)
(* (TerminalOutput), the sessions of all terminals (TerminalSessions) and  *)
(* the status of its repository (GitStatusBroadcaster).  They have no      *)
(* state in common: a behaviour is one of one of them.                     *)
(***************************************************************************)
EXTENDS KeyedCoalescingWorker

CONSTANTS
  Fibers, MaxChunks, MaxOps,                  \* of TerminalOutput
  Streams, Refreshes, MaxChanges, None        \* of GitStatusBroadcaster, and TerminalSessions

VARIABLES scenario,
  sequential, pid, alive, status, history, pending, draining, fiber, op, view, told, chunks, ops,
  dropped,
  session, recent, listed, process, file, queued, lock, evictions, calls, printed, failures,
  primed, repository, cache, stream, refresh, poller

terminalVars ==
  <<sequential, pid, alive, status, history, pending, draining, fiber, op, view, told, chunks, ops,
    dropped>>
sessionVars ==
  <<session, recent, listed, process, file, queued, lock, evictions, calls, printed, failures>>
gitVars == <<primed, repository, cache, stream, refresh, poller>>

Terminal == INSTANCE TerminalOutput
Git == INSTANCE GitStatusBroadcaster

(* All sessions may stay; more than may stay, with operations and exits    *)
(* that wait for one another; and with ones that overlap.                  *)
Roomy == INSTANCE TerminalSessions
  WITH Threads <- {"t1"}, Terminals <- {1, 2}, MaxInactive <- 2, Alone <- FALSE, MaxOps <- 3,
       MaxChunks <- 1, MaxFaults <- 0,
       pending <- queued, op <- lock, ops <- calls, chunks <- printed, faults <- failures
Serial == INSTANCE TerminalSessions
  WITH Threads <- {"t1", "t2"}, Terminals <- {1}, MaxInactive <- 1, Alone <- TRUE, MaxOps <- 3,
       MaxChunks <- 1, MaxFaults <- 1,
       pending <- queued, op <- lock, ops <- calls, chunks <- printed, faults <- failures
Tight == INSTANCE TerminalSessions
  WITH Threads <- {"t1", "t2"}, Terminals <- {1}, MaxInactive <- 1, Alone <- FALSE, MaxOps <- 3,
       MaxChunks <- 0, MaxFaults <- 0,
       pending <- queued, op <- lock, ops <- calls, chunks <- printed, faults <- failures

MCInit ==
  /\ Init /\ Terminal!Init /\ Git!Init
  /\ \/ scenario \in {"worker", "terminal"} /\ Serial!Init /\ primed
     \/ scenario = "git" /\ Serial!Init
     \/ scenario = "roomy" /\ Roomy!Init /\ primed
     \/ scenario \in {"serial", "tight"} /\ Serial!Init /\ primed
  /\ scenario # "terminal" => sequential

MCNext ==
  /\ UNCHANGED scenario
  /\ \/ scenario = "worker" /\ Next /\ UNCHANGED <<terminalVars, sessionVars, gitVars>>
     \/ scenario = "terminal" /\ Terminal!Next /\ UNCHANGED <<vars, sessionVars, gitVars>>
     \/ scenario = "roomy" /\ Roomy!Next /\ UNCHANGED <<vars, terminalVars, gitVars>>
     \/ scenario = "serial" /\ Serial!Next /\ UNCHANGED <<vars, terminalVars, gitVars>>
     \/ scenario = "tight" /\ Tight!Next /\ UNCHANGED <<vars, terminalVars, gitVars>>
     \/ scenario = "git" /\ Git!Next /\ UNCHANGED <<vars, terminalVars, sessionVars>>

MCSpec ==
  /\ MCInit /\ [][MCNext]_<<scenario, vars, terminalVars, sessionVars, gitVars>>
  /\ Fairness /\ Git!Fairness

-----------------------------------------------------------------------------
(* Whatever overlaps, what a terminal's process printed is drained, once   *)
(* and into a transcript in order, and its exit is noticed and told unless *)
(* it was dropped from the queue; and if operations and output wait for    *)
(* one another, the subscriber shows the transcript.                       *)
TerminalAgrees == Terminal!TerminalAgrees

(* Every process that runs is that of a listed session, a terminal opens   *)
(* with the transcript that it had, and a close that removes transcripts   *)
(* leaves none; no more than the limit of idle sessions stays, whatever    *)
(* overlaps.                                                               *)
TerminalsAreTracked ==
  /\ [](scenario = "roomy" =>
         /\ Roomy!TypeOK /\ Roomy!LiveIsListed
         /\ Roomy!RetainedIsBounded /\ Roomy!TranscriptIsStored)
  /\ [](scenario = "serial" =>
         /\ Serial!TypeOK /\ Serial!LiveIsListed
         /\ Serial!RetainedIsBounded /\ Serial!TranscriptIsStored)
  /\ [](scenario = "tight" => Tight!TypeOK /\ Tight!RetainedIsBounded)
  /\ [][scenario = "roomy" => Roomy!RemovesAll]_<<scenario, sessionVars>>

(* The poller of a repository runs as long as a stream is open, and the    *)
(* streams show the cache.                                                 *)
StatusIsShown == Git!StatusIsShown

(* Open streams come to show what the remote holds. *)
RemoteIsFollowed == Git!RemoteIsFollowed
=============================================================================
