------------------------------ MODULE MCProjections ------------------------------
(***************************************************************************)
(* What the projection pipeline keeps beside the rows: its cursors         *)
(* (ProjectionBootstrap) and the image files of messages (Attachments).    *)
(* They have no state in common: a behaviour is one of the cursors or one  *)
(* of the files, where clients wait for the cuts of their thread or do     *)
(* not, and nothing fails or something does.                               *)
(***************************************************************************)
EXTENDS ProjectionBootstrap, TLC

CONSTANTS
  Threads, Messages, Owner, Parts, Cuts, Delete, Segmentations, None,   \* of Attachments
  m1, m2, m3

VARIABLES scenario, overlap, mayFail, segment, files, stage, written, cut, queue, current, messages, deleted

fileVars == <<overlap, mayFail, segment, files, stage, written, cut, queue, current, messages, deleted>>

(* One of the projectors is not needed for the snapshot, one comes with an *)
(* upgrade.                                                                *)
MCOrder == <<"projects", "plans", "turns", "threads">>

(* Two threads; the first one gets most of the messages, and is cut.       *)
MCOwner == m1 :> "t1" @@ m2 :> "t1" @@ m3 :> "t2"
MCCuts == {[thread |-> "t1", keep |-> 1], [thread |-> "t1", keep |-> Delete],
           [thread |-> "t2", keep |-> 0]}

(* Each thread has a segment of its own, or the ids of both are cleaned to *)
(* the same one.                                                           *)
MCSegmentations == {[t \in Threads |-> t], [t \in Threads |-> "t1"]}

Files == INSTANCE Attachments

MCInit ==
  /\ Init /\ Files!Init
  /\ \/ scenario = "cursors" /\ ~overlap /\ ~mayFail /\ segment = CHOOSE s \in Segmentations : TRUE
     \/ scenario = "files"

MCNext ==
  \/ scenario = "cursors" /\ Next /\ UNCHANGED <<scenario, fileVars>>
  \/ scenario = "files" /\ Files!Next /\ UNCHANGED <<scenario, vars>>

MCSpec == MCInit /\ [][MCNext]_<<scenario, vars, fileVars>>

-----------------------------------------------------------------------------
(* The rows of messages have their files but for named reasons, and        *)
(* without overlap and faults reverts and deletions leave no others.       *)
FilesMatchRows == Files!FilesMatchRows

(* Whatever overlaps or fails, a cut takes files with the segment of its   *)
(* thread only, and a message is committed with all its files unless a cut *)
(* of a thread with that segment came between.                             *)
FilesAreKept == Files!FilesAreKept
=============================================================================
