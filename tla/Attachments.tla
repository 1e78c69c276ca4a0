-------------------------------- MODULE Attachments --------------------------------
(***************************************************************************)
(* The image files of messages (orchestration/Normalizer.ts, the           *)
(* attachment side effects of orchestration/Layers/ProjectionPipeline.ts). *)
(*                                                                         *)
(* A turn start writes its files before it is dispatched; the projectors   *)
(* of the engine remove files when a thread is reverted or deleted, which  *)
(* is inside the transaction of the command and is not undone with it.     *)
(* What a revert keeps is a beginning of the thread's messages (see        *)
(* ProjectionPipeline for the rule).                                       *)
(***************************************************************************)
EXTENDS Naturals, Sequences, FiniteSets, SequencesExt

CONSTANTS
  Threads, Messages,
  Owner,       \* message -> its thread
  Parts,       \* the attachments of a message, 1..Parts
  Cuts,        \* commands other than turn starts: records [thread, keep],
               \* reverts that keep that many messages, or deletions (Delete)
  Delete,
  Segmentations, \* toSafeThreadAttachmentSegment: thread -> the segment of its
               \* file names; several ids may be cleaned to the same one
  None

VARIABLES
  overlap,  \* whether clients write files while a cut is on its way
  mayFail,  \* whether transactions may be rolled back, and writes fail
  segment,  \* the segmentation of these threads
  files,    \* the directory of attachments: <<message, part>>
  stage,    \* message -> "new", "writing", "queued", "sent", "refused"
  written,  \* message -> the number of its files that have been written
  cut,      \* cut -> "new", "queued", "done", "failed"
  queue,    \* the engine's queue: messages and cuts
  current,  \* the command whose transaction is open and has been projected, or None
  messages, \* thread -> the rows of its messages
  deleted   \* threads that are deleted

settings == <<overlap, mayFail, segment>>   \* never change
vars == <<settings, files, stage, written, cut, queue, current, messages, deleted>>

FilesOf(m) == {<<m, p>> : p \in 1..Parts}

TypeOK ==
  /\ overlap \in BOOLEAN /\ mayFail \in BOOLEAN /\ segment \in Segmentations
  /\ files \subseteq (Messages \X (1..Parts))
  /\ stage \in [Messages -> {"new", "writing", "queued", "sent", "refused"}]
  /\ written \in [Messages -> 0..Parts]
  /\ cut \in [Cuts -> {"new", "queued", "done", "failed"}]
  /\ queue \in Seq(Messages \cup Cuts)
  /\ current \in Messages \cup Cuts \cup {None}
  /\ messages \in [Threads -> Seq(Messages)]
  /\ deleted \subseteq Threads

Init ==
  /\ overlap \in BOOLEAN /\ mayFail \in BOOLEAN /\ segment \in Segmentations
  /\ files = {} /\ deleted = {} /\ queue = <<>> /\ current = None
  /\ stage = [m \in Messages |-> "new"]
  /\ written = [m \in Messages |-> 0]
  /\ cut = [c \in Cuts |-> "new"]
  /\ messages = [t \in Threads |-> <<>>]

-----------------------------------------------------------------------------
(* The clients and the normalizer. *)

SendsUnderway == {m \in Messages : stage[m] \in {"writing", "queued"}}
CutsUnderway == {c \in Cuts : cut[c] = "queued"}

(* A client sends a message.  Without overlap it waits for the cuts of  *)
(* its thread, and does not send to one that is deleted.                   *)
Send(m) ==
  /\ stage[m] = "new"
  /\ overlap \/ Owner[m] \notin deleted \cup {c.thread : c \in CutsUnderway}
  /\ stage' = [stage EXCEPT ![m] = "writing"]
  /\ UNCHANGED <<files, written, cut, queue, current, messages, deleted>>

(* For a mutation: the command is dispatched before its files are written. *)
EnqueueEarly(m) ==
  /\ stage[m] = "writing" /\ written[m] < Parts
  /\ stage' = [stage EXCEPT ![m] = "queued"]
  /\ queue' = Append(queue, m)
  /\ UNCHANGED <<files, written, cut, current, messages, deleted>>

(* One attachment after the other.                                         *)
WriteFile(m) ==
  /\ stage[m] = "writing" /\ written[m] < Parts
  /\ files' = files \cup {<<m, written[m] + 1>>}
  /\ written' = [written EXCEPT ![m] = @ + 1]
  /\ UNCHANGED <<stage, cut, queue, current, messages, deleted>>

(* An attachment that is no image, or cannot be written, refuses the       *)
(* command; the files before it stay.                                      *)
RefuseFile(m) ==
  /\ mayFail
  /\ stage[m] = "writing" /\ written[m] < Parts
  /\ stage' = [stage EXCEPT ![m] = "refused"]
  /\ UNCHANGED <<files, written, cut, queue, current, messages, deleted>>

Enqueue(m) ==
  /\ stage[m] = "writing" /\ written[m] = Parts
  /\ stage' = [stage EXCEPT ![m] = "queued"]
  /\ queue' = Append(queue, m)
  /\ UNCHANGED <<files, written, cut, current, messages, deleted>>

(* A revert, or the deletion of a thread. *)
Cut(c) ==
  /\ cut[c] = "new"
  /\ overlap \/ \A m \in SendsUnderway : Owner[m] # c.thread
  /\ cut' = [cut EXCEPT ![c] = "queued"]
  /\ queue' = Append(queue, c)
  /\ UNCHANGED <<files, stage, written, current, messages, deleted>>

-----------------------------------------------------------------------------
(* The engine: one transaction per command. *)

(* The messages of the thread when the command is projected.               *)
Kept(c) == IF Len(messages[c.thread]) <= c.keep THEN messages[c.thread]
           ELSE SubSeq(messages[c.thread], 1, c.keep)

(* The files that by their names are of a thread.                          *)
Named(t) == {f \in files : segment[Owner[f[1]]] = segment[t]}

(* For a mutation: the files of the last message that is kept go as well.  *)
RemovedOneMore(c) ==
  IF c.keep = Delete THEN Named(c.thread)
  ELSE IF Kept(c) = messages[c.thread] THEN {}
  ELSE {f \in Named(c.thread) : ~ \E i \in 1..(Len(Kept(c)) - 1) : Kept(c)[i] = f[1]}

(* The files that the side effects of a cut remove: those with the segment *)
(* of the thread that no row of the thread which is kept refers to; none   *)
(* if all rows are kept.                                                   *)
Removed(c) ==
  IF c.keep = Delete THEN Named(c.thread)
  ELSE IF Kept(c) = messages[c.thread] THEN {}
  ELSE {f \in Named(c.thread) : f[1] \notin ToSet(Kept(c))}

(* The projectors, and their side effects on the files.  The decider does  *)
(* not mind that a thread is deleted.                                      *)
Project ==
  /\ current = None /\ queue # <<>>
  /\ current' = Head(queue) /\ queue' = Tail(queue)
  /\ files' = IF Head(queue) \in Messages THEN files ELSE files \ Removed(Head(queue))
  /\ UNCHANGED <<stage, written, cut, messages, deleted>>

(* The rows are there when the transaction is committed.                   *)
Commit ==
  /\ current # None /\ current' = None
  /\ IF current \in Messages
     THEN /\ stage' = [stage EXCEPT ![current] = "sent"]
          /\ messages' = [messages EXCEPT ![Owner[current]] = Append(@, current)]
          /\ UNCHANGED <<cut, deleted>>
     ELSE /\ cut' = [cut EXCEPT ![current] = "done"]
          /\ IF current.keep = Delete
             THEN deleted' = deleted \cup {current.thread} /\ UNCHANGED messages
             ELSE messages' = [messages EXCEPT ![current.thread] = Kept(current)] /\ UNCHANGED deleted
          /\ UNCHANGED stage
  /\ UNCHANGED <<files, written, queue>>

Rollback ==
  /\ mayFail /\ current # None /\ current' = None
  /\ IF current \in Messages
     THEN stage' = [stage EXCEPT ![current] = "refused"] /\ UNCHANGED cut
     ELSE cut' = [cut EXCEPT ![current] = "failed"] /\ UNCHANGED stage
  /\ UNCHANGED <<files, written, queue, messages, deleted>>

-----------------------------------------------------------------------------
Next ==
  /\ UNCHANGED settings
  /\ \/ \E m \in Messages : Send(m) \/ WriteFile(m) \/ RefuseFile(m) \/ Enqueue(m)
     \/ \E c \in Cuts : Cut(c)
     \/ Project \/ Commit \/ Rollback

Spec == Init /\ [][Next]_vars

-----------------------------------------------------------------------------
(* Properties *)

Shown(t) == ToSet(messages[t])

SameSegment(t, u) == segment[t] = segment[u]

(* A cut may have taken files of a message that is shown: its transaction  *)
(* failed after the side effects, clients did not wait, or it was a cut of *)
(* another thread with the same segment.                                   *)
MayHaveTaken(c, m) ==
  /\ SameSegment(c.thread, Owner[m])
  /\ cut[c] = "failed" \/ (cut[c] = "done" /\ (overlap \/ c.thread # Owner[m]))

(* Whenever no transaction is open, what the rows of a thread refer to is  *)
(* on disk, or was taken in one of these ways (runAttachmentSideEffects).  *)
RowsHaveFiles ==
  current = None =>
    \A t \in Threads \ deleted : \A m \in Shown(t) :
      FilesOf(m) \subseteq files \/ \E c \in Cuts : MayHaveTaken(c, m)

(* Of a deleted thread nothing is left, once nothing is written or waits   *)
(* (deleteThreadAttachments).                                              *)
DeletedLeavesNothing ==
  \A t \in deleted :
    (\A m \in SendsUnderway : Owner[m] # t) => \A f \in files : Owner[f[1]] # t

(* When all is at rest, the directory holds the files of the messages that *)
(* are shown and no others: reverts and deletions leave nothing behind.    *)
NothingLeft ==
  SendsUnderway = {} /\ CutsUnderway = {} /\ current = None =>
    \A f \in files : Owner[f[1]] \notin deleted /\ f[1] \in Shown(Owner[f[1]])

(* What is claimed of rows and files: whatever fails, whoever waits, and   *)
(* whichever segments there are, a row lacks files for one of the reasons  *)
(* above only; when clients wait for the cuts of their thread, deletions   *)
(* leave nothing, and when nothing fails either, reverts do not.           *)
FilesMatchRows ==
  /\ TypeOK
  /\ RowsHaveFiles
  /\ ~overlap => DeletedLeavesNothing
  /\ ~overlap /\ ~mayFail => NothingLeft

(* A command takes files with the segment of its thread only, whatever     *)
(* fails or overlaps (parseThreadSegmentFromAttachmentId).                 *)
OnlyOwnFiles ==
  [][\A f \in files \ files' :
       current' \in Cuts /\ SameSegment(Owner[f[1]], current'.thread)]_vars

(* A message that is sent as such has all its files when it is committed,  *)
(* unless a cut of a thread with its segment took them since.              *)
SentWhole ==
  [][\A m \in Messages :
       stage[m] = "queued" /\ stage'[m] = "sent" =>
         \/ FilesOf(m) \subseteq files
         \/ \E c \in Cuts : SameSegment(c.thread, Owner[m]) /\ cut[c] \in {"done", "failed"}]_vars

(* What is claimed of the files whatever fails or overlaps. *)
FilesAreKept == OnlyOwnFiles /\ SentWhole
=============================================================================
