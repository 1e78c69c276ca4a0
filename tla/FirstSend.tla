------------------------------- MODULE FirstSend -------------------------------
(***************************************************************************)
(* The first message of a draft thread: the client sends one turn start,   *)
(* and the server creates the thread, a worktree for it and its setup      *)
(* script before it starts the turn (apps/server/src/ws.ts,                *)
(* dispatchBootstrapTurnStart), while the client makes its draft a thread  *)
(* of the server (ChatView.tsx, composerDraftStore.ts,                     *)
(* environments/runtime/service.ts).                                       *)
(*                                                                         *)
(* There is one draft, one window and no command but those of its sends.   *)
(* The engine is reduced to its queue, to what the decider asks of them    *)
(* and to whether a command is committed; ShellSync has the shell stream   *)
(* in detail.                                                              *)
(***************************************************************************)
EXTENDS Naturals, Sequences, FiniteSets

CONSTANTS
  Sends,     \* attempts to send, each with its command, message and branch
  MayFail,   \* the commands that the engine may fail to commit
  MaxDrops,  \* bound: lost connections
  None

VARIABLES
  \* The server.
  thread,    \* in the read model: "absent", "live", "deleted"
  worktree,  \* worktreePath of the thread: the send that made it, or None
  turns,     \* the sends whose turn start was accepted
  queue,     \* commandQueue: <<send, command>>
  saga,      \* send -> where dispatchBootstrapTurnStart is
  created,   \* send -> createdThread
  disk,      \* the sends whose worktree exists
  failed,    \* the commands that the engine failed to commit so far
  \* The connection.
  link,      \* "up", "down"
  stream,    \* what the shell stream has for the client
  drops,
  \* The client.
  patient,   \* whether the user sends only when what has come is shown; never changes
  asks,      \* send -> the parts of its bootstrap
  answer,    \* send -> "none", "sending", "ok", "error"
  shown,     \* the thread in the store: "none" or a view of it
  draft,     \* the draft session: "plain", "promoting", "gone"
  route,     \* "draft", "server", "home"
  text       \* "typed": in the composer, "sent": in a send, "lost"

server == <<thread, worktree, turns, queue, saga, created, disk, failed>>
client == <<asks, answer, shown, draft, route, text>>
vars == <<server, link, stream, drops, client>>

Views == {"empty", "worktree", "started"}
Stages == {"idle", "create", "created", "git", "meta", "setup", "start", "undo", "delete",
           "ok", "failed", "interrupted"}
Finished == {"ok", "failed", "interrupted"}

TypeOK ==
  /\ patient \in BOOLEAN
  /\ thread \in {"absent", "live", "deleted"}
  /\ worktree \in Sends \cup {None}
  /\ turns \subseteq Sends /\ disk \subseteq Sends /\ failed \subseteq MayFail
  /\ queue \in Seq(Sends \X {"create", "meta", "start", "delete"})
  /\ saga \in [Sends -> Stages]
  /\ created \in [Sends -> BOOLEAN]
  /\ link \in {"up", "down"} /\ drops \in 0..MaxDrops
  /\ stream \in Seq(Views \cup {"removed", "no thread"})
  /\ asks \in [Sends -> SUBSET {"thread", "worktree"}]
  /\ answer \in [Sends -> {"none", "sending", "ok", "error"}]
  /\ shown \in Views \cup {"none"}
  /\ draft \in {"plain", "promoting", "gone"}
  /\ route \in {"draft", "server", "home"}
  /\ text \in {"typed", "sent", "lost"}

Init ==
  /\ patient \in BOOLEAN
  /\ thread = "absent" /\ worktree = None /\ turns = {} /\ queue = <<>> /\ disk = {} /\ failed = {}
  /\ saga = [s \in Sends |-> "idle"] /\ created = [s \in Sends |-> FALSE]
  /\ link = "up" /\ stream = <<>> /\ drops = 0
  /\ asks = [s \in Sends |-> {}] /\ answer = [s \in Sends |-> "none"]
  /\ shown = "none" /\ draft = "plain" /\ route = "draft" /\ text = "typed"

-----------------------------------------------------------------------------
(* The engine                                                              *)

(* requireThreadAbsent, requireThread: a deleted thread is still a thread. *)
Allowed(command) == (thread = "absent") <=> (command = "create")

View ==
  IF turns' # {} THEN "started" ELSE IF worktree' # None THEN "worktree" ELSE "empty"

(* The stage of a send that waits for a command once it is accepted.       *)
Decided(command) ==
  CASE command = "create" -> "created"
    [] command = "meta" -> "setup"
    [] command = "start" -> "ok"
    [] OTHER -> "failed"

(* For a mutation: a thread that was created stays. *)
AfterFailureKept(s) == "failed"

(* One step has failed: the thread, if the send created it, is deleted.    *)
AfterFailure(s) == IF created[s] /\ saga[s] # "delete" THEN "undo" ELSE "failed"

(* The engine decides the oldest command, and commits it if it can;        *)
(* whoever waits for it goes on.                                           *)
Process ==
  /\ queue # <<>>
  /\ queue' = Tail(queue)
  /\ LET s == queue[1][1]
         command == queue[1][2]
     IN  \E accepted \in BOOLEAN :
         /\ accepted => Allowed(command)
         /\ IF accepted \/ ~Allowed(command) THEN failed' = failed
            ELSE command \in MayFail /\ failed' = failed \cup {command}
         /\ thread' = IF ~accepted THEN thread
                      ELSE IF command = "create" THEN "live"
                      ELSE IF command = "delete" THEN "deleted" ELSE thread
         /\ worktree' = IF accepted /\ command = "meta" THEN s ELSE worktree
         /\ turns' = IF accepted /\ command = "start" THEN turns \cup {s} ELSE turns
         /\ saga' = IF saga[s] # command THEN saga
                    ELSE [saga EXCEPT ![s] = IF accepted THEN Decided(command) ELSE AfterFailure(s)]
         /\ created' = [created EXCEPT ![s] =
                          @ \/ (saga[s] = command /\ command = "create" /\ accepted)]
         /\ stream' = IF link = "down" \/ ~accepted THEN stream
                      ELSE IF command = "delete" THEN Append(stream, "removed")
                      ELSE IF thread' = "live" THEN Append(stream, View) ELSE stream
  /\ UNCHANGED <<disk, link, drops, client>>

Dispatch(s, command) ==
  /\ saga' = [saga EXCEPT ![s] = command]
  /\ queue' = Append(queue, <<s, command>>)

-----------------------------------------------------------------------------
(* dispatchBootstrapTurnStart                                              *)

AfterCreate(s) ==
  /\ saga[s] = "created"
  /\ IF "worktree" \in asks[s]
     THEN saga' = [saga EXCEPT ![s] = "git"] /\ UNCHANGED queue
     ELSE Dispatch(s, "start")
  /\ UNCHANGED <<thread, worktree, turns, created, disk, failed, link, stream, drops, client>>

WorktreeCreated(s) ==
  /\ saga[s] = "git"
  /\ disk' = disk \cup {s}
  /\ Dispatch(s, "meta")
  /\ UNCHANGED <<thread, worktree, turns, created, failed, link, stream, drops, client>>

(* git worktree add fails.                                                 *)
WorktreeFails(s) ==
  /\ saga[s] = "git"
  /\ saga' = [saga EXCEPT ![s] = AfterFailure(s)]
  /\ UNCHANGED <<thread, worktree, turns, queue, created, disk, failed, link, stream, drops, client>>

(* cleanupCreatedThread                                                    *)
CleanUp(s) ==
  /\ saga[s] = "undo"
  /\ Dispatch(s, "delete")
  /\ UNCHANGED <<thread, worktree, turns, created, disk, failed, link, stream, drops, client>>

(* The setup script is launched, or fails to launch: the turn starts.      *)
Setup(s) ==
  /\ saga[s] = "setup"
  /\ Dispatch(s, "start")
  /\ UNCHANGED <<thread, worktree, turns, created, disk, failed, link, stream, drops, client>>

(* The fiber of a send whose connection was lost is interrupted: there is  *)
(* no cleanup, and what it had queued stays in the queue.                  *)
Interrupt(s) ==
  /\ answer[s] = "error"
  /\ saga[s] \notin Finished
  /\ saga' = [saga EXCEPT ![s] = "interrupted"]
  /\ disk' \in {disk, IF saga[s] = "git" THEN disk \cup {s} ELSE disk}
  /\ UNCHANGED <<thread, worktree, turns, queue, created, failed, link, stream, drops, client>>

-----------------------------------------------------------------------------
(* The client                                                              *)

(* onSend: with the thread and a worktree to create from a draft, with a   *)
(* worktree from an empty thread that has none.                            *)
Send(s) ==
  /\ link = "up" /\ text = "typed"
  /\ patient => stream = <<>>
  /\ answer[s] = "none" /\ \A t \in Sends : answer[t] # "sending"
  /\ \/ /\ route = "draft" \/ (route = "server" /\ shown = "none" /\ draft # "gone")
        /\ asks' = [asks EXCEPT ![s] = {"thread", "worktree"}]
     \/ /\ route = "server" /\ shown # "none"
        /\ asks' = [asks EXCEPT ![s] = IF shown = "empty" THEN {"worktree"} ELSE {}]
  /\ answer' = [answer EXCEPT ![s] = "sending"]
  /\ text' = "sent"
  /\ IF "thread" \in asks'[s] THEN Dispatch(s, "create")
     ELSE IF "worktree" \in asks'[s] THEN saga' = [saga EXCEPT ![s] = "git"] /\ UNCHANGED queue
     ELSE Dispatch(s, "start")
  /\ UNCHANGED <<thread, worktree, turns, created, disk, failed, link, stream, drops, shown, draft, route>>

(* The composer gets the text back, if it is still there.                  *)
Restored == IF route # "home" /\ text = "sent" THEN "typed" ELSE text

Answered(s) ==
  /\ link = "up" /\ answer[s] = "sending" /\ saga[s] \in {"ok", "failed"}
  /\ answer' = [answer EXCEPT ![s] = IF saga[s] = "ok" THEN "ok" ELSE "error"]
  /\ text' = IF saga[s] = "ok" THEN text ELSE Restored
  /\ UNCHANGED <<server, link, stream, drops, asks, shown, draft, route>>

(* The user writes the next message.                                       *)
Type ==
  /\ route # "home" /\ text # "typed" /\ \A s \in Sends : answer[s] # "sending"
  /\ text' = "typed"
  /\ UNCHANGED <<server, link, stream, drops, asks, answer, shown, draft, route>>

(* The user opens the thread from the list.                                *)
OpenThread ==
  /\ shown # "none" /\ route # "server"
  /\ route' = "server"
  /\ UNCHANGED <<server, link, stream, drops, asks, answer, shown, draft, text>>

(* thread-upserted: the draft is marked as promoted; once the thread has   *)
(* started it is finalized, and its route left for that of the thread.     *)
Upserted(view) ==
  /\ shown' = view
  /\ IF view = "started" /\ route # "home"
     THEN draft' = "gone" /\ route' = "server"
     ELSE draft' = (IF draft = "plain" THEN "promoting" ELSE draft) /\ UNCHANGED route
  /\ UNCHANGED text

(* thread-removed clears the draft with its text.                          *)
ThreadRemoved ==
  /\ shown' = "none" /\ draft' = "gone" /\ route' = "home"
  /\ text' = IF text = "typed" THEN "lost" ELSE text

(* A snapshot without the thread leaves a draft as it is.                  *)
NoThread ==
  /\ shown' = "none"
  /\ route' = IF route = "server" /\ draft = "gone" THEN "home" ELSE route
  /\ UNCHANGED <<draft, text>>

Receive ==
  /\ stream # <<>>
  /\ stream' = Tail(stream)
  /\ \/ stream[1] \in Views /\ Upserted(stream[1])
     \/ stream[1] = "removed" /\ ThreadRemoved
     \/ stream[1] = "no thread" /\ NoThread
  /\ UNCHANGED <<server, link, drops, asks, answer>>

-----------------------------------------------------------------------------
(* The connection is lost: what is sending fails with a transport error.   *)
Drop ==
  /\ link = "up" /\ drops < MaxDrops
  /\ link' = "down" /\ drops' = drops + 1 /\ stream' = <<>>
  /\ answer' = [s \in Sends |-> IF answer[s] = "sending" THEN "error" ELSE answer[s]]
  /\ text' = IF \E s \in Sends : answer[s] = "sending" THEN Restored ELSE text
  /\ UNCHANGED <<server, asks, shown, draft, route>>

(* For a mutation: a new connection without a snapshot. *)
ReconnectBare ==
  /\ link = "down"
  /\ link' = "up"
  /\ UNCHANGED <<server, stream, drops, client>>

(* A new connection begins with a snapshot.                                *)
Reconnect ==
  /\ link = "down"
  /\ link' = "up"
  /\ stream' = << IF thread # "live" THEN "no thread"
                  ELSE IF turns # {} THEN "started"
                  ELSE IF worktree # None THEN "worktree" ELSE "empty" >>
  /\ UNCHANGED <<server, drops, client>>

-----------------------------------------------------------------------------
Saga(s) ==
  AfterCreate(s) \/ WorktreeCreated(s) \/ WorktreeFails(s) \/ Setup(s) \/ CleanUp(s)

Next ==
  /\ UNCHANGED patient
  /\ \/ Process \/ Type \/ OpenThread \/ Receive \/ Drop \/ Reconnect
     \/ \E s \in Sends : Saga(s) \/ Interrupt(s) \/ Send(s) \/ Answered(s)

Spec == Init /\ [][Next]_<<patient, vars>>

(* The server goes on and delivers; nobody has to send or to reconnect.    *)
Fairness ==
  /\ WF_vars(Process) /\ WF_vars(Receive) /\ WF_vars(Reconnect)
  /\ \A s \in Sends : WF_vars(Saga(s)) /\ WF_vars(Answered(s))

-----------------------------------------------------------------------------
(* Properties *)

AtRest == queue = <<>> /\ \A s \in Sends : saga[s] \in Finished \cup {"idle"}

(* When nothing is under way, there is a thread exactly if a turn was      *)
(* started in it: a send that fails takes the thread it created with it    *)
(* (cleanupCreatedThread), and no other.                                   *)
FailureLeavesNoThread == AtRest => (thread = "live" <=> turns # {})

(* A send that is answered with an error has started no turn: the text the *)
(* composer gets back is sent once.                                        *)
FailedIsNotSent == \A s \in Sends : answer[s] = "error" => s \notin turns

(* When nothing is under way, the worktrees that exist are the thread's.   *)
NoStrayWorktree == AtRest => disk \subseteq {worktree}

(* A draft the user can send from creates its thread: there is none yet.   *)
DraftCanBeSent == AtRest /\ stream = <<>> /\ route = "draft" => thread = "absent"

(* At most one send created the thread, however many tried: only one can   *)
(* delete it again.                                                        *)
OneCreator == \A s, t \in Sends : created[s] /\ created[t] => s = t

(* What is claimed of failures, with a patient user, a connection that has *)
(* lasted and a cleanup that did not fail itself: the worktree stays only  *)
(* when the thread could not be told of it.  Of the creation of the        *)
(* thread, in any case.                                                    *)
Orderly == patient /\ drops = 0 /\ "delete" \notin failed

FailureLeavesNothing ==
  /\ TypeOK /\ OneCreator
  /\ Orderly =>
       /\ FailureLeavesNoThread /\ FailedIsNotSent /\ DraftCanBeSent
       /\ "meta" \notin failed => NoStrayWorktree

(* The turn of a send that asked for a worktree starts in that worktree.   *)
StartsInWorktree == \A s \in turns' \ turns : "worktree" \in asks[s] => worktree = s /\ s \in disk

(* The client comes to show the thread exactly if it is live.              *)
ShownInTheEnd == <>[](shown # "none" <=> thread = "live")
=============================================================================
