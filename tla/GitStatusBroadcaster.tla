-------------------------- MODULE GitStatusBroadcaster --------------------------
(***************************************************************************)
(* The git status of one directory (git/Layers/GitStatusBroadcaster.ts):   *)
(* a cache with a local and a remote part, streams that get a snapshot and *)
(* then the published changes, refreshes on demand, and a poller for the   *)
(* remote part that runs as long as a stream holds it.  A status takes     *)
(* time to be read and is what the repository was at some moment of it.    *)
(* The cache of GitManager below, which shares reads for a second, is left *)
(* out: a shared read is two reads at the same moment.  getStatus, which   *)
(* stores a remote status without publishing it, has no caller in the      *)
(* server.                                                                 *)
(***************************************************************************)
EXTENDS Integers, Sequences, FiniteSets

CONSTANTS
  Streams,     \* calls of streamStatus
  Refreshes,   \* calls of refreshStatus
  MaxChanges,  \* of each part of the repository
  None

VARIABLES
  primed,      \* whether the local status is in the cache at the start
  repository,  \* part -> its status
  cache,       \* part -> the cached status, or None
  stream,      \* stream -> its state
  refresh,     \* refresh -> its state
  poller       \* the poller of the directory, or None

vars == <<repository, cache, stream, refresh, poller>>

Part == {"local", "remote"}
Status == 0..MaxChanges
NoStatus == [part \in Part |-> None]

TypeOK ==
  /\ primed \in BOOLEAN
  /\ repository \in [Part -> Status]
  /\ cache \in [Part -> Status \cup {None}]
  /\ stream \in [Streams -> [pc     : {"new", "reading", "loaded", "open", "closed"},
                             value  : Status \cup {None},
                             seen   : [Part -> Status \cup {None}],
                             queue  : Seq([part : Part, status : Status])]]
  /\ refresh \in [Refreshes -> [pc : {"new", "reading", "updating", "done"},
                                part : Part, value : Status \cup {None}]]
  /\ poller \in [subscribers : Nat \ {0}, pc : {"reading", "updating", "sleeping"},
                 value : Status \cup {None}] \cup {None}

Init ==
  /\ primed \in BOOLEAN
  /\ repository = [part \in Part |-> 0]
  /\ cache = [part \in Part |-> IF part = "local" /\ primed THEN 0 ELSE None]
  /\ stream = [s \in Streams |-> [pc |-> "new", value |-> None, seen |-> NoStatus, queue |-> <<>>]]
  /\ refresh = [r \in Refreshes |-> [pc |-> "new", part |-> "local", value |-> None]]
  /\ poller = None

Open(s) == stream[s].pc = "open"
Subscribed(s) == stream[s].pc \in {"reading", "loaded", "open"}

(* The user, an agent or a remote changes the repository. *)
Change(part) ==
  /\ repository[part] < MaxChanges
  /\ repository' = [repository EXCEPT ![part] = @ + 1]
  /\ UNCHANGED <<cache, stream, refresh, poller>>

(* For a mutation: the cache is updated, but not announced. *)
UpdateSilently(part, status) ==
  /\ cache' = [cache EXCEPT ![part] = status]
  /\ UNCHANGED stream

(* updateCached...Status with publish: a change of the cached value goes   *)
(* to all who have subscribed.                                             *)
UpdateAndPublish(part, status) ==
  /\ cache' = [cache EXCEPT ![part] = status]
  /\ stream' = [s \in Streams |->
       IF Subscribed(s) /\ cache[part] # status
       THEN [stream[s] EXCEPT !.queue = Append(@, [part |-> part, status |-> status])]
       ELSE stream[s]]

-----------------------------------------------------------------------------
(* For a mutation: every stream starts a poller of its own. *)
RetainAnew == poller' = [subscribers |-> 1, pc |-> "reading", value |-> None]

(* retainRemotePoller *)
Retain ==
  poller' = IF poller = None THEN [subscribers |-> 1, pc |-> "reading", value |-> None]
            ELSE [poller EXCEPT !.subscribers = @ + 1]

(* releaseRemotePoller: the last one interrupts it. *)
Release ==
  poller' = IF poller = None \/ poller.subscribers = 1 THEN None
            ELSE [poller EXCEPT !.subscribers = @ - 1]

(* streamStatus: first the subscription, then the local status from the    *)
(* cache, or, if there is none, from a read that is not published.         *)
Subscribe(s) ==
  /\ stream[s].pc = "new"
  /\ IF cache["local"] # None
     THEN /\ stream' = [stream EXCEPT ![s].pc = "open", ![s].seen = cache]
          /\ Retain
     ELSE /\ stream' = [stream EXCEPT ![s].pc = "reading"]
          /\ UNCHANGED poller
  /\ UNCHANGED <<repository, cache, refresh>>

Load(s) ==
  /\ stream[s].pc = "reading"
  /\ stream' = [stream EXCEPT ![s].pc = "loaded", ![s].value = repository["local"]]
  /\ UNCHANGED <<repository, cache, refresh, poller>>

Loaded(s) ==
  /\ stream[s].pc = "loaded"
  /\ cache' = [cache EXCEPT !["local"] = stream[s].value]
  /\ stream' = [stream EXCEPT ![s].pc = "open", ![s].seen = cache', ![s].value = None]
  /\ Retain
  /\ UNCHANGED <<repository, refresh>>

(* The client applies what is published. *)
Deliver(s) ==
  /\ Open(s) /\ stream[s].queue # <<>>
  /\ LET event == Head(stream[s].queue) IN
       stream' = [stream EXCEPT ![s].queue = Tail(@), ![s].seen[event.part] = event.status]
  /\ UNCHANGED <<repository, cache, refresh, poller>>

(* The client goes, or the load fails. *)
Close(s) ==
  /\ Subscribed(s)
  /\ stream' = [stream EXCEPT ![s].pc = "closed", ![s].queue = <<>>, ![s].value = None]
  /\ IF Open(s) THEN Release ELSE UNCHANGED poller
  /\ UNCHANGED <<repository, cache, refresh>>

-----------------------------------------------------------------------------
(* refreshStatus: the local part, then the remote one. *)
StartRefresh(r) ==
  /\ refresh[r].pc = "new"
  /\ refresh' = [refresh EXCEPT ![r].pc = "reading"]
  /\ UNCHANGED <<repository, cache, stream, poller>>

ReadStatus(r) ==
  /\ refresh[r].pc = "reading"
  /\ \/ refresh' = [refresh EXCEPT ![r].pc = "updating", ![r].value = repository[refresh[r].part]]
     \/ refresh' = [refresh EXCEPT ![r].pc = "done"]
  /\ UNCHANGED <<repository, cache, stream, poller>>

UpdateStatus(r) ==
  /\ refresh[r].pc = "updating"
  /\ UpdateAndPublish(refresh[r].part, refresh[r].value)
  /\ refresh' = [refresh EXCEPT ![r] =
       IF refresh[r].part = "local" THEN [pc |-> "reading", part |-> "remote", value |-> None]
       ELSE [pc |-> "done", part |-> "remote", value |-> None]]
  /\ UNCHANGED <<repository, poller>>

(* makeRemoteRefreshLoop: a failure is logged. *)
PollReads ==
  /\ poller # None /\ poller.pc = "reading"
  /\ \/ poller' = [poller EXCEPT !.pc = "updating", !.value = repository["remote"]]
     \/ poller' = [poller EXCEPT !.pc = "sleeping"]
  /\ UNCHANGED <<repository, cache, stream, refresh>>

PollUpdates ==
  /\ poller # None /\ poller.pc = "updating"
  /\ UpdateAndPublish("remote", poller.value)
  /\ poller' = [poller EXCEPT !.pc = "sleeping", !.value = None]
  /\ UNCHANGED <<repository, refresh>>

PollWakes ==
  /\ poller # None /\ poller.pc = "sleeping"
  /\ poller' = [poller EXCEPT !.pc = "reading"]
  /\ UNCHANGED <<repository, cache, stream, refresh>>

-----------------------------------------------------------------------------
Next ==
  /\ UNCHANGED primed
  /\ \/ \E part \in Part : Change(part)
     \/ \E s \in Streams : Subscribe(s) \/ Load(s) \/ Loaded(s) \/ Deliver(s) \/ Close(s)
     \/ \E r \in Refreshes : StartRefresh(r) \/ ReadStatus(r) \/ UpdateStatus(r)
     \/ PollReads \/ PollUpdates \/ PollWakes

Spec == Init /\ [][Next]_<<primed, vars>>

(* Fibers go on, and git answers a poll now and then.                      *)
PollSucceeds == PollReads /\ poller'.pc = "updating"

Fairness ==
  /\ \A s \in Streams : WF_vars(Load(s)) /\ WF_vars(Loaded(s)) /\ WF_vars(Deliver(s))
  /\ \A r \in Refreshes : WF_vars(ReadStatus(r)) /\ WF_vars(UpdateStatus(r))
  /\ SF_vars(PollSucceeds) /\ WF_vars(PollUpdates) /\ WF_vars(PollWakes)

-----------------------------------------------------------------------------
(* Properties *)

(* The poller runs as long as a stream is open, and counts the open        *)
(* streams: none of them leaves without its poller, and none is left over  *)
(* (retainRemotePoller, releaseRemotePoller).                              *)
PollerIsHeld ==
  LET open == {s \in Streams : Open(s)}
  IN  IF open = {} THEN poller = None
      ELSE poller # None /\ poller.subscribers = Cardinality(open)

(* Nothing is being read, stored or delivered, except by the poller. *)
Quiet ==
  /\ \A s \in Streams : stream[s].pc \in {"new", "open", "closed"} /\ stream[s].queue = <<>>
  /\ \A r \in Refreshes : refresh[r].pc \in {"new", "done"}

(* When all is delivered, an open stream shows what the cache holds, which *)
(* is what the next stream will be shown (streamStatus).                   *)
StreamsAgree == Quiet => \A s \in Streams : Open(s) => stream[s].seen = cache

(* The same for the remote part alone, which is never loaded unpublished.  *)
StreamsAgreeOnRemote ==
  Quiet => \A s \in Streams : Open(s) => stream[s].seen["remote"] = cache["remote"]

(* What is claimed of the status of a repository: the poller runs as long  *)
(* as a stream is open, and streams show the cache, of the local part only *)
(* if no stream has to load it.                                            *)
StatusIsShown ==
  /\ TypeOK /\ PollerIsHeld /\ StreamsAgreeOnRemote
  /\ primed => StreamsAgree

(* When the repository changes no more, the open streams show its remote   *)
(* status in the end (makeRemoteRefreshLoop).                              *)
RemoteIsFollowed ==
  <>[](\A s \in Streams : Open(s) => stream[s].seen["remote"] = repository["remote"])
=============================================================================
