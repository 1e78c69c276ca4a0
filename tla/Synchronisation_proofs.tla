------------------------- MODULE Synchronisation_proofs -------------------------
(***************************************************************************)
(* Proofs about the list of threads that a client shows (ShellSync), for   *)
(* any threads, times and bounds.                                          *)
(*                                                                         *)
(* What makes the sequence of the last applied event meaningful is that    *)
(* nothing is skipped: whatever was published since is still on its way,   *)
(* in the order of the log, or is known to be missed, or waits for the     *)
(* deletion of its thread (NothingSkipped).  That a row which is read late *)
(* never brings a thread back needs that a row in an item was read before  *)
(* any deletion that comes after it (ItemsAreRows).                        *)
(***************************************************************************)
EXTENDS MCSynchronisation, SequenceTheorems, WellFoundedInduction, TLAPS

(* The times are natural numbers.                                          *)
ListBounds == Time \subseteq Nat /\ MaxEvents \in Nat /\ MaxDrops \in Nat /\ MaxFaults \in Nat

-----------------------------------------------------------------------------
(* The types of the variables, by name.                                    *)
LogEntry == [thread : Thread, deleted : BOOLEAN, time : Time]
ListItem == [sequence : Nat, thread : Thread, removes : BOOLEAN, row : Nat]
ListSnapshot == [sequence : Nat, updatedAt : Nat, rows : [Thread -> Nat]]
Applied == [sequence : Int, updatedAt : Nat]

ListTyped ==
  /\ log \in Seq(LogEntry)
  /\ version \in [Thread -> Nat]
  /\ deletedAt \in [Thread -> Nat]
  /\ published \in Nat
  /\ shellStage \in {"none", "snapshot", "live", "ended"}
  /\ snapshot \in ListSnapshot
  /\ inbox \in Seq(Nat)
  /\ wire \in Seq(ListItem)
  /\ shown \in [Thread -> Nat]
  /\ removed \in [Thread -> BOOLEAN]
  /\ lastApplied \in Applied
  /\ missed \in SUBSET Nat
  /\ drops \in 0..MaxDrops
  /\ faults \in 0..MaxFaults

(* Nothing is ahead of the log.                                            *)
WithinLog ==
  /\ published <= Len(log)
  /\ \A t \in Thread : deletedAt[t] <= version[t] /\ version[t] <= Len(log)
  /\ snapshot.sequence <= Len(log)
  /\ \A t \in Thread : snapshot.rows[t] <= version[t]
  /\ \A k \in 1..Len(inbox) : 1 <= inbox[k] /\ inbox[k] <= published
  /\ \A k \in 1..Len(wire) :
       /\ 1 <= wire[k].sequence /\ wire[k].sequence <= published
       /\ wire[k].row <= version[wire[k].thread]
  /\ -1 <= lastApplied.sequence /\ lastApplied.sequence <= Len(log)
  /\ \A i \in missed : 1 <= i /\ i <= Len(log)

(* The rows are those of the log.                                          *)
Deletes(i, t) == log[i].thread = t /\ log[i].deleted

RowsFollowLog ==
  \A t \in Thread :
    /\ \A i \in 1..Len(log) : log[i].thread = t => i <= version[t]
    /\ \A i \in 1..Len(log) : Deletes(i, t) => i <= deletedAt[t]
    /\ deletedAt[t] > 0 => Deletes(deletedAt[t], t)

(* Items and events wait in the order of the log, and only while live.     *)
SentInOrder ==
  /\ \A k, l \in 1..Len(wire) : k < l => wire[k].sequence < wire[l].sequence
  /\ \A k, l \in 1..Len(inbox) : k < l => inbox[k] < inbox[l]
  /\ \A k \in 1..Len(wire), l \in 1..Len(inbox) : wire[k].sequence < inbox[l]

OnlyLive == shellStage # "live" => wire = << >> /\ inbox = << >>

(* An item is of its event; its row was read after it and before a later   *)
(* deletion, not before what is shown and in the order of the items.       *)
ItemsAreRows ==
  \A k \in 1..Len(wire) :
    /\ wire[k].thread = log[wire[k].sequence].thread
    /\ wire[k].removes = log[wire[k].sequence].deleted
    /\ ~wire[k].removes =>
         /\ wire[k].sequence <= wire[k].row
         /\ shown[wire[k].thread] <= wire[k].row
         /\ \A i \in 1..Len(log) : Deletes(i, wire[k].thread) => wire[k].row < i
         /\ \A l \in 1..Len(wire) :
              k < l /\ wire[l].thread = wire[k].thread /\ ~wire[l].removes
                => wire[k].row <= wire[l].row

(* A snapshot under way has the rows of its sequence, none of them older   *)
(* than what is shown.                                                     *)
DeletedBy(n, t) == \E i \in 1..Len(log) : i <= n /\ Deletes(i, t)

SnapshotIsRows ==
  shellStage = "snapshot" =>
    \A t \in Thread :
      /\ DeletedBy(snapshot.sequence, t) => snapshot.rows[t] = 0
      /\ deletedAt[t] = 0 =>
           \A i \in 1..Len(log) :
             i <= snapshot.sequence /\ log[i].thread = t => i <= snapshot.rows[t]
      /\ snapshot.rows[t] > 0 => shown[t] <= snapshot.rows[t]
      /\ snapshot.rows[t] = 0 /\ shown[t] > 0 => DeletedBy(snapshot.sequence, t)

(* What was published since the last applied event is not lost unnoticed.  *)
Reaches(i) ==
  \/ i \in missed
  \/ \E k \in 1..Len(wire) : wire[k].sequence = i
  \/ \E k \in 1..Len(inbox) : inbox[k] = i
  \/ ~log[i].deleted /\ deletedAt[log[i].thread] > 0

NothingSkipped ==
  /\ shellStage = "live" => \A i \in 1..published : lastApplied.sequence < i => Reaches(i)
  /\ shellStage = "snapshot" => \A i \in 1..published : snapshot.sequence < i => i \in missed

(* What is shown is the effect of the events up to the last applied one.   *)
ShownIsApplied ==
  \A t \in Thread :
    /\ shown[t] <= version[t]
    /\ deletedAt[t] > 0 /\ deletedAt[t] <= lastApplied.sequence /\ deletedAt[t] \notin missed
         => shown[t] = 0
    /\ deletedAt[t] = 0 =>
         \A i \in 1..Len(log) :
           log[i].thread = t /\ i <= lastApplied.sequence /\ i \notin missed => i <= shown[t]
    /\ removed[t] => DeletedBy(lastApplied.sequence, t)

ListInv ==
  /\ ListTyped /\ WithinLog /\ RowsFollowLog /\ SentInOrder /\ OnlyLive
  /\ ItemsAreRows /\ SnapshotIsRows /\ NothingSkipped /\ ShownIsApplied

-----------------------------------------------------------------------------
(* Fields, and what Append and Tail do to a sequence.                      *)
LEMMA ItemIs ==
  ASSUME NEW x \in ListItem
  PROVE  x.sequence \in Nat /\ x.thread \in Thread /\ x.removes \in BOOLEAN /\ x.row \in Nat
BY DEF ListItem

LEMMA EntryIs ==
  ASSUME NEW x \in LogEntry
  PROVE  x.thread \in Thread /\ x.deleted \in BOOLEAN /\ x.time \in Time
BY DEF LogEntry

LEMMA AppendAt ==
  ASSUME NEW S, NEW q \in Seq(S), NEW x \in S
  PROVE  /\ Append(q, x) \in Seq(S) /\ Len(q) \in Nat /\ Len(Append(q, x)) = Len(q) + 1
         /\ Append(q, x)[Len(q) + 1] = x
         /\ \A i \in 1..Len(q) : Append(q, x)[i] = q[i] /\ q[i] \in S
BY AppendProperties, ElementOfSeq, LenProperties

LEMMA TailAt ==
  ASSUME NEW S, NEW q \in Seq(S), q # << >>
  PROVE  /\ Tail(q) \in Seq(S) /\ Len(q) \in Nat \ {0} /\ Len(Tail(q)) = Len(q) - 1
         /\ Head(q) = q[1] /\ Head(q) \in S
         /\ \A i \in 1..Len(Tail(q)) : Tail(q)[i] = q[i + 1]
BY HeadTailProperties, EmptySeq, LenProperties

LEMMA ListState ==
  ASSUME ListTyped
  PROVE  /\ Len(log) \in Nat /\ Len(inbox) \in Nat /\ Len(wire) \in Nat
         /\ snapshot.sequence \in Nat /\ snapshot.updatedAt \in Nat
         /\ snapshot.rows \in [Thread -> Nat]
         /\ lastApplied.sequence \in Int /\ lastApplied.updatedAt \in Nat
         /\ \A i \in 1..Len(log) : log[i].thread \in Thread /\ log[i].deleted \in BOOLEAN
         /\ \A i \in 1..Len(log) : log[i].time \in Time
         /\ \A k \in 1..Len(inbox) : inbox[k] \in Nat
         /\ \A k \in 1..Len(wire) :
              /\ wire[k].sequence \in Nat /\ wire[k].thread \in Thread
              /\ wire[k].removes \in BOOLEAN /\ wire[k].row \in Nat
<1>1. Len(log) \in Nat /\ Len(inbox) \in Nat /\ Len(wire) \in Nat
  BY LenProperties DEF ListTyped
<1>2. /\ snapshot.sequence \in Nat /\ snapshot.updatedAt \in Nat
      /\ snapshot.rows \in [Thread -> Nat]
      /\ lastApplied.sequence \in Int /\ lastApplied.updatedAt \in Nat
  BY DEF ListTyped, ListSnapshot, Applied
<1>3. \A i \in 1..Len(log) : log[i] \in LogEntry
  BY ElementOfSeq DEF ListTyped
<1>4. \A k \in 1..Len(inbox) : inbox[k] \in Nat
  BY ElementOfSeq DEF ListTyped
<1>5. \A k \in 1..Len(wire) : wire[k] \in ListItem
  BY ElementOfSeq DEF ListTyped
<1> QED  BY <1>1, <1>2, <1>3, <1>4, <1>5, ItemIs, EntryIs

LEMMA ListRange ==
  ASSUME ListTyped, WithinLog
  PROVE  /\ published \in 0..Len(log) /\ snapshot.sequence \in 0..Len(log)
         /\ lastApplied.sequence \in -1..Len(log)
         /\ \A i \in missed : i \in 1..Len(log)
         /\ \A t \in Thread : /\ version[t] \in 0..Len(log) /\ deletedAt[t] \in 0..version[t]
                              /\ snapshot.rows[t] \in 0..Len(log)
         /\ \A k \in 1..Len(inbox) : inbox[k] \in 1..published /\ inbox[k] \in 1..Len(log)
         /\ \A k \in 1..Len(wire) : /\ wire[k].sequence \in 1..published
                                    /\ wire[k].sequence \in 1..Len(log)
                                    /\ wire[k].row \in 0..version[wire[k].thread]
                                    /\ wire[k].row \in 0..Len(log)
<1>1. /\ Len(log) \in Nat /\ published \in Nat /\ published <= Len(log)
      /\ snapshot.sequence \in 0..Len(log) /\ lastApplied.sequence \in -1..Len(log)
  BY ListState DEF ListTyped, WithinLog
<1>2. \A i \in missed : i \in 1..Len(log)
  BY <1>1 DEF ListTyped, WithinLog
<1>3. \A t \in Thread : /\ version[t] \in 0..Len(log) /\ deletedAt[t] \in 0..version[t]
                        /\ snapshot.rows[t] \in 0..Len(log)
  <2> TAKE t \in Thread
  <2>1. version[t] \in Nat /\ deletedAt[t] \in Nat
    BY DEF ListTyped
  <2>2. snapshot.rows[t] \in Nat
    BY ListState
  <2>3. deletedAt[t] <= version[t] /\ version[t] <= Len(log) /\ snapshot.rows[t] <= version[t]
    BY DEF WithinLog
  <2> QED  BY <1>1, <2>1, <2>2, <2>3
<1>4. \A k \in 1..Len(inbox) : inbox[k] \in 1..published /\ inbox[k] \in 1..Len(log)
  <2> TAKE k \in 1..Len(inbox)
  <2>1. inbox[k] \in Nat
    BY ListState
  <2>2. 1 <= inbox[k] /\ inbox[k] <= published
    BY DEF WithinLog
  <2> QED  BY <1>1, <2>1, <2>2
<1>5. \A k \in 1..Len(wire) : /\ wire[k].sequence \in 1..published
                              /\ wire[k].sequence \in 1..Len(log)
                              /\ wire[k].row \in 0..version[wire[k].thread]
                              /\ wire[k].row \in 0..Len(log)
  <2> TAKE k \in 1..Len(wire)
  <2>1. wire[k].sequence \in Nat /\ wire[k].thread \in Thread /\ wire[k].row \in Nat
    BY ListState
  <2>2. /\ 1 <= wire[k].sequence /\ wire[k].sequence <= published
        /\ wire[k].row <= version[wire[k].thread]
    BY DEF WithinLog
  <2>3. version[wire[k].thread] \in 0..Len(log)
    BY <1>3, <2>1
  <2> QED  BY <1>1, <2>1, <2>2, <2>3
<1> QED  BY <1>1, <1>2, <1>3, <1>4, <1>5

-----------------------------------------------------------------------------
(* The latest of the times in the log is one of them.                      *)
LEMMA NatMin == ASSUME NEW T \in SUBSET Nat, T # {}  PROVE \E m \in T : \A n \in T : m <= n
<1> DEFINE R == {ss \in Nat \X Nat : ss[1] < ss[2]}
<1>1. IsWellFoundedOn(R, Nat)
  BY NatLessThanWellFounded DEF OpToRel
<1>2. PICK m \in T : \A n \in T : ~(<<n, m>> \in R)
  BY <1>1, WFMin
<1>3. \A n \in T : ~(n < m)
  BY <1>2
<1> QED  BY <1>3

LEMMA HasLargest ==
  ASSUME NEW T \in SUBSET Nat, T # {}, NEW b \in Nat, \A x \in T : x <= b
  PROVE  \E m \in T : \A x \in T : x <= m
<1> DEFINE U == {n \in Nat : \A x \in T : x <= n}
<1>1. b \in U /\ U \in SUBSET Nat  OBVIOUS
<1>2. PICK u \in U : \A n \in U : u <= n
  BY <1>1, NatMin
<1>3. u \in Nat /\ \A x \in T : x <= u
  BY <1>2
<1>4. ASSUME u \notin T  PROVE FALSE
  <2>1. \A x \in T : x < u
    BY <1>3, <1>4
  <2>2. u - 1 \in Nat /\ \A x \in T : x <= u - 1
    <3>1. PICK y \in T : y < u
      BY <2>1
    <3>2. y \in Nat /\ u - 1 \in Nat
      BY <1>3, <3>1
    <3>3. ASSUME NEW x \in T  PROVE x <= u - 1
      <4>1. x \in Nat /\ x < u
        BY <2>1
      <4> QED  BY <1>3, <4>1
    <3> QED  BY <3>2, <3>3
  <2>3. u - 1 \in U
    BY <2>2
  <2>4. u <= u - 1
    BY <1>2, <2>3
  <2> QED  BY <1>3, <2>4
<1> QED  BY <1>3, <1>4

LEMMA TimesAreBounded ==
  ASSUME NEW f, NEW n \in Nat, \A i \in 1..n : f[i] \in Nat
  PROVE  \E b \in Nat : \A i \in 1..n : f[i] <= b
<1> DEFINE Good(m) == \E b \in Nat : \A i \in 1..m : f[i] <= b
           Bad == {m \in Nat : m <= n /\ ~Good(m)}
<1> SUFFICES ASSUME n \in Bad  PROVE FALSE
  OBVIOUS
<1>1. PICK m \in Bad : \A k \in Bad : m <= k
  <2>1. Bad \in SUBSET Nat /\ Bad # {}
    OBVIOUS
  <2> QED  BY <2>1, NatMin
<1>2. m \in Nat /\ m <= n /\ ~Good(m)
  BY <1>1
<1>3. m # 0
  <2>1. \A i \in 1..0 : f[i] <= 0
    OBVIOUS
  <2>2. Good(0)
    BY <2>1
  <2> QED  BY <1>2, <2>2
<1>4. m - 1 \in Nat /\ m - 1 <= n /\ ~(m <= m - 1)
  BY <1>2, <1>3
<1>5. Good(m - 1)
  BY <1>1, <1>4
<1>6. PICK b \in Nat : \A i \in 1..(m - 1) : f[i] <= b
  BY <1>5
<1>7. f[m] \in Nat
  BY <1>2, <1>3
<1>8. \A i \in 1..m : i = m \/ i \in 1..(m - 1)
  BY <1>2
<1>9. PICK c \in Nat : b <= c /\ f[m] <= c
  <2>1. CASE b <= f[m]  BY <1>7, <2>1
  <2>2. CASE f[m] <= b  BY <1>7, <2>2
  <2> QED  BY <1>7, <2>1, <2>2
<1>10. ASSUME NEW i \in 1..m  PROVE f[i] <= c
  <2>1. CASE i = m  BY <1>9, <2>1
  <2>2. CASE i \in 1..(m - 1)
    <3>1. f[i] <= b  BY <1>6, <2>2
    <3>2. f[i] \in Nat  BY <1>2
    <3> QED  BY <1>9, <3>1, <3>2
  <2> QED  BY <1>8, <2>1, <2>2
<1> QED  BY <1>2, <1>9, <1>10

LEMMA UpdatedAtIsTime ==
  ASSUME ListBounds, ListTyped, WithinLog
  PROVE  List!UpdatedAt \in Nat
<1> DEFINE times == {log[version[t]].time : t \in {u \in Thread : version[u] > 0}}
           f == [i \in 1..Len(log) |-> log[i].time]
<1>1. Len(log) \in Nat /\ \A i \in 1..Len(log) : f[i] \in Nat /\ f[i] = log[i].time
  BY ListState DEF ListBounds
<1>2. \A t \in Thread : version[t] > 0 => version[t] \in 1..Len(log)
  BY <1>1 DEF ListTyped, WithinLog
<1> HIDE DEF f
<1>3. PICK b \in Nat : \A i \in 1..Len(log) : f[i] <= b
  BY <1>1, TimesAreBounded
<1>4. times \in SUBSET Nat /\ \A x \in times : x <= b
  BY <1>1, <1>2, <1>3
<1>5. times # {} => \E m \in times : \A x \in times : x <= m
  <2> HIDE DEF times
  <2> QED  BY <1>4, HasLargest
<1>6. List!UpdatedAt = IF times = {} THEN 0 ELSE CHOOSE m \in times : \A x \in times : x <= m
  BY DEF List!UpdatedAt
<1> HIDE DEF times
<1>7. CASE times = {}  BY <1>6, <1>7
<1>8. CASE times # {}
  <2>1. (CHOOSE m \in times : \A x \in times : x <= m) \in times
    BY <1>5, <1>8
  <2> QED  BY <1>4, <1>6, <1>8, <2>1
<1> QED  BY <1>7, <1>8

-----------------------------------------------------------------------------
(* What each action does, by field.                                        *)
LEMMA CommitDoes ==
  ASSUME ListTyped, NEW t \in Thread, NEW deleted \in BOOLEAN, NEW time \in Time,
         List!Commit(t, deleted, time)
  PROVE  /\ Len(log) < MaxEvents /\ (deleted => version[t] > 0)
         /\ log' \in Seq(LogEntry) /\ Len(log') = Len(log) + 1
         /\ \A i \in 1..Len(log) : log'[i] = log[i]
         /\ log'[Len(log) + 1].thread = t /\ log'[Len(log) + 1].deleted = deleted
         /\ version' \in [Thread -> Nat] /\ deletedAt' \in [Thread -> Nat]
         /\ version'[t] = Len(log) + 1
         /\ deletedAt'[t] = IF deleted THEN Len(log) + 1 ELSE deletedAt[t]
         /\ \A u \in Thread : u # t => version'[u] = version[u] /\ deletedAt'[u] = deletedAt[u]
         /\ UNCHANGED << published, shellStage, snapshot, inbox, wire, shown, removed,
                         lastApplied, missed, drops, faults >>
<1> DEFINE e == [thread |-> t, deleted |-> deleted, time |-> time]
<1>1. /\ Len(log) < MaxEvents /\ (deleted => version[t] > 0)
      /\ log' = Append(log, e)
      /\ version' = [version EXCEPT ![t] = Len(log) + 1]
      /\ deletedAt' = [deletedAt EXCEPT ![t] = IF deleted THEN Len(log) + 1 ELSE @]
      /\ UNCHANGED << published, shellStage, snapshot, inbox, wire, shown, removed,
                      lastApplied, missed, drops, faults >>
  BY DEF List!Commit, List!connection, List!client
<1>2. e \in LogEntry /\ e.thread = t /\ e.deleted = deleted
  BY DEF LogEntry
<1> HIDE DEF e
<1>3. /\ log' \in Seq(LogEntry) /\ Len(log') = Len(log) + 1 /\ Len(log) \in Nat
      /\ log'[Len(log) + 1] = e /\ \A i \in 1..Len(log) : log'[i] = log[i]
  BY <1>1, <1>2, AppendAt DEF ListTyped
<1>4. version' \in [Thread -> Nat] /\ deletedAt' \in [Thread -> Nat]
  BY <1>1, <1>3 DEF ListTyped
<1>5. /\ version'[t] = Len(log) + 1
      /\ deletedAt'[t] = IF deleted THEN Len(log) + 1 ELSE deletedAt[t]
      /\ \A u \in Thread : u # t => version'[u] = version[u] /\ deletedAt'[u] = deletedAt[u]
  BY <1>1 DEF ListTyped
<1> QED  BY <1>1, <1>2, <1>3, <1>4, <1>5

LEMMA SubscribeDoes ==
  ASSUME ListBounds, ListTyped, WithinLog, List!Subscribe
  PROVE  /\ shellStage = "none" /\ shellStage' = "snapshot"
         /\ snapshot' \in ListSnapshot /\ snapshot'.sequence = Len(log)
         /\ \A t \in Thread :
              snapshot'.rows[t] = IF deletedAt[t] = 0 THEN version[t] ELSE 0
         /\ UNCHANGED << log, version, deletedAt, published, inbox, wire, shown, removed,
                         lastApplied, missed, drops, faults >>
<1>1. /\ shellStage = "none" /\ shellStage' = "snapshot"
      /\ snapshot' = [sequence |-> Len(log), updatedAt |-> List!UpdatedAt, rows |-> List!ShellRows]
      /\ UNCHANGED << log, version, deletedAt, published, inbox, wire, shown, removed,
                      lastApplied, missed, drops, faults >>
  BY DEF List!Subscribe, List!server, List!client
<1>2. /\ List!ShellRows \in [Thread -> Nat]
      /\ \A t \in Thread : List!ShellRows[t] = IF deletedAt[t] = 0 THEN version[t] ELSE 0
  BY DEF List!ShellRows, ListTyped
<1>3. Len(log) \in Nat /\ List!UpdatedAt \in Nat
  BY UpdatedAtIsTime, LenProperties DEF ListTyped
<1>4. snapshot' \in ListSnapshot
  BY <1>1, <1>2, <1>3 DEF ListSnapshot
<1> QED  BY <1>1, <1>2, <1>4

LEMMA DeliverDoes ==
  ASSUME ListTyped, WithinLog, RowsFollowLog, List!Deliver
  PROVE  /\ inbox # << >> /\ inbox' = Tail(inbox)
         /\ \E item \in ListItem :
              /\ item.sequence = inbox[1] /\ item.thread = log[inbox[1]].thread
              /\ item.removes = log[inbox[1]].deleted
              /\ item.row <= version[item.thread]
              /\ IF item.removes THEN wire' = Append(wire, item)
                 ELSE IF deletedAt[item.thread] > 0 THEN wire' = wire
                 ELSE wire' = Append(wire, item) /\ item.row = version[item.thread]
         /\ UNCHANGED << log, version, deletedAt, published, shellStage, snapshot, shown, removed,
                         lastApplied, missed, drops, faults >>
<1> DEFINE s == inbox[1]
           t == log[s].thread
           item == [sequence |-> s, thread |-> t, removes |-> log[s].deleted,
                    row |-> IF log[s].deleted \/ deletedAt[t] > 0 THEN 0 ELSE version[t]]
<1>1. inbox # << >> /\ Head(inbox) = s /\ 1 \in 1..Len(inbox) /\ s \in Nat
  BY TailAt DEF List!Deliver, ListTyped
<1>2. s \in 1..Len(log)
  BY <1>1, ListState DEF WithinLog, ListTyped
<1>3. t \in Thread /\ log[s].deleted \in BOOLEAN
  BY <1>2, ListState
<1>4. version[t] \in Nat /\ version[t] >= s /\ deletedAt[t] \in Nat
  BY <1>2, <1>3 DEF ListTyped, RowsFollowLog
<1>5. List!Item(Head(inbox)) = item
  BY <1>1 DEF List!Item
<1>6. /\ inbox' = Tail(inbox)
      /\ wire' = IF item.removes \/ item.row > 0 THEN Append(wire, item) ELSE wire
      /\ UNCHANGED << log, version, deletedAt, published, shellStage, snapshot, shown, removed,
                      lastApplied, missed, drops, faults >>
  BY <1>5 DEF List!Deliver, List!server, List!client
<1>7. item \in ListItem
  BY <1>1, <1>3, <1>4 DEF ListItem
<1>8. /\ item.sequence = s /\ item.thread = t /\ item.removes = log[s].deleted
      /\ item.row = IF log[s].deleted \/ deletedAt[t] > 0 THEN 0 ELSE version[t]
  OBVIOUS
<1> HIDE DEF item, t
<1>9. item.row <= version[t]
  BY <1>4, <1>8
<1>10. IF item.removes THEN wire' = Append(wire, item)
       ELSE IF deletedAt[item.thread] > 0 THEN wire' = wire
       ELSE wire' = Append(wire, item) /\ item.row = version[item.thread]
  <2>1. CASE log[s].deleted
    BY <1>6, <1>8, <2>1
  <2>2. CASE ~log[s].deleted /\ deletedAt[t] > 0
    <3>1. item.row = 0 /\ ~item.removes
      BY <1>8, <2>2
    <3> QED  BY <1>6, <1>8, <2>2, <3>1
  <2>3. CASE ~log[s].deleted /\ ~(deletedAt[t] > 0)
    <3>1. item.row = version[t] /\ ~item.removes
      BY <1>8, <2>3
    <3>2. version[t] > 0
      BY <1>1, <1>2, <1>4
    <3> QED  BY <1>6, <1>8, <2>3, <3>1, <3>2
  <2> QED  BY <2>1, <2>2, <2>3
<1>11. item.thread = log[inbox[1]].thread /\ item.row <= version[item.thread]
  BY <1>8, <1>9 DEF t
<1> HIDE DEF s
<1>12. item.sequence = inbox[1] /\ item.removes = log[inbox[1]].deleted
  BY <1>8 DEF s
<1> QED  BY <1>1, <1>6, <1>7, <1>10, <1>11, <1>12

LEMMA TakeSnapshotDoes ==
  ASSUME ListTyped, List!TakeSnapshot
  PROVE  /\ shellStage = "snapshot" /\ shellStage' = "live"
         /\ \/ /\ snapshot.sequence >= lastApplied.sequence
               /\ shown' = snapshot.rows /\ removed' \in [Thread -> BOOLEAN]
               /\ \A t \in Thread :
                    removed'[t] <=> snapshot.rows[t] = 0 /\ (removed[t] \/ shown[t] > 0)
               /\ lastApplied' \in Applied /\ lastApplied'.sequence = snapshot.sequence
               /\ missed' = {e \in missed : e > snapshot.sequence}
            \/ /\ snapshot.sequence <= lastApplied.sequence
               /\ UNCHANGED << shown, removed, lastApplied, missed >>
         /\ UNCHANGED << log, version, deletedAt, published, snapshot, inbox, wire, drops, faults >>
<1>1. /\ shellStage = "snapshot" /\ shellStage' = "live"
      /\ UNCHANGED << log, version, deletedAt, published, snapshot, inbox, wire, drops, faults >>
  BY DEF List!TakeSnapshot, List!server
<1>2. CASE List!shouldApplyProjectionSnapshot(snapshot)
  <2>1. /\ shown' = snapshot.rows
        /\ removed' = [t \in Thread |-> snapshot.rows[t] = 0 /\ (removed[t] \/ shown[t] > 0)]
        /\ lastApplied' = [sequence |-> snapshot.sequence, updatedAt |-> snapshot.updatedAt]
        /\ missed' = {e \in missed : e > snapshot.sequence}
    BY <1>2 DEF List!TakeSnapshot, List!syncServerShellSnapshot
  <2>2. snapshot.sequence >= lastApplied.sequence
    BY <1>2, ListState DEF List!shouldApplyProjectionSnapshot
  <2>3. lastApplied' \in Applied /\ lastApplied'.sequence = snapshot.sequence
    BY <2>1, ListState DEF Applied
  <2>4. removed' \in [Thread -> BOOLEAN]
    BY <2>1 DEF ListTyped
  <2>5. \A t \in Thread :
          removed'[t] <=> snapshot.rows[t] = 0 /\ (removed[t] \/ shown[t] > 0)
    BY <2>1
  <2> QED  BY <1>1, <2>1, <2>2, <2>3, <2>4, <2>5
<1>3. CASE ~List!shouldApplyProjectionSnapshot(snapshot)
  <2>1. UNCHANGED << shown, removed, lastApplied, missed >>
    BY <1>3 DEF List!TakeSnapshot, List!client
  <2>2. snapshot.sequence <= lastApplied.sequence
    BY <1>3, ListState DEF List!shouldApplyProjectionSnapshot
  <2> QED  BY <1>1, <2>1, <2>2
<1> QED  BY <1>2, <1>3

LEMMA TakeItemDoes ==
  ASSUME ListTyped, List!TakeItem
  PROVE  /\ wire # << >> /\ wire' = Tail(wire) /\ 1 \in 1..Len(wire)
         /\ \/ /\ wire[1].sequence > lastApplied.sequence
               /\ shown' \in [Thread -> Nat] /\ removed' \in [Thread -> BOOLEAN]
               /\ \A t \in Thread :
                    IF t = wire[1].thread
                    THEN /\ shown'[t] = IF wire[1].removes THEN 0 ELSE wire[1].row
                         /\ removed'[t] = wire[1].removes
                    ELSE shown'[t] = shown[t] /\ removed'[t] = removed[t]
               /\ lastApplied' \in Applied /\ lastApplied'.sequence = wire[1].sequence
            \/ /\ wire[1].sequence <= lastApplied.sequence
               /\ UNCHANGED << shown, removed, lastApplied >>
         /\ UNCHANGED << log, version, deletedAt, published, shellStage, snapshot, inbox,
                         missed, drops, faults >>
<1>1. /\ wire # << >> /\ wire' = Tail(wire)
      /\ UNCHANGED << log, version, deletedAt, published, shellStage, snapshot, inbox,
                      missed, drops, faults >>
  BY DEF List!TakeItem, List!server
<1>2. 1 \in 1..Len(wire) /\ Head(wire) = wire[1] /\ wire[1] \in ListItem
  BY <1>1, TailAt DEF ListTyped
<1> DEFINE item == wire[1]
<1>3. IF item.sequence > lastApplied.sequence
      THEN /\ shown' = [shown EXCEPT ![item.thread] = IF item.removes THEN 0 ELSE item.row]
           /\ removed' = [removed EXCEPT ![item.thread] = item.removes]
           /\ lastApplied' = [lastApplied EXCEPT !.sequence = item.sequence]
      ELSE UNCHANGED << shown, removed, lastApplied >>
  BY <1>2 DEF List!TakeItem, List!shouldApplyProjectionEvent, List!applyEnvironmentShellEvent,
              List!client
<1>4. /\ item.sequence \in Nat /\ item.thread \in Thread /\ item.removes \in BOOLEAN
      /\ item.row \in Nat
  BY <1>2, ItemIs
<1> HIDE DEF item
<1>5. CASE item.sequence > lastApplied.sequence
  <2>1. shown' \in [Thread -> Nat] /\ removed' \in [Thread -> BOOLEAN]
    <3>1. (IF item.removes THEN 0 ELSE item.row) \in Nat
      BY <1>4
    <3>2. shown' \in [Thread -> Nat]
      BY <1>3, <1>5, <3>1 DEF ListTyped
    <3>3. removed' \in [Thread -> BOOLEAN]
      BY <1>3, <1>4, <1>5 DEF ListTyped
    <3> QED  BY <3>2, <3>3
  <2>2. \A t \in Thread :
          IF t = item.thread
          THEN /\ shown'[t] = IF item.removes THEN 0 ELSE item.row
               /\ removed'[t] = item.removes
          ELSE shown'[t] = shown[t] /\ removed'[t] = removed[t]
    BY <1>3, <1>4, <1>5 DEF ListTyped
  <2>3. lastApplied' \in Applied /\ lastApplied'.sequence = item.sequence
    <3>1. lastApplied \in Applied
      BY DEF ListTyped
    <3>2. lastApplied' = [lastApplied EXCEPT !.sequence = item.sequence]
      BY <1>3, <1>5
    <3> QED  BY <1>4, <3>1, <3>2 DEF Applied
  <2> QED  BY <1>1, <1>2, <1>5, <2>1, <2>2, <2>3 DEF item
<1>6. CASE item.sequence <= lastApplied.sequence
  <2>1. ~(item.sequence > lastApplied.sequence)
    BY <1>4, <1>6, ListState
  <2> QED  BY <1>1, <1>2, <1>3, <1>6, <2>1 DEF item
<1> QED  BY <1>4, <1>5, <1>6, ListState

-----------------------------------------------------------------------------
(* Each action keeps the invariant.                                        *)
LEMMA CommitKeeps ==
  ASSUME ListInv, NEW t \in Thread, NEW deleted \in BOOLEAN, NEW time \in Time,
         List!Commit(t, deleted, time)
  PROVE  ListInv'
<1> DEFINE n == Len(log) + 1
<1> USE CommitDoes
<1>a. /\ ListTyped /\ WithinLog /\ RowsFollowLog /\ SentInOrder /\ OnlyLive
      /\ ItemsAreRows /\ SnapshotIsRows /\ NothingSkipped /\ ShownIsApplied
  BY DEF ListInv
<1>b. /\ Len(log) \in Nat /\ Len(log') = n
      /\ UNCHANGED << published, shellStage, snapshot, inbox, wire, shown, removed,
                      lastApplied, missed, drops, faults >>
  BY <1>a, ListState
<1>c. /\ \A i \in 1..Len(log) : log'[i] = log[i]
      /\ log'[n].thread = t /\ log'[n].deleted = deleted
  BY <1>a
<1>d. /\ version'[t] = n /\ deletedAt'[t] = IF deleted THEN n ELSE deletedAt[t]
      /\ \A u \in Thread : u # t => version'[u] = version[u] /\ deletedAt'[u] = deletedAt[u]
      /\ deleted => version[t] > 0
  BY <1>a
<1>e. \A u \in Thread : /\ version[u] \in Nat /\ version[u] <= Len(log)
                        /\ deletedAt[u] \in Nat /\ deletedAt[u] <= version[u]
  BY <1>a DEF ListTyped, WithinLog
<1>f. \A u \in Thread : /\ version[u] <= version'[u] /\ version'[u] <= n
                        /\ version'[u] \in Nat /\ deletedAt'[u] \in Nat
                        /\ deletedAt'[u] <= version'[u]
                        /\ deletedAt[u] <= deletedAt'[u]
                        /\ deletedAt'[u] = deletedAt[u] \/ deletedAt'[u] = n
  BY <1>b, <1>d, <1>e
<1>1. ListTyped'
  BY <1>a DEF ListTyped
<1>2. WithinLog'
  <2>1. ASSUME NEW k \in 1..Len(wire)  PROVE wire[k].row <= version'[wire[k].thread]
    <3>1. wire[k].thread \in Thread /\ wire[k].row \in 0..version[wire[k].thread]
      BY <1>a, ListState, ListRange
    <3> QED  BY <1>e, <1>f, <3>1
  <2>2. /\ published <= n /\ snapshot.sequence <= n /\ lastApplied.sequence <= n
        /\ \A i \in missed : i <= n
    BY <1>a, <1>b, ListRange
  <2>3. \A u \in Thread : deletedAt'[u] <= version'[u] /\ version'[u] <= n
    BY <1>f
  <2>4. ASSUME NEW u \in Thread  PROVE snapshot.rows[u] <= version'[u]
    <3>1. snapshot.rows[u] \in Nat /\ snapshot.rows[u] <= version[u]
      BY <1>a, ListState DEF WithinLog
    <3> QED  BY <1>e, <1>f, <3>1
  <2> QED  BY <1>a, <1>b, <2>1, <2>2, <2>3, <2>4 DEF WithinLog
<1>3. \A i \in 1..n, u \in Thread :
         Deletes(i, u)' <=> IF i = n THEN u = t /\ deleted ELSE Deletes(i, u)
  BY <1>b, <1>c DEF Deletes
<1>4. ASSUME NEW u \in Thread, NEW m \in Int, m <= Len(log)
      PROVE  DeletedBy(m, u)' <=> DeletedBy(m, u)
  <2>1. \A i \in 1..n : i <= m => i \in 1..Len(log) /\ i # n
    BY <1>b, <1>4
  <2>2. \A i \in 1..Len(log) : i \in 1..n
    BY <1>b
  <2> QED  BY <1>3, <1>b, <2>1, <2>2 DEF DeletedBy
<1>5. RowsFollowLog'
  <2>1. ASSUME NEW u \in Thread, NEW i \in 1..n, log'[i].thread = u  PROVE i <= version'[u]
    <3>1. CASE i = n  BY <1>b, <1>c, <1>d, <2>1, <3>1
    <3>2. CASE i \in 1..Len(log)
      <4>1. log[i].thread = u
        BY <1>c, <2>1, <3>2
      <4>2. i <= version[u]
        BY <1>a, <3>2, <4>1 DEF RowsFollowLog
      <4> QED  BY <1>e, <1>f, <4>2
    <3> QED  BY <1>b, <3>1, <3>2
  <2>2. ASSUME NEW u \in Thread, NEW i \in 1..n, Deletes(i, u)'  PROVE i <= deletedAt'[u]
    <3>1. CASE i = n  BY <1>b, <1>3, <1>d, <2>2, <3>1
    <3>2. CASE i # n
      <4>1. i \in 1..Len(log) /\ Deletes(i, u)
        BY <1>b, <1>3, <2>2, <3>2
      <4>2. i <= deletedAt[u]
        BY <1>a, <4>1 DEF RowsFollowLog
      <4> QED  BY <1>e, <1>f, <4>2
    <3> QED  BY <3>1, <3>2
  <2>3. ASSUME NEW u \in Thread, deletedAt'[u] > 0  PROVE Deletes(deletedAt[u], u)'
    <3>1. CASE deletedAt'[u] = n
      <4>1. u = t /\ deleted
        BY <1>b, <1>d, <1>e, <3>1
      <4> QED  BY <1>c, <3>1, <4>1 DEF Deletes
    <3>2. CASE deletedAt'[u] = deletedAt[u]
      <4>1. deletedAt[u] \in 1..Len(log) /\ Deletes(deletedAt[u], u)
        BY <1>a, <1>b, <1>e, <2>3, <3>2 DEF RowsFollowLog
      <4> QED  BY <1>c, <3>2, <4>1 DEF Deletes
    <3> QED  BY <1>f, <3>1, <3>2
  <2>4. \A u \in Thread :
          /\ \A i \in 1..n : log'[i].thread = u => i <= version'[u]
          /\ \A i \in 1..n : Deletes(i, u)' => i <= deletedAt'[u]
          /\ deletedAt'[u] > 0 => Deletes(deletedAt[u], u)'
    BY <2>1, <2>2, <2>3
  <2> QED  BY <1>b, <2>4 DEF RowsFollowLog
<1>6. SentInOrder' /\ OnlyLive'
  BY <1>a, <1>b DEF SentInOrder, OnlyLive
<1>7. ItemsAreRows'
  <2> SUFFICES ASSUME NEW k \in 1..Len(wire)
               PROVE  /\ wire[k].thread = log'[wire[k].sequence].thread
                      /\ wire[k].removes = log'[wire[k].sequence].deleted
                      /\ ~wire[k].removes =>
                           \A i \in 1..n : Deletes(i, wire[k].thread)' => wire[k].row < i
    BY <1>a, <1>b DEF ItemsAreRows
  <2>1. /\ wire[k].sequence \in 1..Len(log) /\ wire[k].thread \in Thread /\ wire[k].row \in Nat
        /\ wire[k].row <= Len(log)
    <3>1. wire[k].sequence \in 1..Len(log) /\ wire[k].row \in 0..Len(log)
      BY <1>a, ListRange
    <3>2. wire[k].thread \in Thread /\ wire[k].row \in Nat
      BY <1>a, ListState
    <3> QED  BY <1>b, <3>1, <3>2
  <2>2. log'[wire[k].sequence] = log[wire[k].sequence]
    BY <1>c, <2>1
  <2>3. ASSUME ~wire[k].removes, NEW i \in 1..n, Deletes(i, wire[k].thread)'
        PROVE  wire[k].row < i
    <3>1. CASE i = n  BY <1>b, <2>1, <3>1
    <3>2. CASE i # n
      <4>1. i \in 1..Len(log) /\ Deletes(i, wire[k].thread)
        BY <1>b, <1>3, <2>1, <2>3, <3>2
      <4> QED  BY <1>a, <2>3, <4>1 DEF ItemsAreRows
    <3> QED  BY <3>1, <3>2
  <2> QED  BY <1>a, <2>2, <2>3 DEF ItemsAreRows
<1>8. SnapshotIsRows'
  <2>1. snapshot.sequence \in Int /\ snapshot.sequence <= Len(log)
    BY <1>a, ListState DEF WithinLog
  <2>2. \A u \in Thread : DeletedBy(snapshot.sequence, u)' <=> DeletedBy(snapshot.sequence, u)
    BY <1>4, <1>b, <2>1 DEF DeletedBy
  <2>3. ASSUME shellStage = "snapshot", NEW u \in Thread, deletedAt'[u] = 0,
               NEW i \in 1..n, i <= snapshot.sequence, log'[i].thread = u
        PROVE  i <= snapshot.rows[u]
    <3>1. i \in 1..Len(log) /\ log[i].thread = u
      BY <1>b, <1>c, <2>1, <2>3
    <3>2. deletedAt[u] = 0
      BY <1>e, <1>f, <2>3
    <3> QED  BY <1>a, <2>3, <3>1, <3>2 DEF SnapshotIsRows
  <2> QED  BY <1>a, <1>b, <2>2, <2>3 DEF SnapshotIsRows
<1>9. NothingSkipped'
  <2>1. ASSUME NEW i \in 1..published, Reaches(i)  PROVE Reaches(i)'
    <3>0. i \in 1..Len(log)
      BY <1>a, <1>b, ListRange
    <3>1. i \in 1..Len(log) /\ log[i].thread \in Thread
      BY <1>a, <3>0, ListState
    <3>2. log'[i] = log[i] /\ (deletedAt[log[i].thread] > 0 => deletedAt'[log[i].thread] > 0)
      BY <1>c, <1>e, <1>f, <3>1
    <3> QED  BY <1>b, <2>1, <3>2 DEF Reaches
  <2> QED  BY <1>a, <1>b, <2>1 DEF NothingSkipped
<1>10. ShownIsApplied'
  <2>1. lastApplied.sequence \in Int /\ lastApplied.sequence <= Len(log)
    BY <1>a, ListState DEF WithinLog
  <2>2. \A u \in Thread : DeletedBy(lastApplied.sequence, u)' <=> DeletedBy(lastApplied.sequence, u)
    BY <1>4, <1>b, <2>1 DEF DeletedBy
  <2> SUFFICES ASSUME NEW u \in Thread
               PROVE  /\ shown[u] <= version'[u]
                      /\ deletedAt'[u] > 0 /\ deletedAt'[u] <= lastApplied.sequence
                         /\ deletedAt'[u] \notin missed => shown[u] = 0
                      /\ deletedAt'[u] = 0 =>
                           \A i \in 1..n : log'[i].thread = u /\ i <= lastApplied.sequence
                                           /\ i \notin missed => i <= shown[u]
                      /\ removed[u] => DeletedBy(lastApplied.sequence, u)
    BY <1>b, <2>2 DEF ShownIsApplied
  <2>3. shown[u] <= version'[u]
    <3>1. shown[u] \in Nat /\ shown[u] <= version[u]
      BY <1>a DEF ListTyped, ShownIsApplied
    <3> QED  BY <1>e, <1>f, <3>1
  <2>4. deletedAt'[u] <= lastApplied.sequence => deletedAt'[u] = deletedAt[u]
    BY <1>b, <1>f, <2>1
  <2>5. ASSUME deletedAt'[u] = 0, NEW i \in 1..n, log'[i].thread = u,
               i <= lastApplied.sequence, i \notin missed
        PROVE  i <= shown[u]
    <3>1. i \in 1..Len(log) /\ log[i].thread = u
      BY <1>b, <1>c, <2>1, <2>5
    <3>2. deletedAt[u] = 0
      BY <1>e, <1>f, <2>5
    <3> QED  BY <1>a, <2>5, <3>1, <3>2 DEF ShownIsApplied
  <2> QED  BY <1>a, <2>3, <2>4, <2>5 DEF ShownIsApplied
<1> QED  BY <1>1, <1>2, <1>5, <1>6, <1>7, <1>8, <1>9, <1>10 DEF ListInv

LEMMA PublishKeeps == ASSUME ListInv, List!Publish  PROVE ListInv'
<1>a. /\ ListTyped /\ WithinLog /\ RowsFollowLog /\ SentInOrder /\ OnlyLive
      /\ ItemsAreRows /\ SnapshotIsRows /\ NothingSkipped /\ ShownIsApplied
  BY DEF ListInv
<1>p. PICK p \in Nat : p = published + 1
  BY <1>a DEF ListTyped
<1>b. /\ published < Len(log) /\ published' = p
      /\ inbox' = IF shellStage = "live" THEN Append(inbox, p) ELSE inbox
      /\ missed' = IF shellStage = "snapshot" /\ p > snapshot.sequence
                   THEN missed \cup {p} ELSE missed
      /\ UNCHANGED << log, version, deletedAt, shellStage, snapshot, wire, shown, removed,
                      lastApplied, drops, faults >>
  BY <1>p DEF List!Publish, List!client
<1>c. published \in Nat /\ p \in Nat \ {0} /\ p \in 1..Len(log) /\ Len(log) \in Nat
  BY <1>a, <1>b, <1>p, ListRange, ListState
<1>d. /\ inbox' \in Seq(Nat) /\ Len(inbox) \in Nat /\ Len(inbox') \in Nat
      /\ Len(inbox) <= Len(inbox') /\ Len(inbox') <= Len(inbox) + 1
      /\ \A k \in 1..Len(inbox) : inbox'[k] = inbox[k]
      /\ Len(inbox') = Len(inbox) + 1 => inbox'[Len(inbox) + 1] = p
      /\ shellStage = "live" => Len(inbox') = Len(inbox) + 1
      /\ shellStage # "live" => inbox' = inbox
  <2>1. inbox \in Seq(Nat) /\ Len(inbox) \in Nat
    BY <1>a, ListState DEF ListTyped
  <2>2. /\ Append(inbox, p) \in Seq(Nat) /\ Len(Append(inbox, p)) = Len(inbox) + 1
        /\ Append(inbox, p)[Len(inbox) + 1] = p
        /\ \A k \in 1..Len(inbox) : Append(inbox, p)[k] = inbox[k]
    BY <1>c, <2>1, AppendAt
  <2>3. CASE shellStage = "live"  BY <1>b, <2>1, <2>2, <2>3
  <2>4. CASE shellStage # "live"  BY <1>b, <2>1, <2>4
  <2> QED  BY <2>3, <2>4
<1>e. missed \subseteq missed' /\ missed' \subseteq missed \cup {p}
  BY <1>b
<1>f. /\ \A k \in 1..Len(inbox) : inbox[k] \in 1..published
      /\ \A k \in 1..Len(wire) : wire[k].sequence \in 1..published
      /\ published < p
  BY <1>a, <1>c, <1>p, ListRange
<1>g. \A k \in 1..Len(inbox') : k \in 1..Len(inbox) \/ inbox'[k] = p
  BY <1>d
<1>1. ListTyped'
  <2>1. missed' \in SUBSET Nat
    BY <1>a, <1>c, <1>e DEF ListTyped
  <2> QED  BY <1>a, <1>b, <1>c, <1>d, <2>1 DEF ListTyped
<1>2. WithinLog'
  <2>1. ASSUME NEW k \in 1..Len(inbox')  PROVE 1 <= inbox'[k] /\ inbox'[k] <= p
    <3>1. CASE k \in 1..Len(inbox)
      <4>1. inbox'[k] \in 1..published
        BY <1>d, <1>f, <3>1
      <4> QED  BY <1>c, <1>f, <4>1
    <3>2. CASE inbox'[k] = p  BY <1>c, <3>2
    <3> QED  BY <1>g, <3>1, <3>2
  <2>2. \A k \in 1..Len(wire) : 1 <= wire[k].sequence /\ wire[k].sequence <= p
    BY <1>c, <1>f
  <2>3. \A i \in missed' : 1 <= i /\ i <= Len(log)
    BY <1>a, <1>c, <1>e DEF WithinLog
  <2>4. p <= Len(log)
    BY <1>c
  <2> QED  BY <1>a, <1>b, <2>1, <2>2, <2>3, <2>4 DEF WithinLog
<1>3. RowsFollowLog' /\ OnlyLive' /\ ItemsAreRows' /\ SnapshotIsRows'
  <2>1. RowsFollowLog'
    BY <1>a, <1>b DEF RowsFollowLog, Deletes
  <2>2. OnlyLive'
    BY <1>a, <1>b, <1>d DEF OnlyLive
  <2>3. ItemsAreRows'
    BY <1>a, <1>b DEF ItemsAreRows, Deletes
  <2>4. SnapshotIsRows'
    BY <1>a, <1>b DEF SnapshotIsRows, Deletes, DeletedBy
  <2> QED  BY <2>1, <2>2, <2>3, <2>4
<1>4. SentInOrder'
  <2>1. ASSUME NEW k \in 1..Len(inbox'), NEW l \in 1..Len(inbox'), k < l
        PROVE  inbox'[k] < inbox'[l]
    <3>1. k \in 1..Len(inbox)
      BY <1>d, <2>1
    <3>2. CASE l \in 1..Len(inbox)
      <4>1. inbox[k] < inbox[l]
        BY <1>a, <2>1, <3>1, <3>2 DEF SentInOrder
      <4> QED  BY <1>d, <3>1, <3>2, <4>1
    <3>3. CASE inbox'[l] = p
      <4>1. inbox'[k] \in 1..published
        BY <1>d, <1>f, <3>1
      <4> QED  BY <1>c, <1>f, <3>3, <4>1
    <3> QED  BY <1>g, <3>2, <3>3
  <2>2. ASSUME NEW k \in 1..Len(wire), NEW l \in 1..Len(inbox')
        PROVE  wire[k].sequence < inbox'[l]
    <3>1. CASE l \in 1..Len(inbox)
      <4>1. wire[k].sequence < inbox[l]
        BY <1>a, <3>1 DEF SentInOrder
      <4> QED  BY <1>d, <3>1, <4>1
    <3>2. CASE inbox'[l] = p  BY <1>c, <1>f, <3>2
    <3> QED  BY <1>g, <3>1, <3>2
  <2>3. \A k, l \in 1..Len(wire) : k < l => wire[k].sequence < wire[l].sequence
    BY <1>a DEF SentInOrder
  <2> QED  BY <1>b, <2>1, <2>2, <2>3 DEF SentInOrder
<1>5. NothingSkipped'
  <2>1. ASSUME NEW i, Reaches(i)  PROVE Reaches(i)'
    <3>1. \A k \in 1..Len(inbox) : k \in 1..Len(inbox') /\ inbox'[k] = inbox[k]
      BY <1>d
    <3> QED  BY <1>b, <1>e, <2>1, <3>1 DEF Reaches
  <2>2. \A i \in 1..p : i = p \/ i \in 1..published
    BY <1>c, <1>p
  <2>3. ASSUME shellStage = "live"  PROVE Reaches(p)'
    <3>1. Len(inbox) + 1 \in 1..Len(inbox') /\ inbox'[Len(inbox) + 1] = p
      BY <1>d, <2>3
    <3>2. \E k \in 1..Len(inbox') : inbox'[k] = p
      BY <3>1
    <3> QED  BY <1>b, <3>2 DEF Reaches
  <2>4. ASSUME shellStage = "live", NEW i \in 1..p, lastApplied.sequence < i  PROVE Reaches(i)'
    <3>1. CASE i = p  BY <2>3, <2>4, <3>1
    <3>2. CASE i \in 1..published  BY <1>a, <2>1, <2>4, <3>2 DEF NothingSkipped
    <3> QED  BY <2>2, <3>1, <3>2
  <2>5. ASSUME shellStage = "snapshot", NEW i \in 1..p, snapshot.sequence < i  PROVE i \in missed'
    <3>1. CASE i = p
      <4>1. p > snapshot.sequence
        BY <1>a, <1>c, <2>5, <3>1, ListState
      <4> QED  BY <1>b, <2>5, <3>1, <4>1
    <3>2. CASE i \in 1..published  BY <1>a, <1>e, <2>5, <3>2 DEF NothingSkipped
    <3> QED  BY <2>2, <3>1, <3>2
  <2> QED  BY <1>b, <2>4, <2>5 DEF NothingSkipped
<1>6. ShownIsApplied'
  BY <1>a, <1>b, <1>e DEF ShownIsApplied, DeletedBy, Deletes
<1> QED  BY <1>1, <1>2, <1>3, <1>4, <1>5, <1>6 DEF ListInv

LEMMA SubscribeKeeps == ASSUME ListBounds, ListInv, List!Subscribe  PROVE ListInv'
<1>a. /\ ListTyped /\ WithinLog /\ RowsFollowLog /\ SentInOrder /\ OnlyLive
      /\ ItemsAreRows /\ SnapshotIsRows /\ NothingSkipped /\ ShownIsApplied
  BY DEF ListInv
<1>b. /\ shellStage = "none" /\ shellStage' = "snapshot"
      /\ snapshot' \in ListSnapshot /\ snapshot'.sequence = Len(log)
      /\ \A t \in Thread : snapshot'.rows[t] = IF deletedAt[t] = 0 THEN version[t] ELSE 0
      /\ UNCHANGED << log, version, deletedAt, published, inbox, wire, shown, removed,
                      lastApplied, missed, drops, faults >>
  BY <1>a, SubscribeDoes
<1>c. /\ Len(log) \in Nat /\ published \in 0..Len(log)
      /\ \A t \in Thread : /\ version[t] \in 0..Len(log) /\ deletedAt[t] \in 0..version[t]
                           /\ shown[t] \in Nat /\ shown[t] <= version[t]
  BY <1>a, ListState, ListRange DEF ListTyped, ShownIsApplied
<1>1. ListTyped'
  BY <1>a, <1>b DEF ListTyped
<1>2. WithinLog'
  <2>1. \A t \in Thread : snapshot'.rows[t] <= version[t]
    BY <1>b, <1>c
  <2>2. snapshot'.sequence <= Len(log)
    BY <1>b, <1>c
  <2> QED  BY <1>a, <1>b, <2>1, <2>2 DEF WithinLog
<1>3. RowsFollowLog' /\ SentInOrder' /\ OnlyLive' /\ ItemsAreRows' /\ ShownIsApplied'
  <2>1. RowsFollowLog' /\ SentInOrder' /\ OnlyLive'
    BY <1>a, <1>b DEF RowsFollowLog, Deletes, SentInOrder, OnlyLive
  <2>2. ItemsAreRows'
    BY <1>a, <1>b DEF ItemsAreRows, Deletes
  <2>3. ShownIsApplied'
    BY <1>a, <1>b DEF ShownIsApplied, DeletedBy, Deletes
  <2> QED  BY <2>1, <2>2, <2>3
<1>4. SnapshotIsRows'
  <2> SUFFICES ASSUME NEW t \in Thread
               PROVE  /\ DeletedBy(Len(log), t) => snapshot'.rows[t] = 0
                      /\ deletedAt[t] = 0 =>
                           \A i \in 1..Len(log) :
                             i <= Len(log) /\ log[i].thread = t => i <= snapshot'.rows[t]
                      /\ snapshot'.rows[t] > 0 => shown[t] <= snapshot'.rows[t]
                      /\ snapshot'.rows[t] = 0 /\ shown[t] > 0 => DeletedBy(Len(log), t)
    BY <1>b DEF SnapshotIsRows, DeletedBy, Deletes
  <2>1. CASE deletedAt[t] = 0
    <3>1. snapshot'.rows[t] = version[t]
      BY <1>b, <2>1
    <3>2. ~DeletedBy(Len(log), t)
      BY <1>a, <2>1 DEF RowsFollowLog, DeletedBy
    <3>3. \A i \in 1..Len(log) : log[i].thread = t => i <= version[t]
      BY <1>a DEF RowsFollowLog
    <3>4. shown[t] > 0 => version[t] > 0
      BY <1>c
    <3> QED  BY <1>c, <3>1, <3>2, <3>3, <3>4
  <2>2. CASE deletedAt[t] # 0
    <3>1. snapshot'.rows[t] = 0
      BY <1>b, <2>2
    <3>2. deletedAt[t] \in 1..Len(log) /\ Deletes(deletedAt[t], t)
      BY <1>a, <1>c, <2>2 DEF RowsFollowLog
    <3>3. DeletedBy(Len(log), t)
      BY <3>2 DEF DeletedBy
    <3> QED  BY <2>2, <3>1, <3>3
  <2> QED  BY <2>1, <2>2
<1>5. NothingSkipped'
  <2>1. \A i \in 1..published : ~(Len(log) < i)
    BY <1>c
  <2> QED  BY <1>b, <2>1 DEF NothingSkipped
<1> QED  BY <1>1, <1>2, <1>3, <1>4, <1>5 DEF ListInv

LEMMA SubscribeFailsKeeps == ASSUME ListBounds, ListInv, List!SubscribeFails  PROVE ListInv'
<1>a. /\ ListTyped /\ WithinLog /\ RowsFollowLog /\ SentInOrder /\ OnlyLive
      /\ ItemsAreRows /\ SnapshotIsRows /\ NothingSkipped /\ ShownIsApplied
  BY DEF ListInv
<1>b. /\ shellStage = "none" /\ shellStage' = "ended" /\ faults' = faults + 1 /\ faults < MaxFaults
      /\ UNCHANGED << log, version, deletedAt, published, snapshot, inbox, wire, shown, removed,
                      lastApplied, missed, drops >>
  BY DEF List!SubscribeFails, List!server, List!client
<1>1. ListTyped'
  <2>1. faults' \in 0..MaxFaults
    <3>1. faults \in 0..MaxFaults /\ MaxFaults \in Nat
      BY <1>a DEF ListTyped, ListBounds
    <3> QED  BY <1>b, <3>1
  <2> QED  BY <1>a, <1>b, <2>1 DEF ListTyped
<1>2. WithinLog' /\ RowsFollowLog' /\ SentInOrder'
  BY <1>a, <1>b DEF WithinLog, RowsFollowLog, Deletes, SentInOrder
<1>3. OnlyLive' /\ SnapshotIsRows' /\ NothingSkipped'
  BY <1>a, <1>b DEF OnlyLive, SnapshotIsRows, NothingSkipped
<1>4. ItemsAreRows'
  BY <1>a, <1>b DEF ItemsAreRows, Deletes
<1>5. ShownIsApplied'
  BY <1>a, <1>b DEF ShownIsApplied, DeletedBy, Deletes
<1> QED  BY <1>1, <1>2, <1>3, <1>4, <1>5 DEF ListInv

(* The first event of the inbox goes; what is left keeps its order.        *)
LEMMA InboxTail ==
  ASSUME ListTyped, WithinLog, SentInOrder, inbox # << >>, inbox' = Tail(inbox)
  PROVE  /\ inbox' \in Seq(Nat) /\ Len(inbox') \in Nat /\ inbox[1] \in 1..published
         /\ inbox[1] \in 1..Len(log) /\ inbox[1] \in Nat /\ 1 \in 1..Len(inbox)
         /\ \A k \in 1..Len(inbox') :
              /\ k + 1 \in 1..Len(inbox) /\ inbox'[k] = inbox[k + 1] /\ inbox[1] < inbox'[k]
              /\ inbox'[k] \in Nat
         /\ \A k, l \in 1..Len(inbox') : k < l => inbox'[k] < inbox'[l]
         /\ \A k \in 2..Len(inbox) : k - 1 \in 1..Len(inbox') /\ inbox'[k - 1] = inbox[k]
<1>1. /\ inbox' \in Seq(Nat) /\ Len(inbox) \in Nat \ {0} /\ Len(inbox') = Len(inbox) - 1
      /\ \A k \in 1..Len(inbox') : inbox'[k] = inbox[k + 1]
  BY TailAt DEF ListTyped
<1>2. 1 \in 1..Len(inbox) /\ Len(inbox') \in Nat
  BY <1>1
<1>3. inbox[1] \in 1..published /\ inbox[1] \in 1..Len(log) /\ inbox[1] \in Nat
  BY <1>2, ListRange, ListState
<1>4. \A k \in 1..Len(inbox') : k + 1 \in 1..Len(inbox) /\ 1 < k + 1
  BY <1>1
<1>5. \A k \in 1..Len(inbox') : inbox[1] < inbox'[k] /\ inbox'[k] \in Nat
  BY <1>1, <1>2, <1>4, ListState DEF SentInOrder
<1>6. ASSUME NEW k \in 1..Len(inbox'), NEW l \in 1..Len(inbox'), k < l
      PROVE  inbox'[k] < inbox'[l]
  <2>1. k + 1 < l + 1
    BY <1>6
  <2> QED  BY <1>1, <1>4, <2>1 DEF SentInOrder
<1>7. ASSUME NEW k \in 2..Len(inbox)
      PROVE  k - 1 \in 1..Len(inbox') /\ inbox'[k - 1] = inbox[k]
  <2>1. k - 1 \in 1..Len(inbox') /\ (k - 1) + 1 = k
    BY <1>1
  <2> QED  BY <1>1, <2>1
<1> QED  BY <1>1, <1>2, <1>3, <1>4, <1>5, <1>6, <1>7

LEMMA DeliverFailsKeeps == ASSUME ListBounds, ListInv, List!DeliverFails  PROVE ListInv'
<1>a. /\ ListTyped /\ WithinLog /\ RowsFollowLog /\ SentInOrder /\ OnlyLive
      /\ ItemsAreRows /\ SnapshotIsRows /\ NothingSkipped /\ ShownIsApplied
  BY DEF ListInv
<1>b. /\ inbox # << >> /\ inbox' = Tail(inbox) /\ missed' = missed \cup {Head(inbox)}
      /\ faults' = faults + 1 /\ faults < MaxFaults
      /\ UNCHANGED << log, version, deletedAt, published, shellStage, snapshot, wire, shown,
                      removed, lastApplied, drops >>
  BY DEF List!DeliverFails, List!server, List!client
<1>c. /\ inbox' \in Seq(Nat) /\ Len(inbox') \in Nat /\ inbox[1] \in 1..published
      /\ inbox[1] \in 1..Len(log) /\ inbox[1] \in Nat /\ 1 \in 1..Len(inbox)
      /\ \A k \in 1..Len(inbox') :
           /\ k + 1 \in 1..Len(inbox) /\ inbox'[k] = inbox[k + 1] /\ inbox[1] < inbox'[k]
           /\ inbox'[k] \in Nat
      /\ \A k, l \in 1..Len(inbox') : k < l => inbox'[k] < inbox'[l]
      /\ \A k \in 2..Len(inbox) : k - 1 \in 1..Len(inbox') /\ inbox'[k - 1] = inbox[k]
  BY <1>a, <1>b, InboxTail
<1>d. missed' = missed \cup {inbox[1]}
  BY <1>a, <1>b, TailAt DEF ListTyped
<1>1. ListTyped'
  <2>1. faults' \in 0..MaxFaults
    <3>1. faults \in 0..MaxFaults /\ MaxFaults \in Nat
      BY <1>a DEF ListTyped, ListBounds
    <3> QED  BY <1>b, <3>1
  <2>2. missed' \in SUBSET Nat
    BY <1>a, <1>c, <1>d DEF ListTyped
  <2> QED  BY <1>a, <1>b, <1>c, <2>1, <2>2 DEF ListTyped
<1>2. WithinLog'
  <2>1. \A k \in 1..Len(inbox') : 1 <= inbox'[k] /\ inbox'[k] <= published
    BY <1>a, <1>c DEF WithinLog
  <2>2. \A i \in missed' : 1 <= i /\ i <= Len(log)
    BY <1>a, <1>c, <1>d DEF WithinLog
  <2> QED  BY <1>a, <1>b, <2>1, <2>2 DEF WithinLog
<1>3. RowsFollowLog' /\ OnlyLive' /\ ItemsAreRows' /\ SnapshotIsRows'
  <2>1. RowsFollowLog'
    BY <1>a, <1>b DEF RowsFollowLog, Deletes
  <2>2. OnlyLive'
    BY <1>a, <1>b DEF OnlyLive
  <2>3. ItemsAreRows'
    BY <1>a, <1>b DEF ItemsAreRows, Deletes
  <2>4. SnapshotIsRows'
    BY <1>a, <1>b DEF SnapshotIsRows, Deletes, DeletedBy
  <2> QED  BY <2>1, <2>2, <2>3, <2>4
<1>4. SentInOrder'
  <2>1. \A k \in 1..Len(wire), l \in 1..Len(inbox') : wire[k].sequence < inbox'[l]
    BY <1>a, <1>c DEF SentInOrder
  <2>2. \A k, l \in 1..Len(wire) : k < l => wire[k].sequence < wire[l].sequence
    BY <1>a DEF SentInOrder
  <2> QED  BY <1>b, <1>c, <2>1, <2>2 DEF SentInOrder
<1>5. NothingSkipped'
  <2>1. ASSUME NEW i, Reaches(i)  PROVE Reaches(i)'
    <3>1. ASSUME NEW k \in 1..Len(inbox), inbox[k] = i
          PROVE  i \in missed' \/ \E l \in 1..Len(inbox') : inbox'[l] = i
      <4>1. CASE k = 1  BY <1>d, <3>1, <4>1
      <4>2. CASE k \in 2..Len(inbox)
        <5>1. k - 1 \in 1..Len(inbox') /\ inbox'[k - 1] = i
          BY <1>c, <3>1, <4>2
        <5> QED  BY <5>1
      <4>3. k = 1 \/ k \in 2..Len(inbox)
        OBVIOUS
      <4> QED  BY <4>1, <4>2, <4>3
    <3> QED  BY <1>b, <1>d, <2>1, <3>1 DEF Reaches
  <2> QED  BY <1>a, <1>b, <1>d, <2>1 DEF NothingSkipped
<1>6. ShownIsApplied'
  BY <1>a, <1>b, <1>d DEF ShownIsApplied, DeletedBy, Deletes
<1> QED  BY <1>1, <1>2, <1>3, <1>4, <1>5, <1>6 DEF ListInv

LEMMA BreakKeeps ==
  ASSUME ListBounds, ListInv, NEW stops \in BOOLEAN, List!Break(stops)
  PROVE  ListInv'
<1>a. /\ ListTyped /\ WithinLog /\ RowsFollowLog /\ SentInOrder /\ OnlyLive
      /\ ItemsAreRows /\ SnapshotIsRows /\ NothingSkipped /\ ShownIsApplied
  BY DEF ListInv
<1>b. /\ drops < MaxDrops /\ drops' = drops + 1 /\ shellStage' = "none"
      /\ inbox' = << >> /\ wire' = << >>
      /\ published' = IF stops THEN Len(log) ELSE published
      /\ UNCHANGED << log, version, deletedAt, snapshot, shown, removed, lastApplied,
                      missed, faults >>
  BY DEF List!Break, List!client
<1>c. Len(inbox') = 0 /\ Len(wire') = 0 /\ inbox' \in Seq(Nat) /\ wire' \in Seq(ListItem)
  BY <1>b, EmptySeq
<1>d. published' \in Nat /\ published' <= Len(log)
  BY <1>a, <1>b, ListState, ListRange
<1>e. \A k \in 1..0 : FALSE
  OBVIOUS
<1>1. ListTyped'
  <2>1. drops' \in 0..MaxDrops
    <3>1. drops \in 0..MaxDrops /\ MaxDrops \in Nat
      BY <1>a DEF ListTyped, ListBounds
    <3> QED  BY <1>b, <3>1
  <2> QED  BY <1>a, <1>b, <1>c, <1>d, <2>1 DEF ListTyped
<1>2. WithinLog'
  BY <1>a, <1>b, <1>c, <1>d, <1>e DEF WithinLog
<1>3. RowsFollowLog' /\ SentInOrder' /\ OnlyLive' /\ ItemsAreRows'
  <2>1. RowsFollowLog'
    BY <1>a, <1>b DEF RowsFollowLog, Deletes
  <2>2. SentInOrder' /\ OnlyLive' /\ ItemsAreRows'
    BY <1>b, <1>c, <1>e DEF SentInOrder, OnlyLive, ItemsAreRows
  <2> QED  BY <2>1, <2>2
<1>4. SnapshotIsRows' /\ NothingSkipped'
  BY <1>b DEF SnapshotIsRows, NothingSkipped
<1>5. ShownIsApplied'
  BY <1>a, <1>b DEF ShownIsApplied, DeletedBy, Deletes
<1> QED  BY <1>1, <1>2, <1>3, <1>4, <1>5 DEF ListInv

(* An event that is delivered becomes the last item, unless its thread is  *)
(* deleted.                                                                *)
LEMMA DeliverKeeps == ASSUME ListInv, List!Deliver  PROVE ListInv'
<1>a. /\ ListTyped /\ WithinLog /\ RowsFollowLog /\ SentInOrder /\ OnlyLive
      /\ ItemsAreRows /\ SnapshotIsRows /\ NothingSkipped /\ ShownIsApplied
  BY DEF ListInv
<1>b. /\ inbox # << >> /\ inbox' = Tail(inbox)
      /\ UNCHANGED << log, version, deletedAt, published, shellStage, snapshot, shown, removed,
                      lastApplied, missed, drops, faults >>
  BY <1>a, DeliverDoes
<1>c. /\ inbox' \in Seq(Nat) /\ Len(inbox') \in Nat /\ inbox[1] \in 1..published
      /\ inbox[1] \in 1..Len(log) /\ inbox[1] \in Nat /\ 1 \in 1..Len(inbox)
      /\ \A k \in 1..Len(inbox') :
           /\ k + 1 \in 1..Len(inbox) /\ inbox'[k] = inbox[k + 1] /\ inbox[1] < inbox'[k]
           /\ inbox'[k] \in Nat
      /\ \A k, l \in 1..Len(inbox') : k < l => inbox'[k] < inbox'[l]
      /\ \A k \in 2..Len(inbox) : k - 1 \in 1..Len(inbox') /\ inbox'[k - 1] = inbox[k]
  BY <1>a, <1>b, InboxTail
<1>d. PICK item \in ListItem :
        /\ item.sequence = inbox[1] /\ item.thread = log[inbox[1]].thread
        /\ item.removes = log[inbox[1]].deleted
        /\ item.row <= version[item.thread]
        /\ IF item.removes THEN wire' = Append(wire, item)
           ELSE IF deletedAt[item.thread] > 0 THEN wire' = wire
           ELSE wire' = Append(wire, item) /\ item.row = version[item.thread]
  BY <1>a, DeliverDoes
<1>e. /\ item.sequence \in Nat /\ item.thread \in Thread /\ item.removes \in BOOLEAN
      /\ item.row \in Nat
  BY ItemIs
<1> DEFINE n == Len(wire) + 1
<1>f. /\ wire' \in Seq(ListItem) /\ Len(wire) \in Nat
      /\ \A k \in 1..Len(wire) : k \in 1..Len(wire') /\ wire'[k] = wire[k]
      /\ \A k \in 1..Len(wire') : k \in 1..Len(wire) \/ (k = n /\ wire'[k] = item)
      /\ wire' = wire \/ (n \in 1..Len(wire') /\ wire'[n] = item)
      /\ wire' = wire => ~item.removes /\ deletedAt[item.thread] > 0
      /\ wire' # wire => item.removes \/ (deletedAt[item.thread] = 0 /\ item.row = version[item.thread])
  <2>1. wire \in Seq(ListItem) /\ Len(wire) \in Nat
    BY <1>a, ListState DEF ListTyped
  <2>2. /\ Append(wire, item) \in Seq(ListItem) /\ Len(Append(wire, item)) = n
        /\ Append(wire, item)[n] = item
        /\ \A k \in 1..Len(wire) : Append(wire, item)[k] = wire[k]
    BY <2>1, AppendAt
  <2>3. /\ \A k \in 1..Len(wire) : k \in 1..n
        /\ \A k \in 1..n : k \in 1..Len(wire) \/ k = n
        /\ n \in 1..n
    BY <2>1
  <2>4. deletedAt[item.thread] \in Nat
    BY <1>a, <1>e DEF ListTyped
  <2>5. Append(wire, item) # wire
    <3>1. Len(Append(wire, item)) # Len(wire)
      BY <2>1, <2>2
    <3> QED  BY <3>1
  <2> HIDE DEF n
  <2>6. CASE wire' = wire  BY <1>d, <2>1, <2>5, <2>6
  <2>7. CASE wire' = Append(wire, item)  BY <1>d, <2>1, <2>2, <2>3, <2>4, <2>5, <2>7
  <2> QED  BY <1>d, <2>6, <2>7
<1>1. ListTyped'
  BY <1>a, <1>b, <1>c, <1>f DEF ListTyped
<1>2. WithinLog'
  <2>1. \A k \in 1..Len(inbox') : 1 <= inbox'[k] /\ inbox'[k] <= published
    BY <1>a, <1>c DEF WithinLog
  <2>2. 1 <= item.sequence /\ item.sequence <= published /\ item.row <= version[item.thread]
    BY <1>c, <1>d
  <2>3. \A k \in 1..Len(wire) :
          /\ 1 <= wire[k].sequence /\ wire[k].sequence <= published
          /\ wire[k].row <= version[wire[k].thread]
    BY <1>a DEF WithinLog
  <2>4. \A k \in 1..Len(wire') :
          /\ 1 <= wire'[k].sequence /\ wire'[k].sequence <= published
          /\ wire'[k].row <= version[wire'[k].thread]
    BY <1>f, <2>2, <2>3
  <2> QED  BY <1>a, <1>b, <2>1, <2>4 DEF WithinLog
<1>3. RowsFollowLog' /\ OnlyLive' /\ SnapshotIsRows' /\ ShownIsApplied'
  <2>1. RowsFollowLog'
    BY <1>a, <1>b DEF RowsFollowLog, Deletes
  <2>2. OnlyLive'
    BY <1>a, <1>b DEF OnlyLive
  <2>3. SnapshotIsRows'
    BY <1>a, <1>b DEF SnapshotIsRows, Deletes, DeletedBy
  <2>4. ShownIsApplied'
    BY <1>a, <1>b DEF ShownIsApplied, DeletedBy, Deletes
  <2> QED  BY <2>1, <2>2, <2>3, <2>4
<1>4. SentInOrder'
  <2>1. \A k \in 1..Len(wire) : wire[k].sequence < inbox[1]
    BY <1>a, <1>c DEF SentInOrder
  <2>2. ASSUME NEW k \in 1..Len(wire'), NEW l \in 1..Len(wire'), k < l
        PROVE  wire'[k].sequence < wire'[l].sequence
    <3>1. k \in 1..Len(wire)
      BY <1>f, <2>2
    <3>2. CASE l \in 1..Len(wire)
      <4>1. wire[k].sequence < wire[l].sequence
        BY <1>a, <2>2, <3>1, <3>2 DEF SentInOrder
      <4> QED  BY <1>f, <3>1, <3>2, <4>1
    <3>3. CASE wire'[l] = item
      <4>1. wire'[k] = wire[k]
        BY <1>f, <3>1
      <4> QED  BY <1>d, <2>1, <3>1, <3>3, <4>1
    <3> QED  BY <1>f, <3>2, <3>3
  <2>3. ASSUME NEW k \in 1..Len(wire'), NEW l \in 1..Len(inbox')
        PROVE  wire'[k].sequence < inbox'[l]
    <3>1. CASE k \in 1..Len(wire)
      <4>1. l + 1 \in 1..Len(inbox) /\ inbox'[l] = inbox[l + 1]
        BY <1>c
      <4>2. wire[k].sequence < inbox[l + 1]
        BY <1>a, <3>1, <4>1 DEF SentInOrder
      <4> QED  BY <1>f, <3>1, <4>1, <4>2
    <3>2. CASE wire'[k] = item  BY <1>c, <1>d, <3>2
    <3> QED  BY <1>f, <3>1, <3>2
  <2> QED  BY <1>c, <2>2, <2>3 DEF SentInOrder
<1>5. ItemsAreRows'
  <2>1. CASE wire' = wire  BY <1>a, <1>b, <2>1 DEF ItemsAreRows, Deletes
  <2>2. CASE wire' # wire
    <3>1. ASSUME ~item.removes
          PROVE  /\ item.sequence <= item.row /\ shown[item.thread] <= item.row
                 /\ \A i \in 1..Len(log) : ~Deletes(i, item.thread)
      <4>1. deletedAt[item.thread] = 0 /\ item.row = version[item.thread]
        BY <1>f, <2>2, <3>1
      <4>2. item.sequence <= version[item.thread]
        BY <1>a, <1>c, <1>d, <1>e DEF RowsFollowLog
      <4>3. shown[item.thread] <= version[item.thread]
        BY <1>a, <1>e DEF ShownIsApplied
      <4>4. \A i \in 1..Len(log) : ~Deletes(i, item.thread)
        BY <1>a, <1>e, <4>1 DEF RowsFollowLog
      <4> QED  BY <4>1, <4>2, <4>3, <4>4
    <3>2. ASSUME NEW k \in 1..Len(wire), wire[k].thread = item.thread, ~item.removes
          PROVE  wire[k].row <= item.row
      BY <1>a, <1>f, <2>2, <3>2 DEF WithinLog
    <3>3. ASSUME NEW k \in 1..Len(wire')
          PROVE  /\ wire'[k].thread = log[wire'[k].sequence].thread
                 /\ wire'[k].removes = log[wire'[k].sequence].deleted
                 /\ ~wire'[k].removes =>
                      /\ wire'[k].sequence <= wire'[k].row
                      /\ shown[wire'[k].thread] <= wire'[k].row
                      /\ \A i \in 1..Len(log) : Deletes(i, wire'[k].thread) => wire'[k].row < i
                      /\ \A l \in 1..Len(wire') :
                           k < l /\ wire'[l].thread = wire'[k].thread /\ ~wire'[l].removes
                             => wire'[k].row <= wire'[l].row
      <4>1. CASE k \in 1..Len(wire)
        <5>1. wire'[k] = wire[k]
          BY <1>f, <4>1
        <5>2. ASSUME ~wire[k].removes, NEW l \in 1..Len(wire'), k < l,
                     wire'[l].thread = wire[k].thread, ~wire'[l].removes
              PROVE  wire[k].row <= wire'[l].row
          <6>1. CASE l \in 1..Len(wire)
            BY <1>a, <1>f, <4>1, <5>2, <6>1 DEF ItemsAreRows
          <6>2. CASE wire'[l] = item
            BY <3>2, <4>1, <5>2, <6>2
          <6> QED  BY <1>f, <6>1, <6>2
        <5> QED  BY <1>a, <4>1, <5>1, <5>2 DEF ItemsAreRows
      <4>2. CASE k = n /\ wire'[k] = item
        <5>1. \A l \in 1..Len(wire') : ~(k < l)
          BY <1>f, <4>2
        <5> QED  BY <1>d, <3>1, <4>2, <5>1
      <4> QED  BY <1>f, <4>1, <4>2
    <3> QED  BY <1>b, <3>3 DEF ItemsAreRows, Deletes
  <2> QED  BY <2>1, <2>2
<1>6. NothingSkipped'
  <2>1. ASSUME NEW i, Reaches(i)  PROVE Reaches(i)'
    <3>1. ASSUME NEW k \in 1..Len(inbox), inbox[k] = i
          PROVE  \/ \E l \in 1..Len(inbox') : inbox'[l] = i
                 \/ \E l \in 1..Len(wire') : wire'[l].sequence = i
                 \/ ~log[i].deleted /\ deletedAt[log[i].thread] > 0
      <4>1. CASE k = 1
        <5>1. CASE wire' = wire  BY <1>d, <1>f, <3>1, <4>1, <5>1
        <5>2. CASE n \in 1..Len(wire') /\ wire'[n] = item  BY <1>d, <3>1, <4>1, <5>2
        <5> QED  BY <1>f, <5>1, <5>2
      <4>2. CASE k \in 2..Len(inbox)
        <5>1. k - 1 \in 1..Len(inbox') /\ inbox'[k - 1] = i
          BY <1>c, <3>1, <4>2
        <5> QED  BY <5>1
      <4>3. k = 1 \/ k \in 2..Len(inbox)
        OBVIOUS
      <4> QED  BY <4>1, <4>2, <4>3
    <3>2. ASSUME NEW k \in 1..Len(wire), wire[k].sequence = i
          PROVE  \E l \in 1..Len(wire') : wire'[l].sequence = i
      BY <1>f, <3>2
    <3> QED  BY <1>b, <2>1, <3>1, <3>2 DEF Reaches
  <2> QED  BY <1>a, <1>b, <2>1 DEF NothingSkipped
<1> QED  BY <1>1, <1>2, <1>3, <1>4, <1>5, <1>6 DEF ListInv

(* A snapshot that is taken has the effect of the events up to it; one     *)
(* that is not taken is not needed.                                        *)
LEMMA TakeSnapshotKeeps == ASSUME ListInv, List!TakeSnapshot  PROVE ListInv'
<1>a. /\ ListTyped /\ WithinLog /\ RowsFollowLog /\ SentInOrder /\ OnlyLive
      /\ ItemsAreRows /\ SnapshotIsRows /\ NothingSkipped /\ ShownIsApplied
  BY DEF ListInv
<1>b. /\ shellStage = "snapshot" /\ shellStage' = "live"
      /\ UNCHANGED << log, version, deletedAt, published, snapshot, inbox, wire, drops, faults >>
  BY <1>a, TakeSnapshotDoes
<1>c. \/ /\ snapshot.sequence >= lastApplied.sequence
         /\ shown' = snapshot.rows /\ removed' \in [Thread -> BOOLEAN]
         /\ \A t \in Thread :
              removed'[t] <=> snapshot.rows[t] = 0 /\ (removed[t] \/ shown[t] > 0)
         /\ lastApplied' \in Applied /\ lastApplied'.sequence = snapshot.sequence
         /\ missed' = {e \in missed : e > snapshot.sequence}
      \/ /\ snapshot.sequence <= lastApplied.sequence
         /\ UNCHANGED << shown, removed, lastApplied, missed >>
  BY <1>a, TakeSnapshotDoes
<1>d. wire = << >> /\ inbox = << >> /\ Len(wire) = 0
  BY <1>a, <1>b DEF OnlyLive
<1>e. /\ snapshot.sequence \in 0..Len(log) /\ snapshot.sequence \in Nat /\ Len(log) \in Nat
      /\ lastApplied.sequence \in Int /\ published \in 0..Len(log)
      /\ snapshot.rows \in [Thread -> Nat]
  BY <1>a, ListRange, ListState
<1>1. RowsFollowLog' /\ SentInOrder' /\ OnlyLive' /\ SnapshotIsRows'
  BY <1>a, <1>b DEF RowsFollowLog, Deletes, SentInOrder, OnlyLive, SnapshotIsRows
<1>2. ItemsAreRows'
  BY <1>b, <1>d DEF ItemsAreRows
<1>3. CASE /\ snapshot.sequence <= lastApplied.sequence
           /\ UNCHANGED << shown, removed, lastApplied, missed >>
  <2>1. ListTyped' /\ WithinLog'
    BY <1>a, <1>b, <1>3 DEF ListTyped, WithinLog
  <2>2. ShownIsApplied'
    BY <1>a, <1>b, <1>3 DEF ShownIsApplied, DeletedBy, Deletes
  <2>3. ASSUME NEW i \in 1..published, lastApplied.sequence < i  PROVE Reaches(i)'
    <3>1. snapshot.sequence < i
      BY <1>3, <1>e, <2>3
    <3>2. i \in missed
      BY <1>a, <1>b, <3>1 DEF NothingSkipped
    <3> QED  BY <1>3, <3>2 DEF Reaches
  <2>4. NothingSkipped'
    BY <1>b, <1>3, <2>3 DEF NothingSkipped
  <2> QED  BY <1>1, <1>2, <2>1, <2>2, <2>4 DEF ListInv
<1>4. CASE /\ snapshot.sequence >= lastApplied.sequence
           /\ shown' = snapshot.rows /\ removed' \in [Thread -> BOOLEAN]
           /\ \A t \in Thread :
                removed'[t] <=> snapshot.rows[t] = 0 /\ (removed[t] \/ shown[t] > 0)
           /\ lastApplied' \in Applied /\ lastApplied'.sequence = snapshot.sequence
           /\ missed' = {e \in missed : e > snapshot.sequence}
  <2>1. ListTyped'
    <3>1. missed' \in SUBSET Nat
      BY <1>a, <1>4 DEF ListTyped
    <3>2. shown' \in [Thread -> Nat]
      BY <1>4, <1>e
    <3> QED  BY <1>a, <1>b, <1>4, <3>1, <3>2 DEF ListTyped
  <2>2. WithinLog'
    <3>1. -1 <= lastApplied'.sequence /\ lastApplied'.sequence <= Len(log)
      BY <1>4, <1>e
    <3>2. \A i \in missed' : 1 <= i /\ i <= Len(log)
      BY <1>a, <1>4 DEF WithinLog
    <3> QED  BY <1>a, <1>b, <3>1, <3>2 DEF WithinLog
  <2>3. NothingSkipped'
    <3>1. ASSUME NEW i \in 1..published, snapshot.sequence < i  PROVE Reaches(i)'
      <4>1. i \in missed /\ i > snapshot.sequence
        BY <1>a, <1>b, <1>e, <3>1 DEF NothingSkipped
      <4> QED  BY <1>4, <4>1 DEF Reaches
    <3> QED  BY <1>b, <1>4, <3>1 DEF NothingSkipped
  <2>4. ShownIsApplied'
    <3> SUFFICES ASSUME NEW t \in Thread
                 PROVE  /\ snapshot.rows[t] <= version[t]
                        /\ deletedAt[t] > 0 /\ deletedAt[t] <= snapshot.sequence
                             => snapshot.rows[t] = 0
                        /\ deletedAt[t] = 0 =>
                             \A i \in 1..Len(log) :
                               log[i].thread = t /\ i <= snapshot.sequence /\ i \notin missed'
                                 => i <= snapshot.rows[t]
                        /\ removed'[t] => DeletedBy(snapshot.sequence, t)
      BY <1>b, <1>4 DEF ShownIsApplied, DeletedBy, Deletes
    <3>1. snapshot.rows[t] <= version[t]
      BY <1>a DEF WithinLog
    <3>2. deletedAt[t] > 0 /\ deletedAt[t] <= snapshot.sequence => snapshot.rows[t] = 0
      <4> SUFFICES ASSUME deletedAt[t] > 0, deletedAt[t] <= snapshot.sequence
                   PROVE  snapshot.rows[t] = 0
        OBVIOUS
      <4>1. deletedAt[t] \in 1..Len(log) /\ Deletes(deletedAt[t], t)
        BY <1>a, <1>e DEF RowsFollowLog, ListTyped
      <4>2. DeletedBy(snapshot.sequence, t)
        BY <4>1 DEF DeletedBy
      <4> QED  BY <1>a, <1>b, <4>2 DEF SnapshotIsRows
    <3>3. removed'[t] => DeletedBy(snapshot.sequence, t)
      <4> SUFFICES ASSUME snapshot.rows[t] = 0, removed[t] \/ shown[t] > 0
                   PROVE  DeletedBy(snapshot.sequence, t)
        BY <1>4
      <4>1. CASE shown[t] > 0  BY <1>a, <1>b, <4>1 DEF SnapshotIsRows
      <4>2. CASE removed[t]
        <5>1. PICK i \in 1..Len(log) : i <= lastApplied.sequence /\ Deletes(i, t)
          BY <1>a, <4>2 DEF ShownIsApplied, DeletedBy
        <5>2. i <= snapshot.sequence
          BY <1>4, <1>e, <5>1
        <5> QED  BY <5>1, <5>2 DEF DeletedBy
      <4> QED  BY <4>1, <4>2
    <3> QED  BY <1>a, <1>b, <3>1, <3>2, <3>3 DEF SnapshotIsRows
  <2> QED  BY <1>1, <1>2, <2>1, <2>2, <2>3, <2>4 DEF ListInv
<1> QED  BY <1>c, <1>3, <1>4

(* The first item goes; what is left keeps its order.                      *)
LEMMA WireTail ==
  ASSUME ListTyped, WithinLog, SentInOrder, wire # << >>, wire' = Tail(wire)
  PROVE  /\ wire' \in Seq(ListItem) /\ 1 \in 1..Len(wire)
         /\ \A k \in 1..Len(wire') :
              /\ k + 1 \in 1..Len(wire) /\ wire'[k] = wire[k + 1]
              /\ wire[1].sequence < wire'[k].sequence
         /\ \A k, l \in 1..Len(wire') : k < l => k + 1 < l + 1
         /\ \A k \in 2..Len(wire) : k - 1 \in 1..Len(wire') /\ wire'[k - 1] = wire[k]
<1>1. /\ wire' \in Seq(ListItem) /\ Len(wire) \in Nat \ {0} /\ Len(wire') = Len(wire) - 1
      /\ \A k \in 1..Len(wire') : wire'[k] = wire[k + 1]
  BY TailAt DEF ListTyped
<1>2. 1 \in 1..Len(wire)
  BY <1>1
<1>3. \A k \in 1..Len(wire') : k + 1 \in 1..Len(wire) /\ 1 < k + 1
  BY <1>1
<1>4. \A k \in 1..Len(wire') : wire[1].sequence < wire'[k].sequence
  BY <1>1, <1>2, <1>3 DEF SentInOrder
<1>5. \A k, l \in 1..Len(wire') : k < l => k + 1 < l + 1
  BY <1>1
<1>6. ASSUME NEW k \in 2..Len(wire)
      PROVE  k - 1 \in 1..Len(wire') /\ wire'[k - 1] = wire[k]
  <2>1. k - 1 \in 1..Len(wire') /\ (k - 1) + 1 = k
    BY <1>1
  <2> QED  BY <1>1, <2>1
<1> QED  BY <1>1, <1>2, <1>3, <1>4, <1>5, <1>6

(* Between the last applied event and the first item nothing counts but    *)
(* what is missed, or waits for a deletion.                                *)
LEMMA BeforeFirstItem ==
  ASSUME ListInv, shellStage = "live", 1 \in 1..Len(wire),
         NEW i \in 1..Len(log), lastApplied.sequence < i, i < wire[1].sequence
  PROVE  i \in missed \/ (~log[i].deleted /\ deletedAt[log[i].thread] > 0)
<1>a. ListTyped /\ WithinLog /\ SentInOrder /\ NothingSkipped
  BY DEF ListInv
<1>1. wire[1].sequence \in 1..published /\ published \in Nat /\ i \in 1..published
  BY <1>a, ListRange DEF ListTyped
<1>2. Reaches(i)
  BY <1>a, <1>1 DEF NothingSkipped
<1>3. ASSUME NEW k \in 1..Len(wire), wire[k].sequence = i  PROVE FALSE
  <2>1. k = 1 \/ wire[1].sequence < wire[k].sequence
    <3>1. Len(wire) \in Nat
      BY <1>a, ListState
    <3>2. k = 1 \/ 1 < k
      BY <3>1
    <3> QED  BY <1>a, <3>2 DEF SentInOrder
  <2> QED  BY <1>1, <1>3, <2>1
<1>4. ASSUME NEW k \in 1..Len(inbox), inbox[k] = i  PROVE FALSE
  <2>1. wire[1].sequence < inbox[k]
    BY <1>a DEF SentInOrder
  <2> QED  BY <1>1, <1>4, <2>1
<1> QED  BY <1>2, <1>3, <1>4 DEF Reaches

LEMMA TakeItemKeeps == ASSUME ListInv, List!TakeItem  PROVE ListInv'
<1>a. /\ ListTyped /\ WithinLog /\ RowsFollowLog /\ SentInOrder /\ OnlyLive
      /\ ItemsAreRows /\ SnapshotIsRows /\ NothingSkipped /\ ShownIsApplied
  BY DEF ListInv
<1> DEFINE item == wire[1]
<1>b. /\ wire # << >> /\ wire' = Tail(wire) /\ 1 \in 1..Len(wire)
      /\ UNCHANGED << log, version, deletedAt, published, shellStage, snapshot, inbox,
                      missed, drops, faults >>
  BY <1>a, TakeItemDoes
<1>c. \/ /\ item.sequence > lastApplied.sequence
         /\ shown' \in [Thread -> Nat] /\ removed' \in [Thread -> BOOLEAN]
         /\ \A t \in Thread :
              IF t = item.thread
              THEN /\ shown'[t] = IF item.removes THEN 0 ELSE item.row
                   /\ removed'[t] = item.removes
              ELSE shown'[t] = shown[t] /\ removed'[t] = removed[t]
         /\ lastApplied' \in Applied /\ lastApplied'.sequence = item.sequence
      \/ /\ item.sequence <= lastApplied.sequence
         /\ UNCHANGED << shown, removed, lastApplied >>
  BY <1>a, TakeItemDoes
<1>d. /\ wire' \in Seq(ListItem)
      /\ \A k \in 1..Len(wire') :
           /\ k + 1 \in 1..Len(wire) /\ wire'[k] = wire[k + 1]
           /\ item.sequence < wire'[k].sequence
      /\ \A k, l \in 1..Len(wire') : k < l => k + 1 < l + 1
      /\ \A k \in 2..Len(wire) : k - 1 \in 1..Len(wire') /\ wire'[k - 1] = wire[k]
  BY <1>a, <1>b, WireTail
<1>e. shellStage = "live"
  BY <1>a, <1>b DEF OnlyLive
<1>f. /\ item.sequence \in 1..Len(log) /\ item.sequence \in 1..published /\ item.sequence \in Nat
      /\ item.thread \in Thread /\ item.removes \in BOOLEAN /\ item.row \in Nat
      /\ item.row \in 0..version[item.thread]
      /\ lastApplied.sequence \in Int /\ Len(log) \in Nat
  BY <1>a, <1>b, ListState, ListRange
<1>g. /\ item.thread = log[item.sequence].thread /\ item.removes = log[item.sequence].deleted
      /\ ~item.removes =>
           /\ item.sequence <= item.row /\ shown[item.thread] <= item.row
           /\ \A i \in 1..Len(log) : Deletes(i, item.thread) => item.row < i
           /\ \A l \in 1..Len(wire) :
                1 < l /\ wire[l].thread = item.thread /\ ~wire[l].removes => item.row <= wire[l].row
  BY <1>a, <1>b DEF ItemsAreRows
<1>h. \A i \in 1..Len(log) :
        lastApplied.sequence < i /\ i < item.sequence =>
          i \in missed \/ (~log[i].deleted /\ deletedAt[log[i].thread] > 0)
  BY <1>b, <1>e, BeforeFirstItem
<1> HIDE DEF item
<1>1. RowsFollowLog' /\ SnapshotIsRows'
  BY <1>a, <1>b, <1>e DEF RowsFollowLog, Deletes, SnapshotIsRows
<1>2. SentInOrder' /\ OnlyLive'
  <2>1. \A k, l \in 1..Len(wire') : k < l => wire'[k].sequence < wire'[l].sequence
    BY <1>a, <1>d DEF SentInOrder
  <2>2. \A k \in 1..Len(wire'), l \in 1..Len(inbox) : wire'[k].sequence < inbox[l]
    BY <1>a, <1>d DEF SentInOrder
  <2>3. \A k, l \in 1..Len(inbox) : k < l => inbox[k] < inbox[l]
    BY <1>a DEF SentInOrder
  <2> QED  BY <1>b, <1>e, <2>1, <2>2, <2>3 DEF SentInOrder, OnlyLive
<1>3. \A k \in 1..Len(wire') :
        /\ 1 <= wire'[k].sequence /\ wire'[k].sequence <= published
        /\ wire'[k].row <= version[wire'[k].thread]
  BY <1>a, <1>d DEF WithinLog
<1>4. \A k \in 1..Len(wire') :
        /\ wire'[k].thread = log[wire'[k].sequence].thread
        /\ wire'[k].removes = log[wire'[k].sequence].deleted
        /\ ~wire'[k].removes =>
             /\ wire'[k].sequence <= wire'[k].row
             /\ shown[wire'[k].thread] <= wire'[k].row
             /\ \A i \in 1..Len(log) : Deletes(i, wire'[k].thread) => wire'[k].row < i
             /\ \A l \in 1..Len(wire') :
                  k < l /\ wire'[l].thread = wire'[k].thread /\ ~wire'[l].removes
                    => wire'[k].row <= wire'[l].row
  <2> TAKE k \in 1..Len(wire')
  <2>1. k + 1 \in 1..Len(wire) /\ wire'[k] = wire[k + 1]
    BY <1>d
  <2>2. ASSUME ~wire'[k].removes, NEW l \in 1..Len(wire'), k < l,
               wire'[l].thread = wire'[k].thread, ~wire'[l].removes
        PROVE  wire'[k].row <= wire'[l].row
    <3>1. k + 1 < l + 1 /\ l + 1 \in 1..Len(wire) /\ wire'[l] = wire[l + 1]
      BY <1>d, <2>2
    <3> QED  BY <1>a, <2>1, <2>2, <3>1 DEF ItemsAreRows
  <2>3. /\ wire[k + 1].thread = log[wire[k + 1].sequence].thread
        /\ wire[k + 1].removes = log[wire[k + 1].sequence].deleted
        /\ ~wire[k + 1].removes =>
             /\ wire[k + 1].sequence <= wire[k + 1].row
             /\ shown[wire[k + 1].thread] <= wire[k + 1].row
             /\ \A i \in 1..Len(log) : Deletes(i, wire[k + 1].thread) => wire[k + 1].row < i
    BY <1>a, <2>1 DEF ItemsAreRows
  <2> QED  BY <2>1, <2>2, <2>3
<1>5. ASSUME NEW i, Reaches(i), i # item.sequence  PROVE Reaches(i)'
  <2>1. ASSUME NEW k \in 1..Len(wire), wire[k].sequence = i
        PROVE  \E l \in 1..Len(wire') : wire'[l].sequence = i
    <3>1. k \in 2..Len(wire)
      <4>1. k # 1
        BY <1>5, <2>1 DEF item
      <4>2. Len(wire) \in Nat
        BY <1>a, ListState
      <4> QED  BY <4>1, <4>2
    <3>2. k - 1 \in 1..Len(wire') /\ wire'[k - 1] = wire[k]
      BY <1>d, <3>1
    <3> QED  BY <2>1, <3>2
  <2> QED  BY <1>b, <1>5, <2>1 DEF Reaches
<1>6. CASE /\ item.sequence <= lastApplied.sequence
           /\ UNCHANGED << shown, removed, lastApplied >>
  <2>1. ListTyped' /\ WithinLog'
    BY <1>a, <1>b, <1>d, <1>3, <1>6 DEF ListTyped, WithinLog
  <2>2. ShownIsApplied'
    BY <1>a, <1>b, <1>6 DEF ShownIsApplied, DeletedBy, Deletes
  <2>3. ItemsAreRows'
    BY <1>b, <1>4, <1>6 DEF ItemsAreRows, Deletes
  <2>4. ASSUME NEW i \in 1..published, lastApplied.sequence < i  PROVE Reaches(i)'
    <3>1. i # item.sequence
      BY <1>6, <1>f, <2>4
    <3> QED  BY <1>a, <1>e, <1>5, <2>4, <3>1 DEF NothingSkipped
  <2>5. NothingSkipped'
    BY <1>b, <1>e, <1>6, <2>4 DEF NothingSkipped
  <2> QED  BY <1>1, <1>2, <2>1, <2>2, <2>3, <2>5 DEF ListInv
<1>7. CASE /\ item.sequence > lastApplied.sequence
           /\ shown' \in [Thread -> Nat] /\ removed' \in [Thread -> BOOLEAN]
           /\ \A t \in Thread :
                IF t = item.thread
                THEN /\ shown'[t] = IF item.removes THEN 0 ELSE item.row
                     /\ removed'[t] = item.removes
                ELSE shown'[t] = shown[t] /\ removed'[t] = removed[t]
           /\ lastApplied' \in Applied /\ lastApplied'.sequence = item.sequence
  <2>1. ListTyped'
    BY <1>a, <1>b, <1>d, <1>7 DEF ListTyped
  <2>2. WithinLog'
    <3>1. -1 <= lastApplied'.sequence /\ lastApplied'.sequence <= Len(log)
      BY <1>7, <1>f
    <3> QED  BY <1>a, <1>b, <1>3, <3>1 DEF WithinLog
  <2>3. ItemsAreRows'
    <3>1. ASSUME NEW k \in 1..Len(wire'), ~wire'[k].removes
          PROVE  shown'[wire'[k].thread] <= wire'[k].row
      <4>1. wire'[k].thread \in Thread /\ wire'[k].row \in Nat
        BY <1>a, <1>d, ListState
      <4>2. CASE wire'[k].thread # item.thread  BY <1>4, <1>7, <3>1, <4>1, <4>2
      <4>3. CASE wire'[k].thread = item.thread /\ item.removes
        <5>1. shown'[wire'[k].thread] = 0
          BY <1>7, <1>f, <4>3
        <5> QED  BY <4>1, <5>1
      <4>4. CASE wire'[k].thread = item.thread /\ ~item.removes
        <5>1. shown'[wire'[k].thread] = item.row
          BY <1>7, <1>f, <4>4
        <5>2. k + 1 \in 1..Len(wire) /\ wire'[k] = wire[k + 1] /\ 1 < k + 1
          <6>1. k + 1 \in 1..Len(wire) /\ wire'[k] = wire[k + 1]
            BY <1>d
          <6>2. 1 < k + 1
            BY <1>d, LenProperties
          <6> QED  BY <6>1, <6>2
        <5>3. item.row <= wire[k + 1].row
          BY <1>g, <3>1, <4>4, <5>2
        <5> QED  BY <5>1, <5>2, <5>3
      <4>5. item.removes \/ ~item.removes
        BY <1>f
      <4> QED  BY <4>2, <4>3, <4>4, <4>5
    <3>2. \A k \in 1..Len(wire') :
            /\ wire'[k].thread = log[wire'[k].sequence].thread
            /\ wire'[k].removes = log[wire'[k].sequence].deleted
            /\ ~wire'[k].removes =>
                 /\ wire'[k].sequence <= wire'[k].row
                 /\ shown'[wire'[k].thread] <= wire'[k].row
                 /\ \A i \in 1..Len(log) : Deletes(i, wire'[k].thread) => wire'[k].row < i
                 /\ \A l \in 1..Len(wire') :
                      k < l /\ wire'[l].thread = wire'[k].thread /\ ~wire'[l].removes
                        => wire'[k].row <= wire'[l].row
      <4> HIDE DEF Deletes
      <4> QED  BY <1>4, <3>1
    <3> QED  BY <1>b, <3>2 DEF ItemsAreRows, Deletes
  <2>4. NothingSkipped'
    <3>1. ASSUME NEW i \in 1..published, item.sequence < i  PROVE Reaches(i)'
      <4>1. lastApplied.sequence < i /\ i # item.sequence
        BY <1>7, <1>f, <3>1
      <4> QED  BY <1>a, <1>e, <1>5, <4>1 DEF NothingSkipped
    <3> QED  BY <1>b, <1>e, <1>7, <3>1 DEF NothingSkipped
  <2>5. ShownIsApplied'
    <3> SUFFICES ASSUME NEW t \in Thread
                 PROVE  /\ shown'[t] <= version[t]
                        /\ deletedAt[t] > 0 /\ deletedAt[t] <= item.sequence
                           /\ deletedAt[t] \notin missed => shown'[t] = 0
                        /\ deletedAt[t] = 0 =>
                             \A i \in 1..Len(log) :
                               log[i].thread = t /\ i <= item.sequence /\ i \notin missed
                                 => i <= shown'[t]
                        /\ removed'[t] => DeletedBy(item.sequence, t)
      BY <1>b, <1>7 DEF ShownIsApplied, DeletedBy, Deletes
    <3>a. /\ version[t] \in Nat /\ deletedAt[t] \in Nat /\ shown[t] \in Nat
          /\ shown[t] <= version[t] /\ deletedAt[t] <= Len(log)
          /\ deletedAt[t] > 0 => Deletes(deletedAt[t], t)
          /\ \A i \in 1..Len(log) : Deletes(i, t) => i <= deletedAt[t]
      <4>1. version[t] \in 0..Len(log) /\ deletedAt[t] \in 0..version[t]
        BY <1>a, ListRange
      <4>2. shown[t] \in Nat /\ shown[t] <= version[t]
        BY <1>a DEF ListTyped, ShownIsApplied
      <4>3. /\ deletedAt[t] > 0 => Deletes(deletedAt[t], t)
            /\ \A i \in 1..Len(log) : Deletes(i, t) => i <= deletedAt[t]
        BY <1>a DEF RowsFollowLog
      <4> QED  BY <1>f, <4>1, <4>2, <4>3
    <3>1. shown'[t] <= version[t]
      <4>1. CASE t = item.thread
        <5>1. shown'[t] = IF item.removes THEN 0 ELSE item.row
          BY <1>7, <4>1
        <5> QED  BY <1>f, <3>a, <4>1, <5>1
      <4>2. CASE t # item.thread  BY <1>7, <3>a, <4>2
      <4> QED  BY <4>1, <4>2
    <3>2. ASSUME deletedAt[t] > 0, deletedAt[t] <= item.sequence, deletedAt[t] \notin missed
          PROVE  shown'[t] = 0
      <4>1. deletedAt[t] \in 1..Len(log) /\ log[deletedAt[t]].thread = t /\ log[deletedAt[t]].deleted
        BY <1>f, <3>a, <3>2 DEF Deletes
      <4>2. CASE t = item.thread /\ item.removes  BY <1>7, <4>2
      <4>3. CASE t = item.thread /\ ~item.removes
        <5>1. item.sequence <= item.row /\ item.row < deletedAt[t]
          BY <1>g, <4>1, <4>3 DEF Deletes
        <5> QED  BY <1>f, <3>a, <3>2, <5>1
      <4>4. CASE t # item.thread
        <5>1. deletedAt[t] # item.sequence
          BY <1>g, <4>1, <4>4
        <5>2. deletedAt[t] < item.sequence
          BY <1>f, <3>a, <3>2, <5>1
        <5>3. ~(lastApplied.sequence < deletedAt[t])
          BY <1>h, <3>2, <4>1, <5>2
        <5>4. deletedAt[t] <= lastApplied.sequence
          BY <1>f, <3>a, <5>3
        <5>5. shown[t] = 0
          BY <1>a, <3>2, <5>4 DEF ShownIsApplied
        <5> QED  BY <1>7, <4>4, <5>5
      <4> QED  BY <1>f, <4>2, <4>3, <4>4
    <3>3. ASSUME deletedAt[t] = 0, NEW i \in 1..Len(log), log[i].thread = t,
                 i <= item.sequence, i \notin missed
          PROVE  i <= shown'[t]
      <4>0. ~log[i].deleted
        BY <1>f, <3>a, <3>3 DEF Deletes
      <4>1. CASE t = item.thread
        <5>1. ~Deletes(item.sequence, t)
          BY <1>f, <3>a, <3>3
        <5>2. ~item.removes
          BY <1>g, <4>1, <5>1 DEF Deletes
        <5>3. shown'[t] = item.row /\ item.sequence <= item.row
          BY <1>7, <1>g, <4>1, <5>2
        <5> QED  BY <1>f, <3>3, <5>3
      <4>2. CASE t # item.thread
        <5>1. i # item.sequence
          BY <1>g, <3>3, <4>2
        <5>2. i < item.sequence
          BY <1>f, <3>3, <5>1
        <5>3. ~(lastApplied.sequence < i)
          BY <1>h, <3>3, <5>2
        <5>4. i <= lastApplied.sequence
          BY <1>f, <5>3
        <5>5. i <= shown[t]
          BY <1>a, <3>3, <5>4 DEF ShownIsApplied
        <5> QED  BY <1>7, <4>2, <5>5
      <4> QED  BY <4>1, <4>2
    <3>4. ASSUME removed'[t]  PROVE DeletedBy(item.sequence, t)
      <4>1. CASE t = item.thread
        <5>1. Deletes(item.sequence, t)
          BY <1>7, <1>g, <3>4, <4>1 DEF Deletes
        <5> QED  BY <1>f, <5>1 DEF DeletedBy
      <4>2. CASE t # item.thread
        <5>1. PICK i \in 1..Len(log) : i <= lastApplied.sequence /\ Deletes(i, t)
          BY <1>a, <1>7, <3>4, <4>2 DEF ShownIsApplied, DeletedBy
        <5>2. i <= item.sequence
          BY <1>7, <1>f, <5>1
        <5> QED  BY <5>1, <5>2 DEF DeletedBy
      <4> QED  BY <4>1, <4>2
    <3> QED  BY <3>1, <3>2, <3>3, <3>4
  <2> QED  BY <1>1, <1>2, <2>1, <2>2, <2>3, <2>4, <2>5 DEF ListInv
<1> QED  BY <1>c, <1>6, <1>7

-----------------------------------------------------------------------------
LEMMA ListInitInv == ListBounds /\ List!Init => ListInv
<1> SUFFICES ASSUME ListBounds, List!Init  PROVE ListInv
  OBVIOUS
<1>1. /\ log = << >> /\ Len(log) = 0 /\ inbox = << >> /\ wire = << >> /\ Len(inbox) = 0
      /\ Len(wire) = 0 /\ published = 0 /\ shellStage = "none" /\ missed = {}
      /\ drops = 0 /\ faults = 0
  BY DEF List!Init
<1>2. /\ version = [t \in Thread |-> 0] /\ deletedAt = [t \in Thread |-> 0]
      /\ shown = [t \in Thread |-> 0] /\ removed = [t \in Thread |-> FALSE]
  BY DEF List!Init
<1>3. /\ snapshot \in ListSnapshot /\ snapshot.sequence = 0
      /\ \A t \in Thread : snapshot.rows[t] = 0
  BY DEF List!Init, List!NoSnapshot, ListSnapshot
<1>4. lastApplied \in Applied /\ lastApplied.sequence = -1
  BY DEF List!Init, Applied
<1>5. \A k \in 1..0 : FALSE
  OBVIOUS
<1>6. ListTyped
  <2>1. drops \in 0..MaxDrops /\ faults \in 0..MaxFaults
    BY <1>1 DEF ListBounds
  <2>2. /\ version \in [Thread -> Nat] /\ deletedAt \in [Thread -> Nat]
        /\ shown \in [Thread -> Nat] /\ removed \in [Thread -> BOOLEAN]
    BY <1>2
  <2>3. log \in Seq(LogEntry) /\ inbox \in Seq(Nat) /\ wire \in Seq(ListItem)
    BY <1>1, EmptySeq
  <2> QED  BY <1>1, <1>3, <1>4, <2>1, <2>2, <2>3 DEF ListTyped
<1>7. WithinLog
  BY <1>1, <1>2, <1>3, <1>4, <1>5 DEF WithinLog
<1>8. RowsFollowLog /\ SentInOrder /\ OnlyLive /\ ItemsAreRows
  BY <1>1, <1>2, <1>5 DEF RowsFollowLog, SentInOrder, OnlyLive, ItemsAreRows
<1>9. SnapshotIsRows /\ NothingSkipped
  BY <1>1 DEF SnapshotIsRows, NothingSkipped
<1>10. ShownIsApplied
  BY <1>1, <1>2, <1>5 DEF ShownIsApplied
<1> QED  BY <1>6, <1>7, <1>8, <1>9, <1>10 DEF ListInv

LEMMA ListStep ==
  ASSUME ListBounds, ListInv, [List!Next]_(List!vars)
  PROVE  ListInv'
<1>1. ASSUME NEW t \in Thread, NEW deleted \in BOOLEAN, NEW time \in Time,
             List!Commit(t, deleted, time)
      PROVE  ListInv'
  BY <1>1, CommitKeeps
<1>2. CASE List!Publish  BY <1>2, PublishKeeps
<1>3. CASE List!Subscribe  BY <1>3, SubscribeKeeps
<1>4. CASE List!SubscribeFails  BY <1>4, SubscribeFailsKeeps
<1>5. CASE List!Deliver  BY <1>5, DeliverKeeps
<1>6. CASE List!DeliverFails  BY <1>6, DeliverFailsKeeps
<1>7. ASSUME NEW stops \in BOOLEAN, List!Break(stops)  PROVE ListInv'
  BY <1>7, BreakKeeps
<1>8. CASE List!TakeSnapshot  BY <1>8, TakeSnapshotKeeps
<1>9. CASE List!TakeItem  BY <1>9, TakeItemKeeps
<1>10. CASE UNCHANGED List!vars
  BY <1>10 DEF List!vars, List!server, List!connection, List!client, ListInv, ListTyped, WithinLog,
               RowsFollowLog, SentInOrder, OnlyLive, ItemsAreRows, SnapshotIsRows, NothingSkipped,
               ShownIsApplied, Reaches, DeletedBy, Deletes
<1> QED  BY <1>1, <1>2, <1>3, <1>4, <1>5, <1>6, <1>7, <1>8, <1>9, <1>10 DEF List!Next

(* A sequence is one of the elements it has.                               *)
LEMMA SeqOfElements ==
  ASSUME NEW S, NEW T, NEW q \in Seq(S), \A i \in 1..Len(q) : q[i] \in T
  PROVE  q \in Seq(T)
BY IsASeq, LenProperties

(* The invariant says what the properties ask.                             *)
LEMMA ListInvImplies == ASSUME ListBounds, ListInv  PROVE ListIsApplied
<1>a. ListTyped /\ WithinLog /\ RowsFollowLog /\ ShownIsApplied
  BY DEF ListInv
<1>1. /\ version \in [Thread -> 0..Len(log)] /\ deletedAt \in [Thread -> 0..Len(log)]
      /\ shown \in [Thread -> 0..Len(log)]
  <2>1. \A t \in Thread : /\ version[t] \in 0..Len(log) /\ deletedAt[t] \in 0..Len(log)
                          /\ shown[t] \in 0..Len(log)
    <3> TAKE t \in Thread
    <3>1. version[t] \in 0..Len(log) /\ deletedAt[t] \in 0..version[t] /\ Len(log) \in Nat
      BY <1>a, ListRange, ListState
    <3>2. shown[t] \in Nat /\ shown[t] <= version[t]
      BY <1>a DEF ListTyped, ShownIsApplied
    <3> QED  BY <3>1, <3>2
  <2> QED  BY <1>a, <2>1 DEF ListTyped
<1>2. snapshot \in [sequence : 0..Len(log), updatedAt : Nat, rows : [Thread -> 0..Len(log)]]
  <2>1. /\ snapshot.sequence \in 0..Len(log) /\ \A t \in Thread : snapshot.rows[t] \in 0..Len(log)
        /\ snapshot.rows \in [Thread -> Nat]
    BY <1>a, ListRange, ListState
  <2>2. snapshot.rows \in [Thread -> 0..Len(log)]
    BY <2>1
  <2> QED  BY <1>a, <2>1, <2>2 DEF ListTyped, ListSnapshot
<1>3. lastApplied \in [sequence : -1..Len(log), updatedAt : Nat]
  <2>1. lastApplied.sequence \in -1..Len(log)
    BY <1>a, ListRange
  <2> QED  BY <1>a, <2>1 DEF ListTyped, Applied
<1>4. inbox \in Seq(1..published)
  BY <1>a, ListRange, SeqOfElements DEF ListTyped
<1>5. wire \in Seq([sequence : 1..published, thread : Thread, removes : BOOLEAN, row : 0..Len(log)])
  <2>1. ASSUME NEW k \in 1..Len(wire)
        PROVE  wire[k] \in [sequence : 1..published, thread : Thread, removes : BOOLEAN,
                            row : 0..Len(log)]
    <3>1. wire[k] \in ListItem
      BY <1>a, ElementOfSeq DEF ListTyped
    <3>2. wire[k].sequence \in 1..published /\ wire[k].row \in 0..Len(log)
      BY <1>a, ListRange
    <3> QED  BY <3>1, <3>2 DEF ListItem
  <2> QED  BY <1>a, <2>1, SeqOfElements DEF ListTyped
<1>6. published \in 0..Len(log) /\ missed \subseteq 1..Len(log)
  BY <1>a, ListRange
<1>7. List!TypeOK
  BY <1>a, <1>1, <1>2, <1>3, <1>4, <1>5, <1>6 DEF List!TypeOK, ListTyped, LogEntry
<1>8. List!AppliedIsShown
  <2> SUFFICES ASSUME NEW i \in 1..Len(log), i <= lastApplied.sequence, i \notin missed
               PROVE  LET t == log[i].thread
                      IN  \/ shown[t] >= i /\ ~log[i].deleted
                          \/ shown[t] = 0 /\ deletedAt[t] > 0
                          \/ deletedAt[t] > lastApplied.sequence
                          \/ deletedAt[t] \in missed
    BY DEF List!AppliedIsShown
  <2> DEFINE t == log[i].thread
  <2>1. /\ t \in Thread /\ shown[t] \in Nat /\ deletedAt[t] \in Nat
        /\ lastApplied.sequence \in Int /\ log[i].deleted \in BOOLEAN
    BY <1>a, ListState DEF ListTyped
  <2>2. log[i].deleted => i <= deletedAt[t]
    BY <1>a, <2>1 DEF RowsFollowLog, Deletes
  <2>3. CASE deletedAt[t] = 0
    <3>1. i <= shown[t]
      BY <1>a, <2>1, <2>3 DEF ShownIsApplied
    <3> QED  BY <2>1, <2>2, <2>3, <3>1
  <2>4. CASE deletedAt[t] > 0
    <3>1. deletedAt[t] <= lastApplied.sequence /\ deletedAt[t] \notin missed => shown[t] = 0
      BY <1>a, <2>1, <2>4 DEF ShownIsApplied
    <3>2. deletedAt[t] <= lastApplied.sequence \/ deletedAt[t] > lastApplied.sequence
      BY <2>1
    <3> QED  BY <2>4, <3>1, <3>2
  <2> QED  BY <2>1, <2>3, <2>4
<1> QED  BY <1>7, <1>8 DEF ListIsApplied

(* No step takes the list back.                                            *)
GoesOn ==
  \A t \in Thread :
    /\ shown'[t] >= shown[t] \/ removed'[t]
    /\ removed[t] => removed'[t]

LEMMA ListGoesOn ==
  ASSUME ListBounds, ListInv, [List!Next]_(List!vars)
  PROVE  GoesOn
<1>a. /\ ListTyped /\ WithinLog /\ RowsFollowLog /\ SentInOrder /\ OnlyLive
      /\ ItemsAreRows /\ SnapshotIsRows /\ NothingSkipped /\ ShownIsApplied
  BY DEF ListInv
<1>b. lastApplied.sequence \in Int /\ snapshot.sequence \in Int /\ snapshot.rows \in [Thread -> Nat]
  BY <1>a, ListState
<1>c. \A t \in Thread : shown[t] \in Nat
  BY <1>a DEF ListTyped
<1>1. CASE UNCHANGED << shown, removed >>
  BY <1>1, <1>c DEF GoesOn
<1>2. CASE List!TakeSnapshot
  <2>1. CASE UNCHANGED << shown, removed, lastApplied, missed >>  BY <1>1, <2>1
  <2>2. CASE /\ snapshot.sequence >= lastApplied.sequence /\ shown' = snapshot.rows
             /\ \A t \in Thread :
                  removed'[t] <=> snapshot.rows[t] = 0 /\ (removed[t] \/ shown[t] > 0)
    <3> SUFFICES ASSUME NEW t \in Thread
                 PROVE  /\ snapshot.rows[t] >= shown[t] \/ removed'[t]
                        /\ removed[t] => removed'[t]
      BY <2>2 DEF GoesOn
    <3>1. CASE snapshot.rows[t] = 0
      <4>1. removed'[t] <=> removed[t] \/ shown[t] > 0
        BY <2>2, <3>1
      <4>2. shown[t] > 0 \/ snapshot.rows[t] >= shown[t]
        BY <1>c, <3>1
      <4> QED  BY <4>1, <4>2
    <3>2. CASE snapshot.rows[t] # 0
      <4>1. snapshot.rows[t] > 0 /\ shellStage = "snapshot"
        BY <1>2, <1>a, <1>b, <3>2, TakeSnapshotDoes
      <4>2. shown[t] <= snapshot.rows[t] /\ ~DeletedBy(snapshot.sequence, t)
        BY <1>a, <3>2, <4>1 DEF SnapshotIsRows
      <4>3. ASSUME removed[t]  PROVE FALSE
        <5>1. PICK i \in 1..Len(log) : i <= lastApplied.sequence /\ Deletes(i, t)
          BY <1>a, <4>3 DEF ShownIsApplied, DeletedBy
        <5>2. i <= snapshot.sequence
          BY <1>b, <2>2, <5>1
        <5> QED  BY <4>2, <5>1, <5>2 DEF DeletedBy
      <4> QED  BY <1>b, <1>c, <4>2, <4>3
    <3> QED  BY <3>1, <3>2
  <2> QED  BY <1>2, <1>a, <2>1, <2>2, TakeSnapshotDoes
<1>3. CASE List!TakeItem
  <2>1. CASE UNCHANGED << shown, removed, lastApplied >>  BY <1>1, <2>1
  <2>2. CASE /\ wire[1].sequence > lastApplied.sequence
             /\ \A t \in Thread :
                  IF t = wire[1].thread
                  THEN /\ shown'[t] = IF wire[1].removes THEN 0 ELSE wire[1].row
                       /\ removed'[t] = wire[1].removes
                  ELSE shown'[t] = shown[t] /\ removed'[t] = removed[t]
    <3>0. 1 \in 1..Len(wire)
      BY <1>3, <1>a, TakeItemDoes
    <3>1. /\ wire[1].sequence \in Nat /\ wire[1].row \in Nat /\ wire[1].removes \in BOOLEAN
          /\ wire[1].thread \in Thread
      BY <1>a, <3>0, ListState
    <3> SUFFICES ASSUME NEW t \in Thread
                 PROVE  /\ shown'[t] >= shown[t] \/ removed'[t]
                        /\ removed[t] => removed'[t]
      BY DEF GoesOn
    <3>2. CASE t # wire[1].thread  BY <1>c, <2>2, <3>2
    <3>3. CASE t = wire[1].thread /\ wire[1].removes
      <4>1. removed'[t]
        BY <2>2, <3>3
      <4> QED  BY <4>1
    <3>4. CASE t = wire[1].thread /\ ~wire[1].removes
      <4>1. shown'[t] = wire[1].row
        BY <2>2, <3>4
      <4>2. /\ shown[t] <= wire[1].row /\ wire[1].sequence <= wire[1].row
            /\ \A i \in 1..Len(log) : Deletes(i, t) => wire[1].row < i
        BY <1>a, <3>0, <3>4 DEF ItemsAreRows
      <4>3. ASSUME removed[t]  PROVE FALSE
        <5>1. PICK i \in 1..Len(log) : i <= lastApplied.sequence /\ Deletes(i, t)
          BY <1>a, <4>3 DEF ShownIsApplied, DeletedBy
        <5>2. wire[1].row < i
          BY <4>2, <5>1
        <5> QED  BY <1>b, <2>2, <3>1, <4>2, <5>1, <5>2
      <4> QED  BY <1>c, <3>1, <4>1, <4>2, <4>3
    <3> QED  BY <3>1, <3>2, <3>3, <3>4
  <2> QED  BY <1>3, <1>a, <2>1, <2>2, TakeItemDoes
<1>4. CASE \/ List!Publish \/ List!Subscribe \/ List!SubscribeFails \/ List!Deliver
           \/ List!DeliverFails
  <2>1. UNCHANGED << shown, removed >>
    BY <1>4 DEF List!Publish, List!Subscribe, List!SubscribeFails, List!Deliver,
                List!DeliverFails, List!client
  <2> QED  BY <1>1, <2>1
<1>5. ASSUME NEW t \in Thread, NEW deleted \in BOOLEAN, NEW time \in Time,
             List!Commit(t, deleted, time)
      PROVE  GoesOn
  <2>1. UNCHANGED << shown, removed >>
    BY <1>5 DEF List!Commit, List!client
  <2> QED  BY <1>1, <2>1
<1>6. ASSUME NEW stops \in BOOLEAN, List!Break(stops)  PROVE GoesOn
  <2>1. UNCHANGED << shown, removed >>
    BY <1>6 DEF List!Break, List!client
  <2> QED  BY <1>1, <2>1
<1>7. CASE UNCHANGED List!vars
  BY <1>1, <1>7 DEF List!vars, List!client
<1> QED  BY <1>2, <1>3, <1>4, <1>5, <1>6, <1>7 DEF List!Next

(* The steps of the other scenarios leave the list alone.                  *)
LEMMA ListSteps == [MCNext]_<<scenario, vars, sync, shellVars>> => [List!Next]_(List!vars)
BY DEF MCNext, shellVars, List!vars, List!server, List!connection, List!client

LEMMA ListInvariant == ASSUME ListBounds  PROVE MCSpec => []ListInv
<1>1. MCInit => ListInv
  BY ListInitInv DEF MCInit
<1>2. ListInv /\ [MCNext]_<<scenario, vars, sync, shellVars>> => ListInv'
  BY ListSteps, ListStep
<1> QED  BY <1>1, <1>2, PTL DEF MCSpec

(* The list that a client shows is that of the sequence it compares with,  *)
(* except for what it knows to be missed: whatever breaks, fails or is     *)
(* late (subscribeShell, syncShellSnapshot, applyShellEvent).              *)
THEOREM ListIsThatOfItsSequence ==
  ASSUME ListBounds  PROVE MCSpec => []ListIsApplied
<1>1. ListInv => ListIsApplied
  BY ListInvImplies
<1> QED  BY <1>1, ListInvariant, PTL

(* No step takes a thread of the list back to an older state, and a thread *)
(* that was removed stays removed.                                         *)
THEOREM ListNeverGoesBack ==
  ASSUME ListBounds  PROVE MCSpec => List!NeverBack
<1>1. ListInv /\ [MCNext]_<<scenario, vars, sync, shellVars>>
        => [GoesOn]_(List!vars)
  BY ListSteps, ListGoesOn
<1>2. MCSpec => [][GoesOn]_(List!vars)
  BY <1>1, ListInvariant, PTL DEF MCSpec
<1> QED  BY <1>2 DEF List!NeverBack, GoesOn

=============================================================================
