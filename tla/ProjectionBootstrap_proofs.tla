----------------------- MODULE ProjectionBootstrap_proofs -----------------------
(***************************************************************************)
(* Proofs about ProjectionBootstrap.  For any projectors, versions, limit  *)
(* and length of the log, an event is applied at most once, is missed only *)
(* beyond the limit of a read, and the sequence of the read model is exact *)
(* unless a replay was cut off.  What the pipeline does to the files of    *)
(* messages (Attachments) is proved about at the end.                      *)
(***************************************************************************)
EXTENDS MCProjections, SequenceTheorems, WellFoundedInduction, TLAPS

\* What the cursors and the stream of the projector at work satisfy.
CursorInv ==
  /\ head \in Nat
  /\ installed \in {Older, Projector}
  /\ phase \in {"down", "cursor", "replay", "up"}
  /\ DOMAIN cursor \subseteq installed
  /\ cursor \in [DOMAIN cursor -> Nat]
  /\ \A p \in DOMAIN cursor : cursor[p] \in 1..head
  /\ applied \in [Projector -> Seq(Nat)]
  /\ at \in 0..(Len(Order) + 1)
  /\ phase # "down" => at >= 1
  /\ next \in Nat
  /\ last \in 0..head
  /\ phase = "replay" =>
       /\ at <= Len(Order)
       /\ Order[at] \in installed
       /\ next = CursorOf(Order[at]) + 1

\* The rows of a projector hold nothing beyond its cursor.
RowsBelowCursor ==
  \A p \in Projector : \A i \in 1..Len(applied[p]) : applied[p][i] <= CursorOf(p)

\* The k last events of a projector follow one another.
Unbroken(p, k) ==
  /\ Len(applied[p]) >= k
  /\ k > 0 => applied[p][Len(applied[p])] = applied[p][Len(applied[p]) - k + 1] + k - 1

\* What bootstrap leaves a projector with: all events, or a whole read of them.
Settled(p) == CursorOf(p) = head \/ (p \in short /\ Unbroken(p, ReadLimit))

\* The projectors behind `at` are settled; the read of the one at `at` goes to
\* the end of the log, or is a whole one of which it has applied the beginning.
Level ==
  /\ head <= MaxEvents
  /\ short \subseteq Projector
  /\ phase = "replay" =>
       \/ last = head
       \/ last + 1 - next \in 0..ReadLimit /\ Unbroken(Order[at], ReadLimit - (last + 1 - next))
  /\ phase \in {"cursor", "replay"} =>
       \A i \in 1..Len(Order) : i < at /\ Order[i] \in installed => Settled(Order[i])
  /\ phase = "up" =>
       /\ \A p \in installed : Settled(p)
       /\ \A p \in RequiredNow : snapshotSequence <= CursorOf(p)
       /\ RequiredNow # {} /\ (\A p \in RequiredNow : CursorOf(p) = head) => snapshotSequence = head

LEMMA OrderFacts ==
  /\ Len(Order) \in Nat
  /\ \A i \in 1..Len(Order) : Order[i] \in Projector
  /\ Older \subseteq Projector
  /\ Required \subseteq Projector
BY BootstrapAssumption DEF Projector

\* Running the projectors ps for one event gives each of them its cursor; the
\* others keep theirs.
LEMMA RunCursors ==
  ASSUME CursorInv, NEW ps \in SUBSET Projector, NEW e \in Nat, Run(ps, e)
  PROVE  /\ applied' \in [Projector -> Seq(Nat)]
         /\ DOMAIN cursor' = DOMAIN cursor \cup ps
         /\ cursor' \in [DOMAIN cursor' -> Nat]
         /\ \A p \in ps : cursor'[p] = e
         /\ \A p \in DOMAIN cursor \ ps : cursor'[p] = cursor[p]
  <1>1. /\ applied \in [Projector -> Seq(Nat)]
        /\ cursor \in [DOMAIN cursor -> Nat]
    BY DEF CursorInv
  <1>2. /\ applied' = [p \in Projector |-> IF p \in ps THEN Append(applied[p], e) ELSE applied[p]]
        /\ cursor' = [p \in DOMAIN cursor \cup ps |-> IF p \in ps THEN e ELSE cursor[p]]
    BY DEF Run, WithCursor
  <1>3. applied' \in [Projector -> Seq(Nat)]
    BY <1>1, <1>2
  <1>4. DOMAIN cursor' = DOMAIN cursor \cup ps
    BY <1>2
  <1>5. cursor' \in [DOMAIN cursor' -> Nat]
    BY <1>1, <1>2, <1>4
  <1> QED BY <1>2, <1>3, <1>4, <1>5

\* It appends the event to the rows of each of them.
LEMMA RunOne ==
  ASSUME CursorInv, NEW ps \in SUBSET Projector, NEW e \in Nat, Run(ps, e),
         NEW p \in Projector, p \in ps
  PROVE  /\ CursorOf(p)' = e
         /\ Len(applied'[p]) = Len(applied[p]) + 1
         /\ applied'[p][Len(applied[p]) + 1] = e
         /\ \A i \in 1..Len(applied[p]) : applied'[p][i] = applied[p][i]
  <1>1. applied'[p] = Append(applied[p], e) /\ applied[p] \in Seq(Nat)
    BY DEF CursorInv, Run
  <1>2. p \in DOMAIN cursor' /\ cursor'[p] = e
    <2>1. DOMAIN cursor' = DOMAIN cursor \cup ps
      BY RunCursors
    <2>2. \A q \in ps : cursor'[q] = e
      BY RunCursors
    <2> QED BY <2>1, <2>2
  <1> QED BY <1>1, <1>2 DEF CursorOf

LEMMA RunOther ==
  ASSUME CursorInv, NEW ps \in SUBSET Projector, NEW e \in Nat, Run(ps, e),
         NEW p \in Projector, p \notin ps
  PROVE  applied'[p] = applied[p] /\ CursorOf(p)' = CursorOf(p)
BY DEF CursorOf, Run, WithCursor

LEMMA CursorInit == Init => CursorInv
BY OrderFacts DEF Init, CursorInv

\* A cursor that exists is positive, so that the next event is 1 + CursorOf.
LEMMA CursorIsNat ==
  ASSUME CursorInv
  PROVE  \A p \in Projector : CursorOf(p) \in 0..head
BY DEF CursorInv, CursorOf

LEMMA CursorNext == CursorInv /\ [Next]_vars => CursorInv'
  <1> SUFFICES ASSUME CursorInv, [Next]_vars PROVE CursorInv'
    OBVIOUS
  <1> USE OrderFacts
  <1>1. CASE Start
    BY <1>1 DEF Start, CursorInv, CursorOf
  <1>2. CASE ReadCursor
    <2>1. \A p \in Projector : CursorOf(p) \in 0..head
      BY CursorIsNat
    <2>2. CASE Order[at] \in installed
      <3>1. Order[at] \in Projector /\ CursorOf(Order[at]) \in 0..head
        BY <1>2, <2>1, <2>2 DEF ReadCursor, CursorInv
      <3>2. LastRead(CursorOf(Order[at])) \in 0..head
        BY <3>1, BootstrapAssumption DEF LastRead, CursorInv
      <3> QED BY <1>2, <2>2, <3>1, <3>2 DEF ReadCursor, CursorInv, CursorOf
    <2>3. CASE Order[at] \notin installed
      BY <1>2, <2>3 DEF ReadCursor, CursorInv, CursorOf
    <2> QED BY <2>2, <2>3
  <1>3. CASE Replay
    <2>1. Order[at] \in installed /\ Order[at] \in Projector /\ next \in 1..head
      BY <1>3, CursorIsNat DEF Replay, CursorInv
    <2>2. Run({Order[at]}, next) /\ {Order[at]} \in SUBSET Projector /\ next \in Nat
      BY <1>3, <2>1 DEF Replay, CursorInv
    <2>3. UNCHANGED << head, installed, phase, at, last >> /\ next' = next + 1
      BY <1>3 DEF Replay
    <2>a. PICK e \in Nat, q \in Projector : e = next /\ q = Order[at]
      BY <2>1, <2>2
    <2>b. Run({q}, e)
      BY <2>2, <2>a
    <2>4. applied' \in [Projector -> Seq(Nat)] /\ DOMAIN cursor' = DOMAIN cursor \cup {q}
          /\ cursor' \in [DOMAIN cursor' -> Nat] /\ cursor'[q] = e
          /\ \A p \in DOMAIN cursor \ {q} : cursor'[p] = cursor[p]
      <3>1. PICK ps \in SUBSET Projector : ps = {q}
        OBVIOUS
      <3>2. Run(ps, e)
        BY <2>b, <3>1
      <3>3. applied' \in [Projector -> Seq(Nat)] /\ DOMAIN cursor' = DOMAIN cursor \cup ps
            /\ cursor' \in [DOMAIN cursor' -> Nat] /\ (\A p \in ps : cursor'[p] = e)
            /\ \A p \in DOMAIN cursor \ ps : cursor'[p] = cursor[p]
        BY <3>2, RunCursors
      <3> QED BY <3>1, <3>3
    <2>5. \A p \in DOMAIN cursor' : cursor'[p] \in 1..head'
      BY <2>1, <2>3, <2>4, <2>a DEF CursorInv
    <2>6. at' = at /\ q \in DOMAIN cursor' /\ next' = cursor'[q] + 1
      BY <2>3, <2>4, <2>a
    <2> QED BY <2>1, <2>3, <2>4, <2>5, <2>6, <2>a DEF CursorInv, CursorOf
  <1>4. CASE Replayed
    BY <1>4 DEF Replayed, CursorInv, CursorOf
  <1>5. CASE LoadSnapshot
    BY <1>5 DEF LoadSnapshot, CursorInv, CursorOf
  <1>6. CASE Commit
    <2>1. Run(installed, head + 1) /\ installed \in SUBSET Projector /\ head + 1 \in Nat
      BY <1>6 DEF Commit, CursorInv
    <2>2. UNCHANGED << installed, phase, at, next, last >> /\ head' = head + 1 /\ phase = "up"
      BY <1>6 DEF Commit
    <2>a. PICK e \in Nat, ps \in SUBSET Projector : e = head + 1 /\ ps = installed
      BY <2>1
    <2>b. Run(ps, e)
      BY <2>1, <2>a
    <2>3. applied' \in [Projector -> Seq(Nat)] /\ DOMAIN cursor' = DOMAIN cursor \cup ps
          /\ cursor' \in [DOMAIN cursor' -> Nat] /\ (\A p \in ps : cursor'[p] = e)
          /\ \A p \in DOMAIN cursor \ ps : cursor'[p] = cursor[p]
      BY <2>b, RunCursors
    <2>4. \A p \in DOMAIN cursor' : cursor'[p] \in 1..head'
      BY <2>2, <2>3, <2>a DEF CursorInv
    <2> QED BY <2>2, <2>3, <2>4, <2>a DEF CursorInv
  <1>7. CASE Stop
    BY <1>7 DEF Stop, CursorInv, CursorOf
  <1>8. CASE Upgrade
    BY <1>8 DEF Upgrade, CursorInv, CursorOf
  <1>9. CASE UNCHANGED vars
    BY <1>9 DEF vars, CursorInv, CursorOf
  <1> QED BY <1>1, <1>2, <1>3, <1>4, <1>5, <1>6, <1>7, <1>8, <1>9 DEF Next

\* An event beyond the cursors of ps extends their rows in order.
LEMMA RunInOrder ==
  ASSUME CursorInv, AppliedOnce, RowsBelowCursor,
         NEW ps \in SUBSET Projector, NEW e \in Nat, Run(ps, e),
         \A p \in ps : CursorOf(p) < e
  PROVE  AppliedOnce' /\ RowsBelowCursor'
  <1>1. ASSUME NEW p \in Projector, p \in ps
        PROVE  /\ \A i, j \in 1..Len(applied'[p]) : i < j => applied'[p][i] < applied'[p][j]
               /\ \A i \in 1..Len(applied'[p]) : applied'[p][i] <= CursorOf(p)'
    <2>1. /\ CursorOf(p)' = e
          /\ Len(applied'[p]) = Len(applied[p]) + 1
          /\ applied'[p][Len(applied[p]) + 1] = e
          /\ \A i \in 1..Len(applied[p]) : applied'[p][i] = applied[p][i]
      BY <1>1, RunOne
    <2>2. applied[p] \in Seq(Nat) /\ CursorOf(p) \in Nat /\ CursorOf(p) < e
      BY <1>1, CursorIsNat DEF CursorInv
    <2>3. \A i \in 1..Len(applied[p]) : applied[p][i] \in Nat /\ applied[p][i] < e
      BY <2>2 DEF RowsBelowCursor
    <2>4. \A i, j \in 1..Len(applied[p]) : i < j => applied[p][i] < applied[p][j]
      BY DEF AppliedOnce
    <2>5. Len(applied[p]) \in Nat
      BY <2>2
    <2>6. \A i \in 1..Len(applied'[p]) : i \in 1..Len(applied[p]) \/ i = Len(applied[p]) + 1
      BY <2>1, <2>5
    <2>7. \A i \in 1..Len(applied'[p]) : applied'[p][i] <= e
      BY <2>1, <2>3, <2>6
    <2>8. ASSUME NEW i \in 1..Len(applied'[p]), NEW j \in 1..Len(applied'[p]), i < j
          PROVE  applied'[p][i] < applied'[p][j]
      <3>1. i \in 1..Len(applied[p])
        BY <2>1, <2>5, <2>8
      <3>2. CASE j \in 1..Len(applied[p])
        BY <2>1, <2>4, <2>8, <3>1, <3>2
      <3>3. CASE j = Len(applied[p]) + 1
        BY <2>1, <2>3, <3>1, <3>3
      <3> QED BY <2>6, <3>2, <3>3
    <2> QED BY <2>1, <2>7, <2>8
  <1>2. ASSUME NEW p \in Projector, p \notin ps
        PROVE  applied'[p] = applied[p] /\ CursorOf(p)' = CursorOf(p)
    BY <1>2, RunOther
  <1> QED BY <1>1, <1>2 DEF AppliedOnce, RowsBelowCursor

LEMMA OnceNext ==
  CursorInv /\ AppliedOnce /\ RowsBelowCursor /\ [Next]_vars => AppliedOnce' /\ RowsBelowCursor'
  <1> SUFFICES ASSUME CursorInv, AppliedOnce, RowsBelowCursor, [Next]_vars
               PROVE  AppliedOnce' /\ RowsBelowCursor'
    OBVIOUS
  <1>1. CASE Replay
    <2>1. Order[at] \in Projector /\ next \in Nat /\ Run({Order[at]}, next)
      BY <1>1, OrderFacts DEF Replay, CursorInv
    <2>2. CursorOf(Order[at]) < next
      BY <1>1, <2>1, CursorIsNat DEF Replay, CursorInv
    <2>3. PICK e \in Nat, q \in Projector : e = next /\ q = Order[at]
      BY <2>1
    <2>4. Run({q}, e) /\ \A p \in {q} : CursorOf(p) < e
      BY <2>1, <2>2, <2>3
    <2> QED BY <2>4, RunInOrder
  <1>2. CASE Commit
    <2>1. installed \in SUBSET Projector /\ head + 1 \in Nat /\ Run(installed, head + 1)
      BY <1>2, OrderFacts DEF Commit, CursorInv
    <2>2. \A p \in installed : CursorOf(p) < head + 1
      BY <2>1, CursorIsNat DEF CursorInv
    <2>3. PICK e \in Nat, ps \in SUBSET Projector : e = head + 1 /\ ps = installed
      BY <2>1
    <2>4. Run(ps, e) /\ \A p \in ps : CursorOf(p) < e
      BY <2>1, <2>2, <2>3
    <2> QED BY <2>4, RunInOrder
  <1>3. CASE UNCHANGED << cursor, applied >>
    BY <1>3 DEF AppliedOnce, RowsBelowCursor, CursorOf
  <1> QED BY <1>1, <1>2, <1>3
       DEF Next, vars, Start, ReadCursor, Replayed, LoadSnapshot, Stop, Upgrade

\* In every behaviour, whatever the limit and wherever the server stops, the
\* rows of a projector take an event at most once (runProjectorForEvent).
THEOREM AppliedAtMostOnce == Spec => []AppliedOnce
  <1>1. Init => CursorInv /\ AppliedOnce /\ RowsBelowCursor
    BY CursorInit DEF Init, AppliedOnce, RowsBelowCursor
  <1>2. CursorInv /\ AppliedOnce /\ RowsBelowCursor /\ [Next]_vars
        => (CursorInv /\ AppliedOnce /\ RowsBelowCursor)'
    BY CursorNext, OnceNext
  <1> QED BY <1>1, <1>2, PTL DEF Spec

\* The event after a cursor keeps the rows without gaps, and so does a later one
\* for a projector that has applied a whole read.
LEMMA RunWithoutGaps ==
  ASSUME CursorInv, NoGaps, MissesBeyondLimit,
         NEW ps \in SUBSET Projector, NEW e \in Nat, Run(ps, e), UNCHANGED short,
         \A p \in ps : CursorOf(p) = e - 1 \/ (p \in short /\ Unbroken(p, ReadLimit))
  PROVE  NoGaps' /\ MissesBeyondLimit'
  <1>1. ASSUME NEW p \in Projector, p \in ps
        PROVE  /\ applied'[p] # << >> /\ applied'[p][Len(applied'[p])] = CursorOf(p)'
               /\ p \notin short => Len(applied'[p]) = CursorOf(p)'
               /\ \A i \in 1..Len(applied'[p]) :
                    \/ applied'[p][i] = (IF i = 1 THEN 0 ELSE applied'[p][i - 1]) + 1
                    \/ i > ReadLimit /\ applied'[p][i - 1] = applied'[p][i - ReadLimit] + ReadLimit - 1
    <2> DEFINE n == Len(applied[p])
    <2>1. /\ CursorOf(p)' = e
          /\ Len(applied'[p]) = n + 1
          /\ applied'[p][n + 1] = e
          /\ \A i \in 1..n : applied'[p][i] = applied[p][i]
      BY <1>1, RunOne
    <2>2. n \in Nat /\ (n = 0 <=> applied[p] = << >>) /\ applied[p] \in Seq(Nat)
      BY DEF CursorInv
    <2>3. /\ IF n = 0 THEN CursorOf(p) = 0 ELSE applied[p][n] = CursorOf(p)
          /\ p \notin short => n = CursorOf(p)
      BY <2>2 DEF NoGaps
    <2>4. \A i \in 1..n :
            \/ applied[p][i] = (IF i = 1 THEN 0 ELSE applied[p][i - 1]) + 1
            \/ i > ReadLimit /\ applied[p][i - 1] = applied[p][i - ReadLimit] + ReadLimit - 1
      BY DEF MissesBeyondLimit
    <2>5. ReadLimit \in Nat \ {0}
      BY BootstrapAssumption
    <2> HIDE DEF n
    <2>6. applied'[p] # << >>
      BY <2>1, <2>2
    <2>7. p \notin short => Len(applied'[p]) = CursorOf(p)'
      BY <1>1, <2>1, <2>3
    <2>8. ASSUME NEW i \in 1..n
          PROVE  \/ applied'[p][i] = (IF i = 1 THEN 0 ELSE applied'[p][i - 1]) + 1
                 \/ i > ReadLimit /\ applied'[p][i - 1] = applied'[p][i - ReadLimit] + ReadLimit - 1
      <3>1. i > 1 => i - 1 \in 1..n
        BY <2>2
      <3>2. i > ReadLimit => i - 1 \in 1..n /\ i - ReadLimit \in 1..n
        BY <2>2, <2>5
      <3> QED BY <2>1, <2>4, <3>1, <3>2
    <2>m. PICK m \in Nat : m = n + 1
      BY <2>2
    <2>9. \/ applied'[p][m] = (IF m = 1 THEN 0 ELSE applied'[p][m - 1]) + 1
          \/ m > ReadLimit /\ applied'[p][m - 1] = applied'[p][m - ReadLimit] + ReadLimit - 1
      <3>0. applied'[p][m] = e /\ m - 1 = n
        BY <2>1, <2>2, <2>m
      <3>1. CASE CursorOf(p) = e - 1
        <4>1. CASE n = 0
          BY <2>3, <2>m, <3>0, <3>1, <4>1
        <4>2. CASE n # 0
          <5>1. applied'[p][n] = applied[p][n] /\ m # 1
            BY <2>1, <2>2, <2>m, <4>2
          <5> QED BY <2>3, <3>0, <3>1, <4>2, <5>1
        <4> QED BY <4>1, <4>2
      <3>2. CASE Unbroken(p, ReadLimit)
        <4>1. n >= ReadLimit /\ applied[p][n] = applied[p][n - ReadLimit + 1] + ReadLimit - 1
          BY <2>5, <3>2 DEF Unbroken, n
        <4>2. m - ReadLimit = n - ReadLimit + 1 /\ n - ReadLimit + 1 \in 1..n /\ n \in 1..n /\ m > ReadLimit
          BY <2>2, <2>5, <2>m, <4>1
        <4>3. applied'[p][n] = applied[p][n] /\ applied'[p][m - ReadLimit] = applied[p][n - ReadLimit + 1]
          BY <2>1, <4>2
        <4>4. applied'[p][m - 1] = applied'[p][n]
          BY <3>0
        <4> QED BY <4>1, <4>2, <4>3, <4>4
      <3> QED BY <1>1, <3>1, <3>2
    <2>10. \A i \in 1..Len(applied'[p]) : i \in 1..n \/ i = n + 1
      BY <2>1, <2>2
    <2>11. \A i \in 1..Len(applied'[p]) :
             \/ applied'[p][i] = (IF i = 1 THEN 0 ELSE applied'[p][i - 1]) + 1
             \/ i > ReadLimit /\ applied'[p][i - 1] = applied'[p][i - ReadLimit] + ReadLimit - 1
      <3> SUFFICES ASSUME NEW i \in 1..Len(applied'[p])
                   PROVE  \/ applied'[p][i] = (IF i = 1 THEN 0 ELSE applied'[p][i - 1]) + 1
                          \/ i > ReadLimit /\ applied'[p][i - 1] = applied'[p][i - ReadLimit] + ReadLimit - 1
        OBVIOUS
      <3>1. CASE i \in 1..n
        BY <2>8, <3>1
      <3>2. CASE i = n + 1
        <4>1. i = m
          BY <2>m, <3>2
        <4> QED BY <2>9, <4>1, Zenon
      <3> QED BY <2>10, <3>1, <3>2
    <2> QED BY <2>1, <2>6, <2>7, <2>11
  <1>2. ASSUME NEW p \in Projector, p \notin ps
        PROVE  applied'[p] = applied[p] /\ CursorOf(p)' = CursorOf(p)
    BY <1>2, RunOther
  <1>3. NoGaps'
    BY <1>1, <1>2 DEF NoGaps
  <1>4. MissesBeyondLimit'
    BY <1>1, <1>2 DEF MissesBeyondLimit
  <1> QED BY <1>3, <1>4

\* Every set of numbers that is not empty has a least element.
LEMMA LeastNumber ==
  ASSUME NEW S \in SUBSET Nat, S # {}
  PROVE  \E s \in S : \A x \in S : s <= x
  <1> DEFINE R == {ss \in Nat \X Nat : ss[1] < ss[2]}
  <1>1. IsWellFoundedOn(R, Nat)
    BY NatLessThanWellFounded DEF OpToRel
  <1>2. PICK s \in S : \A y \in S : ~ (<< y, s >> \in R)
    BY <1>1, WFMin
  <1>3. \A x \in S : ~ (x < s)
    BY <1>2
  <1> QED BY <1>3

\* The sequence that the snapshot gets is that of one of its tables, and none is
\* behind it.
LEMMA SnapshotIsLeast ==
  ASSUME CursorInv
  PROVE  SnapshotSequence \in 0..head /\ \A p \in RequiredNow : SnapshotSequence <= CursorOf(p)
  <1>1. \A p \in RequiredNow : CursorOf(p) \in 0..head
    BY CursorIsNat, OrderFacts DEF RequiredNow
  <1>2. CASE RequiredNow = {} \/ ~ (RequiredNow \subseteq DOMAIN cursor)
    BY <1>1, <1>2 DEF SnapshotSequence, CursorInv
  <1>3. CASE RequiredNow # {} /\ RequiredNow \subseteq DOMAIN cursor
    <2> DEFINE S == {cursor[p] : p \in RequiredNow}
    <2>1. S \in SUBSET (0..head) /\ S # {} /\ S \in SUBSET Nat
      BY <1>3 DEF CursorInv
    <2>2. PICK s \in S : \A x \in S : s <= x
      BY <2>1, LeastNumber
    <2>3. \E t \in S : \A p \in RequiredNow : t <= cursor[p]
      BY <2>2
    <2>4. SnapshotSequence = CHOOSE t \in S : \A p \in RequiredNow : t <= cursor[p]
      BY <1>3 DEF SnapshotSequence
    <2>5. SnapshotSequence \in S /\ \A p \in RequiredNow : SnapshotSequence <= cursor[p]
      BY <2>3, <2>4
    <2> QED BY <1>3, <2>1, <2>5 DEF CursorOf
  <1> QED BY <1>2, <1>3

\* The sequence that the snapshot gets when every table is level with the log.
LEMMA SnapshotOfLevelTables ==
  ASSUME CursorInv, \A p \in RequiredNow : CursorOf(p) = head, RequiredNow # {}
  PROVE  SnapshotSequence = head
  <1>1. PICK p \in RequiredNow : CursorOf(p) = head
    OBVIOUS
  <1>2. CASE head = 0
    <2>1. \A q \in DOMAIN cursor : cursor[q] \in 1..0
      BY <1>2 DEF CursorInv
    <2>2. p \notin DOMAIN cursor
      BY <2>1
    <2> QED BY <1>1, <1>2, <2>2 DEF SnapshotSequence
  <1>3. CASE head # 0
    <2>1. RequiredNow \subseteq DOMAIN cursor
      BY <1>3 DEF CursorOf
    <2>2. {cursor[q] : q \in RequiredNow} = {head}
      BY <1>1, <2>1 DEF CursorOf
    <2>3. \A q \in RequiredNow : head <= cursor[q]
      BY <2>1 DEF CursorOf, CursorInv
    <2>4. \A s \in {cursor[q] : q \in RequiredNow} : s = head
      BY <2>2
    <2> QED BY <2>1, <2>2, <2>3, <2>4 DEF SnapshotSequence
  <1> QED BY <1>2, <1>3

\* What a step that leaves the rows alone keeps of a projector.
LEMMA SettledStays ==
  ASSUME UNCHANGED << cursor, applied, head >>, short \subseteq short'
  PROVE  /\ \A p : Settled(p) => Settled(p)'
         /\ \A p, k : Unbroken(p, k) => Unbroken(p, k)'
         /\ \A p : CursorOf(p)' = CursorOf(p)
BY DEF Settled, Unbroken, CursorOf

LEMMA LevelNext ==
  CursorInv /\ NoGaps /\ MissesBeyondLimit /\ Level /\ [Next]_vars
    => NoGaps' /\ MissesBeyondLimit' /\ Level'
  <1> SUFFICES ASSUME CursorInv, NoGaps, MissesBeyondLimit, Level, [Next]_vars
               PROVE  NoGaps' /\ MissesBeyondLimit' /\ Level'
    OBVIOUS
  <1>0. UNCHANGED << cursor, applied >> /\ short \subseteq short' => NoGaps' /\ MissesBeyondLimit'
    BY DEF NoGaps, MissesBeyondLimit, CursorOf
  <1>a. short \subseteq Projector /\ head <= MaxEvents
    BY DEF Level
  <1> USE OrderFacts
  <1>1. CASE Start
    BY <1>0, <1>1 DEF Start, Level, CursorInv
  <1>2. CASE ReadCursor
    <2>1. CASE Order[at] \in installed
      <3>1. /\ UNCHANGED << head, cursor, applied, installed, short, at >> /\ phase = "cursor"
            /\ phase' = "replay" /\ next' = CursorOf(Order[at]) + 1
            /\ last' = LastRead(CursorOf(Order[at])) /\ at <= Len(Order)
        BY <1>2, <2>1 DEF ReadCursor
      <3>2. CursorOf(Order[at]) \in 0..head /\ ReadLimit \in Nat /\ head \in Nat
            /\ Order[at] \in Projector
        BY <2>1, <3>1, CursorIsNat, BootstrapAssumption DEF CursorInv
      <3>3. last' = head \/ (last' + 1 - next' = ReadLimit)
        BY <3>1, <3>2 DEF LastRead
      <3>4. Unbroken(Order[at], 0)
        <4>1. applied[Order[at]] \in Seq(Nat)
          BY <3>2 DEF CursorInv
        <4> QED BY <4>1 DEF Unbroken
      <3>6. \/ last' = head'
            \/ (last + 1 - next \in 0..ReadLimit /\ Unbroken(Order[at], ReadLimit - (last + 1 - next)))'
        <4>1. CASE last' = head
          BY <3>1, <4>1
        <4>2. CASE last' + 1 - next' = ReadLimit
          <5>1. ReadLimit - (last' + 1 - next') = 0 /\ last' + 1 - next' \in 0..ReadLimit
            BY <3>2, <4>2
          <5>2. Len(applied'[Order[at']]) >= 0
            BY <3>1, <3>4 DEF Unbroken
          <5> QED BY <5>1, <5>2 DEF Unbroken
        <4> QED BY <3>3, <4>1, <4>2
      <3>7. \A i \in 1..Len(Order) : i < at' /\ Order[i] \in installed' => Settled(Order[i])'
        BY <3>1, SettledStays DEF Level
      <3> QED BY <1>0, <1>a, <3>1, <3>6, <3>7 DEF Level
    <2>2. CASE Order[at] \notin installed
      <3>1. UNCHANGED << head, cursor, applied, installed, phase, next, last, short >> /\ at' = at + 1
            /\ phase = "cursor"
        BY <1>2, <2>2 DEF ReadCursor
      <3>2. \A i \in 1..Len(Order) : i < at' /\ Order[i] \in installed' => Settled(Order[i])'
        BY <2>2, <3>1, SettledStays DEF Level, CursorInv
      <3> QED BY <1>0, <1>a, <3>1, <3>2 DEF Level
    <2> QED BY <2>1, <2>2
  <1>3. CASE Replay
    <2>1. /\ Order[at] \in Projector /\ next \in Nat /\ Run({Order[at]}, next)
          /\ phase = "replay" /\ at \in 1..Len(Order) /\ next <= last
          /\ CursorOf(Order[at]) = next - 1 /\ CursorOf(Order[at]) \in 0..head
      BY <1>3, CursorIsNat DEF Replay, CursorInv
    <2>a. PICK e \in Nat, q \in Projector : e = next /\ q = Order[at]
      BY <2>1
    <2>b. Run({q}, e) /\ \A p \in {q} : CursorOf(p) = e - 1
      BY <2>1, <2>a
    <2>3. UNCHANGED << head, installed, phase, at, last, short >> /\ next' = next + 1
      BY <1>3 DEF Replay
    <2>2. NoGaps' /\ MissesBeyondLimit'
      BY <2>b, <2>3, RunWithoutGaps
    <2>4. ASSUME NEW i \in 1..Len(Order), i < at, Order[i] \in installed
          PROVE  Settled(Order[i])'
      <3>1. Order[i] # Order[at] /\ Order[i] \in Projector
        BY <2>1, <2>4, BootstrapAssumption
      <3>2. PICK r \in Projector : r = Order[i]
        BY <3>1
      <3>3. r \in Projector \ {q} /\ Settled(r)
        BY <2>1, <2>4, <2>a, <3>1, <3>2 DEF Level
      <3>4. applied'[r] = applied[r] /\ CursorOf(r)' = CursorOf(r)
        BY <2>b, <3>3, RunOther
      <3>5. Settled(r)'
        BY <2>3, <3>3, <3>4 DEF Settled, Unbroken
      <3> QED BY <3>2, <3>5
    <2>5. \/ last' = head'
          \/ (last + 1 - next \in 0..ReadLimit /\ Unbroken(Order[at], ReadLimit - (last + 1 - next)))'
      <3>1. CASE last = head
        BY <2>3, <3>1
      <3>2. CASE last + 1 - next \in 0..ReadLimit /\ Unbroken(Order[at], ReadLimit - (last + 1 - next))
        <4>0. last \in Nat /\ ReadLimit \in Nat
          BY BootstrapAssumption DEF CursorInv
        <4>k. PICK k \in Nat : k = ReadLimit - (last + 1 - next)
          BY <2>1, <3>2, <4>0
        <4>n. PICK n \in Nat : n = Len(applied[q])
          BY DEF CursorInv
        <4>j. PICK j \in Nat : j = k + 1
          OBVIOUS
        <4>1. last' + 1 - next' \in 0..ReadLimit /\ ReadLimit - (last' + 1 - next') = j
          <5>1. last' + 1 - next' = (last + 1 - next) - 1
            BY <2>1, <2>3, <4>0
          <5>2. last + 1 - next >= 1
            BY <2>1, <4>0
          <5> QED BY <2>1, <3>2, <4>0, <4>j, <4>k, <5>1, <5>2
        <4>2. Unbroken(q, k)
          BY <2>a, <3>2, <4>k
        <4>3. /\ Len(applied'[q]) = n + 1
              /\ applied'[q][n + 1] = e
              /\ \A i \in 1..n : applied'[q][i] = applied[q][i]
          <5>1. PICK ps \in SUBSET Projector : ps = {q}
            OBVIOUS
          <5>2. Run(ps, e)
            BY <2>b, <5>1
          <5>2a. q \in ps
            BY <5>1
          <5>3. /\ CursorOf(q)' = e
                /\ Len(applied'[q]) = Len(applied[q]) + 1
                /\ applied'[q][Len(applied[q]) + 1] = e
                /\ \A i \in 1..Len(applied[q]) : applied'[q][i] = applied[q][i]
            BY <5>2, <5>2a, RunOne
          <5> QED BY <4>n, <5>3, Zenon
        <4>4. n # 0 => applied[q][n] = e - 1
          <5>1. applied[q] \in Seq(Nat)
            BY DEF CursorInv
          <5> QED BY <2>b, <4>n, <5>1 DEF NoGaps
        <4>5. n >= k /\ (k > 0 => applied[q][n] = applied[q][n - k + 1] + k - 1)
          BY <4>2, <4>n DEF Unbroken
        <4>6. k > 0 => applied'[q][n - k + 1] = e - k
          <5> SUFFICES ASSUME k > 0 PROVE applied'[q][n - k + 1] = e - k
            OBVIOUS
          <5>1. n - k + 1 \in 1..n /\ n # 0
            BY <4>5
          <5>2. PICK x \in Nat : x = applied[q][n - k + 1]
            BY <4>n, <5>1 DEF CursorInv
          <5>3. e - 1 = x + k - 1
            BY <4>4, <4>5, <5>1, <5>2
          <5>4. applied'[q][n - k + 1] = x
            BY <4>3, <5>1, <5>2
          <5> QED BY <5>3, <5>4
        <4>7. Unbroken(q, j)'
          <5>1. PICK m \in Nat : m = n + 1
            OBVIOUS
          <5>2. Len(applied'[q]) = m /\ applied'[q][m] = e
            BY <4>3, <5>1, Zenon
          <5>3. m - j + 1 = n - k + 1 /\ m >= j
            BY <4>5, <4>j, <5>1
          <5>4. applied'[q][m - j + 1] = e - k
            <6>1. CASE k = 0
              <7>1. m - j + 1 = m
                BY <4>j, <5>1, <6>1
              <7> QED BY <5>2, <6>1, <7>1
            <6>2. CASE k > 0
              BY <4>6, <5>3, <6>2
            <6> QED BY <6>1, <6>2
          <5>5. e = (e - k) + j - 1
            BY <4>j
          <5>6. applied'[q][m] = applied'[q][m - j + 1] + j - 1
            BY <5>2, <5>4, <5>5
          <5>7. Len(applied'[q]) >= j
            BY <5>2, <5>3
          <5>8. applied'[q][Len(applied'[q])] = applied'[q][Len(applied'[q]) - j + 1] + j - 1
            BY <5>2, <5>6, Zenon
          <5> QED BY <5>7, <5>8 DEF Unbroken
        <4>8. Unbroken(Order[at], ReadLimit - (last + 1 - next))'
          <5>1. q = Order[at'] /\ j = ReadLimit - (last' + 1 - next')
            BY <2>3, <2>a, <4>1
          <5> QED BY <4>7, <5>1 DEF Unbroken
        <4> QED BY <4>1, <4>8
      <3> QED BY <2>1, <3>1, <3>2 DEF Level
    <2> QED BY <1>a, <2>1, <2>2, <2>3, <2>4, <2>5 DEF Level
  <1>4. CASE Replayed
    <2>1. UNCHANGED << head, cursor, applied, installed >> /\ at' = at + 1 /\ phase' = "cursor"
          /\ phase = "replay" /\ next > last
          /\ short' = IF last < head THEN short \cup {Order[at]} ELSE short
      BY <1>4 DEF Replayed
    <2>2. Order[at] \in Projector /\ CursorOf(Order[at]) \in 0..head /\ next = CursorOf(Order[at]) + 1
          /\ last \in 0..head /\ head \in Nat
      BY <2>1, CursorIsNat DEF CursorInv
    <2>3. short \subseteq short' /\ short' \subseteq Projector
      BY <1>a, <2>1, <2>2
    <2>a. PICK q \in Projector : q = Order[at]
      BY <2>2
    <2>b. \A p : (Settled(p) => Settled(p)') /\ CursorOf(p)' = CursorOf(p)
      BY <2>1, <2>3, SettledStays
    <2>4. Settled(q)'
      <3>1. CASE last = head
        <4>1. CursorOf(q) = head
          BY <2>1, <2>2, <2>a, <3>1
        <4> QED BY <2>1, <2>b, <4>1 DEF Settled
      <3>2. CASE last # head
        <4>1. last + 1 - next \in 0..ReadLimit /\ Unbroken(Order[at], ReadLimit - (last + 1 - next))
          BY <2>1, <3>2 DEF Level
        <4>2. last + 1 - next = 0 /\ ReadLimit - (last + 1 - next) = ReadLimit
          BY <2>1, <2>2, <4>1, BootstrapAssumption
        <4>3. last < head
          BY <2>2, <3>2
        <4>4. Unbroken(q, ReadLimit) /\ q \in short'
          BY <2>1, <2>a, <4>1, <4>2, <4>3
        <4> QED BY <2>1, <4>4 DEF Settled, Unbroken
      <3> QED BY <3>1, <3>2
    <2>5. ASSUME NEW i \in 1..Len(Order), i < at', Order[i] \in installed'
          PROVE  Settled(Order[i])'
      <3>1. CASE i = at
        BY <2>4, <2>a, <3>1
      <3>2. CASE i # at
        <4>1. i < at
          BY <2>1, <2>5, <3>2 DEF CursorInv
        <4>2. Settled(Order[i])
          BY <2>1, <2>5, <4>1 DEF Level
        <4> QED BY <2>b, <4>2
      <3> QED BY <3>1, <3>2
    <2> QED BY <1>0, <1>a, <2>1, <2>3, <2>5 DEF Level
  <1>5. CASE LoadSnapshot
    <2>1. UNCHANGED << head, cursor, applied, installed, short >> /\ phase' = "up" /\ phase = "cursor"
          /\ at > Len(Order) /\ snapshotSequence' = SnapshotSequence
      BY <1>5 DEF LoadSnapshot
    <2>2. \A p \in installed : Settled(p)
      <3>1. \A p \in installed : \E i \in 1..Len(Order) : p = Order[i]
        BY DEF CursorInv, Projector
      <3> QED BY <2>1, <3>1 DEF Level, CursorInv
    <2>3. RequiredNow # {} /\ (\A p \in RequiredNow : CursorOf(p) = head) => SnapshotSequence = head
      BY SnapshotOfLevelTables
    <2>4. \A p \in RequiredNow : SnapshotSequence <= CursorOf(p)
      BY SnapshotIsLeast
    <2>5. \A p : (Settled(p) => Settled(p)') /\ CursorOf(p)' = CursorOf(p)
      BY <2>1, SettledStays
    <2>6. RequiredNow' = RequiredNow
      BY <2>1 DEF RequiredNow
    <2> QED BY <1>0, <1>a, <2>1, <2>2, <2>3, <2>4, <2>5, <2>6 DEF Level
  <1>6. CASE Commit
    <2>1. /\ installed \in SUBSET Projector /\ head + 1 \in Nat /\ Run(installed, head + 1)
          /\ phase = "up" /\ head < MaxEvents /\ head \in Nat
      BY <1>6 DEF Commit, CursorInv
    <2>2. \A p \in installed :
            CursorOf(p) = (head + 1) - 1 \/ (p \in short /\ Unbroken(p, ReadLimit))
      BY <2>1 DEF Level, Settled
    <2>a. PICK e \in Nat, ps \in SUBSET Projector : e = head + 1 /\ ps = installed
      BY <2>1
    <2>b. Run(ps, e) /\ \A p \in ps : CursorOf(p) = e - 1 \/ (p \in short /\ Unbroken(p, ReadLimit))
      BY <2>1, <2>2, <2>a
    <2>5. UNCHANGED << installed, phase, short >> /\ head' = head + 1 /\ snapshotSequence' = head + 1
      BY <1>6 DEF Commit
    <2>3. NoGaps' /\ MissesBeyondLimit'
      BY <2>b, <2>5, RunWithoutGaps
    <2>c. ASSUME NEW p \in ps PROVE CursorOf(p)' = e
      <3>1. DOMAIN cursor' = DOMAIN cursor \cup ps
        BY <2>b, RunCursors
      <3>2. \A q \in ps : cursor'[q] = e
        BY <2>b, RunCursors
      <3> QED BY <3>1, <3>2 DEF CursorOf
    <2>4. \A p \in installed' : CursorOf(p)' = head'
      BY <2>5, <2>a, <2>c
    <2>6. head' <= MaxEvents /\ head' \in Nat
      BY <2>1, <2>5, BootstrapAssumption
    <2>7. \A p \in RequiredNow' : p \in installed'
      BY DEF RequiredNow
    <2> QED BY <1>a, <2>1, <2>3, <2>4, <2>5, <2>6, <2>7 DEF Level, Settled
  <1>7. CASE Stop
    BY <1>0, <1>7 DEF Stop, Level
  <1>8. CASE Upgrade
    BY <1>0, <1>8 DEF Upgrade, Level
  <1>9. CASE UNCHANGED vars
    <2>1. UNCHANGED << head, cursor, applied, installed, phase, at, next, last, snapshotSequence, short >>
      BY <1>9 DEF vars
    <2> QED BY <1>0, <2>1 DEF Level, Settled, Unbroken, CursorOf, RequiredNow
  <1> QED BY <1>1, <1>2, <1>3, <1>4, <1>5, <1>6, <1>7, <1>8, <1>9 DEF Next

LEMMA LevelInit == Init => NoGaps /\ MissesBeyondLimit /\ Level
BY BootstrapAssumption DEF Init, NoGaps, MissesBeyondLimit, Level, CursorOf

\* The variables of which CursorInv does not give the bound.
Bounds ==
  /\ head <= MaxEvents
  /\ next <= head + 1
  /\ snapshotSequence \in 0..head
  /\ stops \in 0..MaxStops

LEMMA BoundsNext ==
  CursorInv /\ Level /\ Bounds /\ [Next]_vars => Bounds'
  <1> SUFFICES ASSUME CursorInv, Level, Bounds, [Next]_vars PROVE Bounds'
    OBVIOUS
  <1> USE BootstrapAssumption
  <1>1. CASE ReadCursor
    <2>1. Order[at] \in installed => CursorOf(Order[at]) \in 0..head
      BY <1>1, OrderFacts, CursorIsNat DEF ReadCursor, CursorInv
    <2> QED BY <1>1, <2>1 DEF ReadCursor, Bounds, CursorInv
  <1>2. CASE Replay
    BY <1>2 DEF Replay, Bounds, CursorInv
  <1>3. CASE LoadSnapshot
    BY <1>3, SnapshotIsLeast DEF LoadSnapshot, Bounds, CursorInv
  <1>4. CASE Commit
    BY <1>4 DEF Commit, Bounds, CursorInv
  <1>5. CASE Stop
    BY <1>5 DEF Stop, Bounds
  <1>6. CASE UNCHANGED << head, next, snapshotSequence, stops >>
    BY <1>6 DEF Bounds
  <1> QED BY <1>1, <1>2, <1>3, <1>4, <1>5, <1>6 DEF Next, vars, Start, Replayed, Upgrade

LEMMA TypesFromInv ==
  CursorInv /\ AppliedOnce /\ RowsBelowCursor /\ MissesBeyondLimit /\ Level /\ Bounds => TypeOK
  <1> SUFFICES ASSUME CursorInv, AppliedOnce, RowsBelowCursor, MissesBeyondLimit, Level, Bounds
               PROVE  TypeOK
    OBVIOUS
  <1>1. applied \in [Projector -> Seq(1..head)]
    <2>1. ASSUME NEW p \in Projector PROVE applied[p] \in Seq(1..head)
      <3>1. applied[p] \in Seq(Nat) /\ CursorOf(p) \in 0..head /\ head \in Nat
        BY CursorIsNat DEF CursorInv
      <3>2. ASSUME NEW i \in 1..Len(applied[p]) PROVE applied[p][i] \in 1..head
        <4>1. applied[p][i] \in Nat /\ applied[p][i] <= CursorOf(p)
          BY <3>1 DEF RowsBelowCursor
        <4>2. 1 \in 1..Len(applied[p]) /\ Len(applied[p]) \in Nat
          BY <3>1
        <4>3. applied[p][1] = 1
          BY <4>2, BootstrapAssumption DEF MissesBeyondLimit
        <4>4. i = 1 \/ applied[p][1] < applied[p][i]
          BY <4>2 DEF AppliedOnce
        <4> QED BY <3>1, <4>1, <4>3, <4>4
      <3>3. applied[p] \in [1..Len(applied[p]) -> 1..head]
        BY <3>1, <3>2, LenProperties
      <3>4. Len(applied[p]) \in Nat
        BY <3>1, LenProperties
      <3> QED BY <3>3, <3>4, SeqDef, Zenon
    <2> QED BY <2>1 DEF CursorInv
  <1> QED BY <1>1, BootstrapAssumption DEF TypeOK, CursorInv, Bounds, Level

LEMMA ExactFromLevel == Level => SnapshotExact
  <1> SUFFICES ASSUME Level, phase = "up"
               PROVE  /\ \A p \in installed \ short : CursorOf(p) = head
                      /\ RequiredNow # {} /\ RequiredNow \cap short = {} => snapshotSequence = head
                      /\ \A p \in RequiredNow : snapshotSequence <= CursorOf(p)
    BY DEF SnapshotExact
  <1>1. \A p \in installed \ short : CursorOf(p) = head
    BY DEF Level, Settled
  <1> QED BY <1>1 DEF Level, RequiredNow

\* Cursors, rows and the sequence of the read model agree in every behaviour,
\* whatever the limit of a read: while no replay is cut off there are no gaps and
\* the sequence is exact; a projector misses events only after a whole read
\* (bootstrapProjector, computeSnapshotSequence).
THEOREM CursorsStayTrue == Spec => []CursorsAgree
  <1> DEFINE Inv == /\ CursorInv /\ AppliedOnce /\ RowsBelowCursor
                    /\ NoGaps /\ MissesBeyondLimit /\ Level /\ Bounds
  <1>1. Init => Inv
    <2>1. Init => AppliedOnce /\ RowsBelowCursor /\ Bounds
      BY BootstrapAssumption DEF Init, AppliedOnce, RowsBelowCursor, Bounds
    <2> QED BY <2>1, CursorInit, LevelInit
  <1>2. Inv /\ [Next]_vars => Inv'
    BY CursorNext, OnceNext, LevelNext, BoundsNext
  <1>3. Inv => CursorsAgree
    BY TypesFromInv, ExactFromLevel DEF CursorsAgree
  <1> QED BY <1>1, <1>2, <1>3, PTL DEF Spec

-----------------------------------------------------------------------------
(***************************************************************************)
(* Proofs about Attachments, for any segments of file names.  Whatever     *)
(* overlaps and fails, a cut takes files with the segment of its thread    *)
(* only, a message is committed with all its files unless a cut took them, *)
(* and a row lacks files for named reasons only.  While clients wait for   *)
(* the cuts of their thread, deletions leave nothing, and when nothing     *)
(* fails either, reverts do not.                                           *)
(***************************************************************************)
\* Messages and commands differ; a message belongs to one of the threads, and
\* a cut is a revert or a deletion of one.
FileBounds ==
  /\ Messages \cap Cuts = {}
  /\ None \notin Messages \cup Cuts
  /\ Owner \in [Messages -> Threads]
  /\ Cuts \subseteq [thread : Threads, keep : Nat \cup {Delete}]
  /\ Parts \in Nat

\* A command that waits, or whose transaction is open, is known as such, and
\* waits once.
CommandsWait ==
  /\ \A i \in 1..Len(queue) :
       /\ queue[i] \in Messages => stage[queue[i]] = "queued"
       /\ queue[i] \in Cuts => cut[queue[i]] = "queued"
       /\ queue[i] # current
  /\ \A i, j \in 1..Len(queue) : queue[i] = queue[j] => i = j
  /\ current \in Messages => stage[current] = "queued"
  /\ current \in Cuts => cut[current] = "queued"

\* Whether a cut has been at work on files with the segment of a thread.
WasCut(t) ==
  \E c \in Cuts : Files!SameSegment(c.thread, t) /\ (cut[c] \in {"done", "failed"} \/ current = c)

\* What a send that is under way has written is there, unless a cut took it.
WritesAreThere ==
  /\ \A m \in Messages : stage[m] = "new" => written[m] = 0
  /\ \A m \in Messages : stage[m] = "queued" => written[m] = Parts
  /\ \A m \in Files!SendsUnderway :
       (\A p \in 1..written[m] : <<m, p>> \in files) \/ WasCut(Owner[m])

FilesInv == Files!TypeOK /\ CommandsWait /\ WritesAreThere

\* Clients wait for the cuts of their thread, and send to no deleted one.
SendsWait ==
  /\ \A m \in Files!SendsUnderway : \A c \in Files!CutsUnderway : Owner[m] # c.thread
  /\ \A m \in Files!SendsUnderway : Owner[m] \notin deleted

\* The rows of a thread are of its own messages, which have been sent.
RowsAreSent ==
  \A t \in Threads : \A m \in Files!Shown(t) : stage[m] = "sent" /\ Owner[m] = t

\* A cut may have taken files of a message, or may be about to.
Taken(m) ==
  \E c \in Cuts :
    \/ Files!MayHaveTaken(c, m)
    \/ /\ current = c /\ Files!SameSegment(c.thread, Owner[m])
       /\ overlap \/ c.thread # Owner[m]

\* The files of what is sent, and of what is shown and no open cut drops, are
\* there, or a cut may have taken them.
FilesAreThere ==
  /\ \A m \in Files!SendsUnderway : (\A p \in 1..written[m] : <<m, p>> \in files) \/ Taken(m)
  /\ \A t \in Threads \ deleted : \A m \in Files!Shown(t) :
       \/ Files!FilesOf(m) \subseteq files
       \/ Taken(m)
       \/ /\ current \in Cuts /\ current.thread = t
          /\ current.keep = Delete \/ m \notin Files!ToSet(Files!Kept(current))

\* No file is of a deleted thread, or of one whose deletion is projected.
DeletionsLeaveNothing ==
  \A f \in files :
    /\ Owner[f[1]] \notin deleted
    /\ current \in Cuts /\ current.keep = Delete => Owner[f[1]] # current.thread

\* Every file has a message that is being sent or is shown, and an open cut
\* has left those of the messages it keeps.
FilesHaveMessages ==
  /\ \A f \in files :
       \/ f[1] \in Files!SendsUnderway
       \/ f[1] \in Files!Shown(Owner[f[1]]) /\ Owner[f[1]] \notin deleted
  /\ current \in Cuts =>
       \A f \in files : Owner[f[1]] = current.thread =>
         current.keep # Delete /\ f[1] \in Files!ToSet(Files!Kept(current))

\* What holds whatever happens, while clients wait, and when nothing fails.
RowsInv == RowsAreSent /\ FilesAreThere
WaitInv == SendsWait /\ DeletionsLeaveNothing
CalmInv == FilesHaveMessages

LEMMA ToSetIs ==
  ASSUME NEW S, NEW s \in Seq(S)
  PROVE  Files!ToSet(s) = {s[i] : i \in 1..Len(s)} /\ Files!ToSet(s) \subseteq S
BY LenProperties DEF Files!ToSet

LEMMA ToSetOfAppend ==
  ASSUME NEW S, NEW s \in Seq(S), NEW x \in S
  PROVE  Files!ToSet(Append(s, x)) = Files!ToSet(s) \cup {x}
  <1>1. /\ Append(s, x) \in Seq(S)
        /\ Len(Append(s, x)) = Len(s) + 1 /\ Len(s) \in Nat
        /\ \A i \in 1..Len(s) : Append(s, x)[i] = s[i]
        /\ Append(s, x)[Len(s) + 1] = x
    BY AppendProperties, LenProperties
  <1>a. /\ Files!ToSet(Append(s, x)) = {Append(s, x)[i] : i \in 1..(Len(s) + 1)}
        /\ Files!ToSet(s) = {s[i] : i \in 1..Len(s)}
    BY <1>1, ToSetIs
  <1>2. ASSUME NEW y \in Files!ToSet(Append(s, x)) PROVE y \in Files!ToSet(s) \cup {x}
    <2>1. PICK i \in 1..(Len(s) + 1) : y = Append(s, x)[i]
      BY <1>a, <1>2
    <2>2. i \in 1..Len(s) \/ i = Len(s) + 1
      BY <1>1
    <2> QED BY <1>1, <1>a, <2>1, <2>2
  <1>3. ASSUME NEW y \in Files!ToSet(s) PROVE y \in Files!ToSet(Append(s, x))
    <2>1. PICK i \in 1..Len(s) : y = s[i]
      BY <1>a, <1>3
    <2>2. i \in 1..(Len(s) + 1) /\ y = Append(s, x)[i]
      BY <1>1, <2>1
    <2> QED BY <1>a, <2>2
  <1>4. x \in Files!ToSet(Append(s, x))
    <2>1. Len(s) + 1 \in 1..(Len(s) + 1)
      BY <1>1
    <2> QED BY <1>1, <1>a, <2>1
  <1> QED BY <1>2, <1>3, <1>4

LEMMA ToSetOfEmpty == Files!ToSet(<< >>) = {}
BY EmptySeq DEF Files!ToSet

LEMMA CutFields ==
  ASSUME FileBounds, NEW c \in Cuts
  PROVE  c.thread \in Threads /\ (c.keep # Delete => c.keep \in Nat)
BY DEF FileBounds

LEMMA KeptFacts ==
  ASSUME FileBounds, Files!TypeOK, NEW c \in Cuts, c.keep # Delete
  PROVE  /\ Files!Kept(c) \in Seq(Messages)
         /\ Files!ToSet(Files!Kept(c)) \subseteq Files!Shown(c.thread)
  <1>1. c.keep \in Nat /\ messages[c.thread] \in Seq(Messages)
    BY CutFields DEF Files!TypeOK
  <1> DEFINE s == messages[c.thread]
  <1>2. Len(s) \in Nat
    BY <1>1, LenProperties
  <1>3. CASE Len(s) <= c.keep
    BY <1>1, <1>3 DEF Files!Kept, Files!Shown
  <1>4. CASE ~ Len(s) <= c.keep
    <2>1. Files!Kept(c) = SubSeq(s, 1, c.keep)
      BY <1>4 DEF Files!Kept
    <2>2. \A i \in 1..c.keep : i \in 1..Len(s) /\ s[i] \in Messages
      BY <1>1, <1>2, <1>4, ElementOfSeq
    <2>3. /\ SubSeq(s, 1, c.keep) \in Seq(Messages)
          /\ Len(SubSeq(s, 1, c.keep)) = c.keep
          /\ \A i \in 1..c.keep : SubSeq(s, 1, c.keep)[i] = s[i]
      BY <1>1, <2>2, SubSeqProperties
    <2>a. Files!ToSet(s) = {s[i] : i \in 1..Len(s)}
      BY <1>1, ToSetIs
    <2>b. \A q \in Seq(Messages) : Files!ToSet(q) = {q[i] : i \in 1..Len(q)}
      BY ToSetIs
    <2>4. Files!ToSet(SubSeq(s, 1, c.keep)) = {SubSeq(s, 1, c.keep)[i] : i \in 1..c.keep}
      BY <2>3, <2>b
    <2>5. ASSUME NEW x \in Files!ToSet(SubSeq(s, 1, c.keep)) PROVE x \in Files!ToSet(s)
      <3>1. PICK i \in 1..c.keep : x = s[i]
        BY <2>3, <2>4, <2>5
      <3> QED BY <2>2, <2>a, <3>1
    <2> QED BY <2>1, <2>3, <2>5 DEF Files!Shown
  <1> QED BY <1>3, <1>4

LEMMA ShownIsMessages ==
  ASSUME Files!TypeOK, NEW t \in Threads
  PROVE  messages[t] \in Seq(Messages) /\ Files!Shown(t) \subseteq Messages
BY ToSetIs DEF Files!TypeOK, Files!Shown

LEMMA FilesInit == FileBounds /\ Files!Init => FilesInv /\ RowsInv /\ WaitInv /\ CalmInv
  <1> SUFFICES ASSUME FileBounds, Files!Init PROVE FilesInv /\ RowsInv /\ WaitInv /\ CalmInv
    OBVIOUS
  <1> USE DEF Files!Init
  <1>1. << >> \in Seq(Messages \cup Cuts) /\ << >> \in Seq(Messages) /\ Len(<< >>) = 0
    BY EmptySeq
  <1>2. Files!TypeOK
    BY <1>1 DEF Files!TypeOK, FileBounds
  <1>3. CommandsWait
    BY <1>1 DEF CommandsWait, FileBounds
  <1>4. Files!SendsUnderway = {}
    BY DEF Files!SendsUnderway
  <1>5. WritesAreThere
    BY <1>4 DEF WritesAreThere
  <1>6. \A t \in Threads : Files!Shown(t) = {}
    BY ToSetOfEmpty DEF Files!Shown
  <1>7. current \notin Cuts
    BY DEF FileBounds
  <1> QED BY <1>2, <1>3, <1>4, <1>5, <1>6, <1>7
          DEF FilesInv, RowsInv, WaitInv, CalmInv, SendsWait, RowsAreSent, FilesAreThere,
              DeletionsLeaveNothing, FilesHaveMessages

LEMMA FilesTyped ==
  FileBounds /\ Files!TypeOK /\ CommandsWait /\ [Files!Next]_(Files!vars) => Files!TypeOK'
  <1> SUFFICES ASSUME FileBounds, Files!TypeOK, CommandsWait, [Files!Next]_(Files!vars) PROVE Files!TypeOK'
    OBVIOUS
  <1>s. UNCHANGED Files!settings
    BY DEF Files!Next, Files!vars
  <1> USE <1>s DEF Files!settings
  <1> USE DEF Files!TypeOK
  <1>1. CASE \E m \in Messages : Files!Send(m)
    BY <1>1 DEF Files!Send
  <1>2. CASE \E m \in Messages : Files!WriteFile(m)
    <2>1. PICK m \in Messages : Files!WriteFile(m)
      BY <1>2
    <2>2. written[m] \in 0..Parts /\ written[m] + 1 \in 1..Parts
      BY <2>1 DEF Files!WriteFile, FileBounds
    <2>3. <<m, written[m] + 1>> \in Messages \X (1..Parts)
      BY <2>2
    <2>4. written' \in [Messages -> 0..Parts]
      BY <2>1, <2>2 DEF Files!WriteFile, FileBounds
    <2>5. files' \subseteq Messages \X (1..Parts)
      BY <2>1, <2>3 DEF Files!WriteFile
    <2> QED BY <2>1, <2>4, <2>5 DEF Files!WriteFile
  <1>3. CASE \E m \in Messages : Files!RefuseFile(m)
    BY <1>3 DEF Files!RefuseFile
  <1>4. CASE \E m \in Messages : Files!Enqueue(m)
    BY <1>4, AppendProperties DEF Files!Enqueue
  <1>5. CASE \E c \in Cuts : Files!Cut(c)
    BY <1>5, AppendProperties DEF Files!Cut
  <1>6. CASE Files!Project
    <2>1. Head(queue) \in Messages \cup Cuts /\ Tail(queue) \in Seq(Messages \cup Cuts)
      BY <1>6, HeadTailProperties DEF Files!Project
    <2> QED BY <1>6, <2>1 DEF Files!Project
  <1>7. CASE Files!Commit
    <2>1. CASE current \in Messages
      <3>1. Owner[current] \in Threads
        BY <2>1 DEF FileBounds
      <3>2. Append(messages[Owner[current]], current) \in Seq(Messages)
        BY <2>1, <3>1, AppendProperties
      <3> QED BY <1>7, <2>1, <3>1, <3>2 DEF Files!Commit
    <2>2. CASE current \in Cuts
      <3>1. current \notin Messages /\ current.thread \in Threads
        BY <2>2, CutFields DEF FileBounds
      <3>2. CASE current.keep = Delete
        BY <1>7, <2>2, <3>1, <3>2 DEF Files!Commit
      <3>3. CASE current.keep # Delete
        <4>1. Files!Kept(current) \in Seq(Messages)
          BY <2>2, <3>3, KeptFacts
        <4> QED BY <1>7, <2>2, <3>1, <3>3, <4>1 DEF Files!Commit
      <3> QED BY <3>2, <3>3
    <2> QED BY <1>7, <2>1, <2>2 DEF Files!Commit
  <1>8. CASE Files!Rollback
    BY <1>8 DEF Files!Rollback
  <1>9. CASE UNCHANGED Files!vars
    BY <1>9 DEF Files!vars, Files!settings
  <1> QED BY <1>1, <1>2, <1>3, <1>4, <1>5, <1>6, <1>7, <1>8, <1>9 DEF Files!Next

\* Adding a command that does not wait yet.
LEMMA QueueGrows ==
  ASSUME Files!TypeOK, CommandsWait, NEW x \in Messages \cup Cuts,
         x # current, \A i \in 1..Len(queue) : queue[i] # x, queue' = Append(queue, x)
  PROVE  /\ Len(queue') = Len(queue) + 1 /\ Len(queue) \in Nat
         /\ \A i \in 1..Len(queue') : queue'[i] = x \/ (i \in 1..Len(queue) /\ queue'[i] = queue[i])
         /\ \A i, j \in 1..Len(queue') : queue'[i] = queue'[j] => i = j
  <1>1. queue \in Seq(Messages \cup Cuts)
    BY DEF Files!TypeOK
  <1>2. /\ Len(queue') = Len(queue) + 1 /\ Len(queue) \in Nat
        /\ \A i \in 1..Len(queue) : queue'[i] = queue[i]
        /\ queue'[Len(queue) + 1] = x
    BY <1>1, AppendProperties, LenProperties
  <1>3. \A i \in 1..(Len(queue) + 1) : i \in 1..Len(queue) \/ i = Len(queue) + 1
    BY <1>2
  <1>4. \A i \in 1..Len(queue') : queue'[i] = x \/ (i \in 1..Len(queue) /\ queue'[i] = queue[i])
    BY <1>2, <1>3
  <1>5. \A i, j \in 1..Len(queue) : queue[i] = queue[j] => i = j
    BY DEF CommandsWait
  <1>6. \A i, j \in 1..Len(queue') : queue'[i] = queue'[j] => i = j
    BY <1>2, <1>3, <1>5
  <1> QED BY <1>2, <1>4, <1>6

LEMMA CommandsWaitNext ==
  FileBounds /\ Files!TypeOK /\ CommandsWait /\ [Files!Next]_(Files!vars) => CommandsWait'
  <1> SUFFICES ASSUME FileBounds, Files!TypeOK, CommandsWait, [Files!Next]_(Files!vars)
               PROVE  CommandsWait'
    OBVIOUS
  <1>q. \A i \in 1..Len(queue) : queue[i] \in Messages \cup Cuts
    BY ElementOfSeq DEF Files!TypeOK
  <1>d. \A x \in Messages : x \notin Cuts
    BY DEF FileBounds
  <1>n. None \notin Messages /\ None \notin Cuts
    BY DEF FileBounds
  <1>1. ASSUME NEW m \in Messages, Files!Send(m) PROVE CommandsWait'
    <2>1. stage[m] = "new" /\ stage'[m] = "writing" /\ \A x \in Messages \ {m} : stage'[x] = stage[x]
      BY <1>1 DEF Files!Send, Files!TypeOK
    <2> QED BY <1>1, <2>1 DEF Files!Send, CommandsWait
  <1>2. ASSUME NEW m \in Messages, Files!WriteFile(m) PROVE CommandsWait'
    BY <1>2 DEF Files!WriteFile, CommandsWait
  <1>3. ASSUME NEW m \in Messages, Files!RefuseFile(m) PROVE CommandsWait'
    <2>1. stage[m] = "writing" /\ \A x \in Messages \ {m} : stage'[x] = stage[x]
      BY <1>3 DEF Files!RefuseFile, Files!TypeOK
    <2> QED BY <1>3, <2>1 DEF Files!RefuseFile, CommandsWait
  <1>4. ASSUME NEW m \in Messages, Files!Enqueue(m) PROVE CommandsWait'
    <2>1. /\ stage[m] = "writing" /\ stage'[m] = "queued"
          /\ \A x \in Messages \ {m} : stage'[x] = stage[x]
      BY <1>4 DEF Files!Enqueue, Files!TypeOK
    <2>2. m # current /\ \A i \in 1..Len(queue) : queue[i] # m
      BY <2>1 DEF CommandsWait
    <2>3. m \in Messages \cup Cuts /\ queue' = Append(queue, m)
      BY <1>4 DEF Files!Enqueue
    <2>4. /\ \A i \in 1..Len(queue') : queue'[i] = m \/ (i \in 1..Len(queue) /\ queue'[i] = queue[i])
          /\ \A i, j \in 1..Len(queue') : queue'[i] = queue'[j] => i = j
      BY <2>2, <2>3, QueueGrows
    <2>5. UNCHANGED <<cut, current>> /\ m \notin Cuts
      BY <1>4, <1>d DEF Files!Enqueue
    <2> QED BY <2>1, <2>2, <2>4, <2>5 DEF CommandsWait
  <1>5. ASSUME NEW c \in Cuts, Files!Cut(c) PROVE CommandsWait'
    <2>1. /\ cut[c] = "new" /\ cut'[c] = "queued"
          /\ \A x \in Cuts \ {c} : cut'[x] = cut[x]
      BY <1>5 DEF Files!Cut, Files!TypeOK
    <2>2. c # current /\ \A i \in 1..Len(queue) : queue[i] # c
      BY <2>1 DEF CommandsWait
    <2>3. c \in Messages \cup Cuts /\ queue' = Append(queue, c)
      BY <1>5 DEF Files!Cut
    <2>4. /\ \A i \in 1..Len(queue') : queue'[i] = c \/ (i \in 1..Len(queue) /\ queue'[i] = queue[i])
          /\ \A i, j \in 1..Len(queue') : queue'[i] = queue'[j] => i = j
      BY <2>2, <2>3, QueueGrows
    <2>5. UNCHANGED <<stage, current>> /\ c \notin Messages
      BY <1>5, <1>d DEF Files!Cut
    <2> QED BY <2>1, <2>2, <2>4, <2>5 DEF CommandsWait
  <1>6. CASE Files!Project
    <2>1. queue \in Seq(Messages \cup Cuts) /\ queue # << >>
      BY <1>6 DEF Files!Project, Files!TypeOK
    <2>2. Len(queue) \in Nat \ {0}
      BY <2>1, EmptySeq
    <2>3. /\ Len(Tail(queue)) = Len(queue) - 1
          /\ \A i \in 1..Len(Tail(queue)) : Tail(queue)[i] = queue[i + 1]
          /\ Head(queue) = queue[1]
      BY <2>1, HeadTailProperties
    <2>4. /\ Len(queue') = Len(queue) - 1
          /\ \A i \in 1..Len(queue') : queue'[i] = queue[i + 1]
          /\ current' = queue[1]
      BY <1>6, <2>3 DEF Files!Project
    <2>5. 1 \in 1..Len(queue)
      BY <2>2
    <2>6. \A i \in 1..Len(queue') : i + 1 \in 1..Len(queue) /\ i + 1 # 1
      BY <2>2, <2>4
    <2>7. \A i, j \in 1..Len(queue) : queue[i] = queue[j] => i = j
      BY DEF CommandsWait
    <2>8. \A i \in 1..Len(queue') : queue'[i] # current'
      BY <2>4, <2>5, <2>6, <2>7
    <2>9. \A i, j \in 1..Len(queue') : queue'[i] = queue'[j] => i + 1 = j + 1
      BY <2>4, <2>6, <2>7
    <2>10. \A i, j \in 1..Len(queue') : queue'[i] = queue'[j] => i = j
      BY <2>9
    <2>11. UNCHANGED <<stage, cut>>
      BY <1>6 DEF Files!Project
    <2>12. \A i \in 1..Len(queue) :
             /\ queue[i] \in Messages => stage'[queue[i]] = "queued"
             /\ queue[i] \in Cuts => cut'[queue[i]] = "queued"
      BY <2>11 DEF CommandsWait
    <2>13. \A i \in 1..Len(queue') :
             /\ queue'[i] \in Messages => stage'[queue'[i]] = "queued"
             /\ queue'[i] \in Cuts => cut'[queue'[i]] = "queued"
      BY <2>4, <2>6, <2>12
    <2>14. /\ current' \in Messages => stage'[current'] = "queued"
           /\ current' \in Cuts => cut'[current'] = "queued"
      BY <2>4, <2>5, <2>12
    <2> QED BY <2>8, <2>10, <2>13, <2>14 DEF CommandsWait
  <1>7. CASE Files!Commit \/ Files!Rollback
    <2>1. /\ current' = None /\ queue' = queue
          /\ \A x \in Messages \ {current} : stage'[x] = stage[x]
          /\ \A x \in Cuts \ {current} : cut'[x] = cut[x]
      BY <1>7, <1>d DEF Files!Commit, Files!Rollback, Files!TypeOK
    <2>2. \A i \in 1..Len(queue) : queue[i] # current /\ queue[i] # None
      BY <1>q, <1>n DEF CommandsWait
    <2> QED BY <1>n, <2>1, <2>2 DEF CommandsWait
  <1>8. CASE UNCHANGED Files!vars
    BY <1>8 DEF Files!vars, Files!settings, CommandsWait
  <1> QED BY <1>1, <1>2, <1>3, <1>4, <1>5, <1>6, <1>7, <1>8 DEF Files!Next

LEMMA WasCutStays ==
  ASSUME FileBounds, Files!TypeOK, CommandsWait, Files!Next, NEW t, WasCut(t)
  PROVE  WasCut(t)'
  <1>s. segment' = segment
    BY DEF Files!Next, Files!settings
  <1>1. PICK c \in Cuts : Files!SameSegment(c.thread, t) /\ (cut[c] \in {"done", "failed"} \/ current = c)
    BY DEF WasCut
  <1>2. c \notin Messages /\ c # None
    BY DEF FileBounds
  <1>3. cut'[c] \in {"done", "failed"} \/ current' = c
    <2>1. CASE \E m \in Messages : Files!Send(m) \/ Files!WriteFile(m) \/ Files!RefuseFile(m) \/ Files!Enqueue(m)
      BY <1>1, <2>1 DEF Files!Send, Files!WriteFile, Files!RefuseFile, Files!Enqueue
    <2>2. CASE \E x \in Cuts : Files!Cut(x)
      <3>1. PICK x \in Cuts : Files!Cut(x)
        BY <2>2
      <3>2. /\ cut[x] = "new" /\ current' = current
            /\ \A y \in Cuts \ {x} : cut'[y] = cut[y]
        BY <3>1 DEF Files!Cut, Files!TypeOK
      <3>3. current = c => current' = c
        BY <3>2
      <3> QED BY <1>1, <3>2, <3>3
    <2>3. CASE Files!Project
      BY <1>1, <1>2, <2>3 DEF Files!Project
    <2>4. CASE Files!Commit
      BY <1>1, <1>2, <2>4 DEF Files!Commit, Files!TypeOK
    <2>5. CASE Files!Rollback
      BY <1>1, <1>2, <2>5 DEF Files!Rollback, Files!TypeOK
    <2> QED BY <2>1, <2>2, <2>3, <2>4, <2>5 DEF Files!Next
  <1> QED BY <1>s, <1>1, <1>3 DEF WasCut, Files!SameSegment

LEMMA TakenStays ==
  ASSUME FileBounds, Files!TypeOK, CommandsWait, Files!Next, NEW m, Taken(m)
  PROVE  Taken(m)'
  <1>s. segment' = segment /\ overlap' = overlap
    BY DEF Files!Next, Files!settings
  <1>1. PICK c \in Cuts :
          /\ Files!SameSegment(c.thread, Owner[m])
          /\ \/ cut[c] = "failed"
             \/ (cut[c] = "done" \/ current = c) /\ (overlap \/ c.thread # Owner[m])
    BY DEF Taken, Files!MayHaveTaken
  <1>2. c \notin Messages /\ c # None
    BY DEF FileBounds
  <1>q. current = c => cut[c] = "queued"
    BY DEF CommandsWait
  <1>3. \/ cut'[c] = "failed"
        \/ (cut'[c] = "done" \/ current' = c) /\ (overlap \/ c.thread # Owner[m])
    <2>1. CASE \E x \in Messages : Files!Send(x) \/ Files!WriteFile(x) \/ Files!RefuseFile(x) \/ Files!Enqueue(x)
      BY <1>1, <2>1 DEF Files!Send, Files!WriteFile, Files!RefuseFile, Files!Enqueue
    <2>2. CASE \E x \in Cuts : Files!Cut(x)
      <3>1. PICK x \in Cuts : Files!Cut(x)
        BY <2>2
      <3>2. /\ cut[x] = "new" /\ current' = current
            /\ \A y \in Cuts \ {x} : cut'[y] = cut[y]
        BY <3>1 DEF Files!Cut, Files!TypeOK
      <3>3. current = c => current' = c
        BY <3>2
      <3> QED BY <1>1, <3>2, <3>3
    <2>3. CASE Files!Project
      BY <1>1, <1>2, <2>3 DEF Files!Project
    <2>4. CASE Files!Commit
      <3>1. current = c => cut'[c] = "done"
        BY <1>2, <2>4 DEF Files!Commit, Files!TypeOK
      <3>2. current # c => cut'[c] = cut[c]
        BY <1>2, <2>4 DEF Files!Commit, Files!TypeOK
      <3> QED BY <1>1, <1>q, <3>1, <3>2
    <2>5. CASE Files!Rollback
      <3>1. current = c => cut'[c] = "failed"
        BY <1>2, <2>5 DEF Files!Rollback, Files!TypeOK
      <3>2. current # c => cut'[c] = cut[c]
        BY <1>2, <2>5 DEF Files!Rollback, Files!TypeOK
      <3> QED BY <1>1, <3>1, <3>2
    <2> QED BY <2>1, <2>2, <2>3, <2>4, <2>5 DEF Files!Next
  <1> QED BY <1>s, <1>1, <1>3 DEF Taken, Files!MayHaveTaken, Files!SameSegment

\* What the side effects of a command take, and what they leave.
LEMMA ProjectTakes ==
  ASSUME FileBounds, Files!TypeOK, Files!Project
  PROVE  /\ current' \in Messages \cup Cuts
         /\ files' \subseteq files
         /\ \A f \in files \ files' :
              /\ current' \in Cuts /\ Files!SameSegment(Owner[f[1]], current'.thread)
              /\ current'.keep = Delete \/ f[1] \notin Files!ToSet(Files!Kept(current'))
         /\ current' \in Cuts =>
              \A f \in files' : Owner[f[1]] = current'.thread =>
                /\ current'.keep # Delete
                /\ \/ Files!Kept(current') = messages[current'.thread]
                   \/ f[1] \in Files!ToSet(Files!Kept(current'))
  <1>s. \A t : Files!SameSegment(t, t)
    BY DEF Files!SameSegment
  <1>1. /\ current' = Head(queue)
        /\ files' = IF Head(queue) \in Messages THEN files ELSE files \ Files!Removed(Head(queue))
    BY DEF Files!Project
  <1>2. PICK c \in Messages \cup Cuts : c = Head(queue)
    BY HeadTailProperties DEF Files!Project, Files!TypeOK
  <1>3. CASE c \in Messages
    BY <1>1, <1>2, <1>3 DEF FileBounds
  <1>4. CASE c \in Cuts
    <2>1. current' = c /\ files' = files \ Files!Removed(c)
      BY <1>1, <1>2, <1>4 DEF FileBounds
    <2>2. CASE c.keep = Delete
      <3>1. Files!Removed(c) = {f \in files : Files!SameSegment(Owner[f[1]], c.thread)}
        BY <2>2 DEF Files!Removed, Files!Named, Files!SameSegment
      <3> QED BY <1>4, <1>s, <2>1, <2>2, <3>1
    <2>3. CASE c.keep # Delete /\ Files!Kept(c) = messages[c.thread]
      <3>1. Files!Removed(c) = {}
        BY <2>3 DEF Files!Removed
      <3>2. files' = files
        BY <2>1, <3>1
      <3> QED BY <1>4, <2>1, <2>3, <3>2
    <2>4. CASE c.keep # Delete /\ Files!Kept(c) # messages[c.thread]
      <3>1. Files!Removed(c) =
              {f \in files : Files!SameSegment(Owner[f[1]], c.thread)
                            /\ f[1] \notin Files!ToSet(Files!Kept(c))}
        BY <2>4 DEF Files!Removed, Files!Named, Files!SameSegment
      <3> QED BY <1>4, <1>s, <2>1, <2>4, <3>1
    <2>5. current' \in Cuts
      BY <1>4, <2>1
    <2> QED BY <2>2, <2>3, <2>4
  <1> QED BY <1>3, <1>4

\* Only projections take files.
LEMMA OthersAddFiles ==
  Files!Next /\ ~ Files!Project => files \subseteq files'
BY DEF Files!Next, Files!Send, Files!WriteFile, Files!RefuseFile, Files!Enqueue, Files!Cut,
       Files!Commit, Files!Rollback

\* What becomes of a send in a step.
LEMMA SendSteps ==
  ASSUME FileBounds, Files!TypeOK, CommandsWait, Files!Next, NEW m \in Messages
  PROVE  \/ /\ stage[m] = "new" /\ stage'[m] = "writing" /\ written'[m] = written[m]
            /\ files' = files
         \/ /\ stage[m] = "writing" /\ stage'[m] = "writing" /\ written'[m] = written[m] + 1
            /\ files' = files \cup {<<m, written[m] + 1>>}
         \/ /\ stage[m] = "writing" /\ stage'[m] = "queued" /\ written'[m] = written[m]
            /\ written[m] = Parts /\ files' = files
         \/ stage'[m] \in {"sent", "refused"} /\ written'[m] = written[m]
         \/ stage'[m] = stage[m] /\ written'[m] = written[m]
  <1>1. CASE \E x \in Messages : Files!Send(x) \/ Files!WriteFile(x) \/ Files!RefuseFile(x) \/ Files!Enqueue(x)
    <2>1. PICK x \in Messages : Files!Send(x) \/ Files!WriteFile(x) \/ Files!RefuseFile(x) \/ Files!Enqueue(x)
      BY <1>1
    <2>2. CASE x # m
      BY <2>1, <2>2 DEF Files!Send, Files!WriteFile, Files!RefuseFile, Files!Enqueue, Files!TypeOK
    <2>3. CASE x = m
      <3>1. CASE Files!Send(m)
        BY <3>1 DEF Files!Send, Files!TypeOK
      <3>2. CASE Files!WriteFile(m)
        BY <3>2 DEF Files!WriteFile, Files!TypeOK
      <3>3. CASE Files!RefuseFile(m)
        BY <3>3 DEF Files!RefuseFile, Files!TypeOK
      <3>4. CASE Files!Enqueue(m)
        BY <3>4 DEF Files!Enqueue, Files!TypeOK
      <3> QED BY <2>1, <2>3, <3>1, <3>2, <3>3, <3>4
    <2> QED BY <2>2, <2>3
  <1>2. CASE (\E c \in Cuts : Files!Cut(c)) \/ Files!Project
    BY <1>2 DEF Files!Cut, Files!Project
  <1>3. CASE Files!Commit \/ Files!Rollback
    <2>1. stage'[m] \in {"sent", "refused"} \/ stage'[m] = stage[m]
      BY <1>3 DEF Files!Commit, Files!Rollback, Files!TypeOK
    <2> QED BY <1>3, <2>1 DEF Files!Commit, Files!Rollback
  <1> QED BY <1>1, <1>2, <1>3 DEF Files!Next

LEMMA SendKeepsFiles ==
  ASSUME FileBounds, Files!TypeOK, CommandsWait, WritesAreThere, Files!Next,
         NEW m \in Messages, stage'[m] \in {"writing", "queued"},
         stage[m] \in {"writing", "queued"} => \A p \in 1..written[m] : <<m, p>> \in files,
         \A p \in 1..written[m] : <<m, p>> \in files => <<m, p>> \in files'
  PROVE  \A p \in 1..written'[m] : <<m, p>> \in files'
  <1>1. stage[m] = "new" => written[m] = 0
    BY DEF WritesAreThere
  <1>2. written[m] \in 0..Parts /\ Parts \in Nat
    BY DEF Files!TypeOK, FileBounds
  <1>3. \/ stage[m] = "new" /\ written'[m] = written[m]
        \/ stage[m] = "writing" /\ written'[m] = written[m] + 1 /\ <<m, written[m] + 1>> \in files'
        \/ stage[m] \in {"writing", "queued"} /\ written'[m] = written[m]
    BY SendSteps
  <1>4. CASE stage[m] = "new" /\ written'[m] = written[m]
    BY <1>1, <1>4
  <1>5. CASE stage[m] = "writing" /\ written'[m] = written[m] + 1 /\ <<m, written[m] + 1>> \in files'
    <2>1. ASSUME NEW p \in 1..written'[m] PROVE <<m, p>> \in files'
      <3>1. p \in 1..written[m] \/ p = written[m] + 1
        BY <1>2, <1>5
      <3> QED BY <1>5, <3>1
    <2> QED BY <2>1
  <1>6. CASE stage[m] \in {"writing", "queued"} /\ written'[m] = written[m]
    BY <1>6
  <1> QED BY <1>3, <1>4, <1>5, <1>6

LEMMA WritesAreThereNext ==
  FileBounds /\ FilesInv /\ [Files!Next]_(Files!vars) => WritesAreThere'
  <1> SUFFICES ASSUME FileBounds, FilesInv, [Files!Next]_(Files!vars) PROVE WritesAreThere'
    OBVIOUS
  <1>i. Files!TypeOK /\ CommandsWait /\ WritesAreThere
    BY DEF FilesInv
  <1>1. CASE Files!Next
    <2>1. ASSUME NEW m \in Messages, stage'[m] = "new" PROVE written'[m] = 0
      <3>1. stage[m] = "new" /\ written'[m] = written[m]
        BY <1>1, <1>i, <2>1, SendSteps
      <3> QED BY <1>i, <3>1 DEF WritesAreThere
    <2>2. ASSUME NEW m \in Messages, stage'[m] = "queued" PROVE written'[m] = Parts
      <3>1. written'[m] = written[m] /\ (stage[m] = "queued" \/ written[m] = Parts)
        BY <1>1, <1>i, <2>2, SendSteps
      <3> QED BY <1>i, <3>1 DEF WritesAreThere
    <2>3. ASSUME NEW m \in Messages, stage'[m] \in {"writing", "queued"}, ~ WasCut(Owner[m])'
          PROVE  \A p \in 1..written'[m] : <<m, p>> \in files'
      <3>1. ~ WasCut(Owner[m])
        BY <1>1, <1>i, <2>3, WasCutStays
      <3>2. stage[m] \in {"writing", "queued"} => \A p \in 1..written[m] : <<m, p>> \in files
        BY <1>i, <3>1 DEF WritesAreThere, Files!SendsUnderway
      <3>3. \A p \in 1..written[m] : <<m, p>> \in files => <<m, p>> \in files'
        <4>1. CASE Files!Project
          <5>1. ASSUME NEW p \in 1..written[m], <<m, p>> \in files \ files' PROVE FALSE
            <6>1. current' \in Cuts /\ Files!SameSegment(Owner[m], current'.thread)
              BY <1>i, <4>1, <5>1, ProjectTakes
            <6> QED BY <1>1, <2>3, <6>1 DEF WasCut, Files!SameSegment, Files!Next, Files!settings
          <5> QED BY <5>1
        <4>2. CASE ~ Files!Project
          BY <1>1, <4>2, OthersAddFiles
        <4> QED BY <4>1, <4>2
      <3> QED BY <1>1, <1>i, <2>3, <3>2, <3>3, SendKeepsFiles
    <2>4. \A m \in Files!SendsUnderway' :
            (\A p \in 1..written'[m] : <<m, p>> \in files') \/ WasCut(Owner[m])'
      BY <2>3 DEF Files!SendsUnderway
    <2> QED BY <2>1, <2>2, <2>4 DEF WritesAreThere
  <1>2. CASE UNCHANGED Files!vars
    BY <1>2, <1>i DEF Files!vars, Files!settings, WritesAreThere, WasCut, Files!SameSegment,
        Files!SendsUnderway
  <1> QED BY <1>1, <1>2

LEMMA FilesNext == FileBounds /\ FilesInv /\ [Files!Next]_(Files!vars) => FilesInv'
BY FilesTyped, CommandsWaitNext, WritesAreThereNext DEF FilesInv

LEMMA TakesOwnFiles ==
  FileBounds /\ FilesInv /\ [Files!Next]_(Files!vars) =>
    \A f \in files \ files' : current' \in Cuts /\ Files!SameSegment(Owner[f[1]], current'.thread)
  <1> SUFFICES ASSUME FileBounds, FilesInv, [Files!Next]_(Files!vars)
               PROVE  \A f \in files \ files' :
                        current' \in Cuts /\ Files!SameSegment(Owner[f[1]], current'.thread)
    OBVIOUS
  <1>1. CASE Files!Project
    BY <1>1, ProjectTakes DEF FilesInv
  <1>2. CASE Files!Next /\ ~ Files!Project
    BY <1>2, OthersAddFiles
  <1>3. CASE UNCHANGED Files!vars
    BY <1>3 DEF Files!vars, Files!settings
  <1> QED BY <1>1, <1>2, <1>3

LEMMA SentWithFiles ==
  FileBounds /\ FilesInv /\ [Files!Next]_(Files!vars) =>
    \A m \in Messages :
       stage[m] = "queued" /\ stage'[m] = "sent" =>
         \/ Files!FilesOf(m) \subseteq files
         \/ \E c \in Cuts : Files!SameSegment(c.thread, Owner[m]) /\ cut[c] \in {"done", "failed"}
  <1> SUFFICES ASSUME FileBounds, FilesInv, [Files!Next]_(Files!vars), NEW m \in Messages,
                      stage[m] = "queued", stage'[m] = "sent"
               PROVE  \/ Files!FilesOf(m) \subseteq files
                      \/ \E c \in Cuts : Files!SameSegment(c.thread, Owner[m]) /\ cut[c] \in {"done", "failed"}
    OBVIOUS
  <1>i. Files!TypeOK /\ CommandsWait /\ WritesAreThere
    BY DEF FilesInv
  <1>1. Files!Commit /\ current = m
    BY <1>i DEF Files!Next, Files!vars, Files!TypeOK, Files!Send, Files!WriteFile, Files!RefuseFile,
                Files!Enqueue, Files!Cut, Files!Project, Files!Commit, Files!Rollback
  <1>2. written[m] = Parts /\ ((\A p \in 1..written[m] : <<m, p>> \in files) \/ WasCut(Owner[m]))
    BY <1>i DEF WritesAreThere, Files!SendsUnderway
  <1>3. current \notin Cuts
    BY <1>1 DEF FileBounds
  <1> QED BY <1>2, <1>3 DEF WasCut, Files!FilesOf

\* A step of the composition is one of the files or leaves them.
LEMMA FileSteps ==
  ASSUME [MCNext]_<<scenario, vars, fileVars>>
  PROVE  [Files!Next]_(Files!vars)
BY DEF MCNext, fileVars, Files!vars, Files!settings

\* Whatever fails or overlaps, a command takes no file of a thread with another
\* segment, and what is committed as sent has all its files unless a cut of a
\* thread with its segment took them.
THEOREM AttachmentsAreKept ==
  ASSUME FileBounds
  PROVE  MCSpec => FilesAreKept
  <1>1. MCInit => FilesInv
    BY FilesInit DEF MCInit
  <1>2. FilesInv /\ [MCNext]_<<scenario, vars, fileVars>> => FilesInv'
    BY FileSteps, FilesNext
  <1>3. FilesInv /\ [MCNext]_<<scenario, vars, fileVars>> =>
          [\A f \in files \ files' :
             current' \in Cuts /\ Files!SameSegment(Owner[f[1]], current'.thread)]_(Files!vars)
    BY FileSteps, TakesOwnFiles
  <1>4. FilesInv /\ [MCNext]_<<scenario, vars, fileVars>> =>
          [\A m \in Messages :
             stage[m] = "queued" /\ stage'[m] = "sent" =>
               \/ Files!FilesOf(m) \subseteq files
               \/ \E c \in Cuts : Files!SameSegment(c.thread, Owner[m]) /\ cut[c] \in {"done", "failed"}]_(Files!vars)
    BY FileSteps, SentWithFiles
  <1> QED BY <1>1, <1>2, <1>3, <1>4, PTL
          DEF MCSpec, FilesAreKept, Files!FilesAreKept, Files!OnlyOwnFiles, Files!SentWhole

\* The settings of AttachmentsMatchRows.
Waits == ~ overlap
Calm == ~ overlap /\ ~ mayFail

LEMMA SendsWaitNext ==
  FileBounds /\ Waits /\ FilesInv /\ SendsWait /\ [Files!Next]_(Files!vars) => SendsWait'
  <1> SUFFICES ASSUME FileBounds, Waits, FilesInv, SendsWait, [Files!Next]_(Files!vars)
               PROVE  SendsWait'
    OBVIOUS
  <1>i. Files!TypeOK /\ CommandsWait
    BY DEF FilesInv
  <1>w. \A m \in Messages : stage[m] \in {"writing", "queued"} =>
          /\ \A c \in Cuts : cut[c] = "queued" => Owner[m] # c.thread
          /\ Owner[m] \notin deleted
    BY DEF SendsWait, Files!SendsUnderway, Files!CutsUnderway
  <1> SUFFICES ASSUME NEW m \in Messages, stage'[m] \in {"writing", "queued"}
               PROVE  /\ \A c \in Cuts : cut'[c] = "queued" => Owner[m] # c.thread
                      /\ Owner[m] \notin deleted'
    BY DEF SendsWait, Files!SendsUnderway, Files!CutsUnderway
  <1>1. CASE \E x \in Messages : Files!Send(x)
    <2>1. PICK x \in Messages : Files!Send(x)
      BY <1>1
    <2>2. Owner[x] \notin deleted /\ \A c \in Cuts : cut[c] = "queued" => Owner[x] # c.thread
      BY <2>1 DEF Files!Send, Files!CutsUnderway, Waits
    <2>3. UNCHANGED <<cut, deleted>> /\ (m # x => stage'[m] = stage[m])
      BY <2>1, <1>i DEF Files!Send, Files!TypeOK
    <2> QED BY <1>w, <2>2, <2>3
  <1>2. CASE \E x \in Messages : Files!WriteFile(x) \/ Files!Enqueue(x)
    <2>1. PICK x \in Messages : Files!WriteFile(x) \/ Files!Enqueue(x)
      BY <1>2
    <2>2. UNCHANGED <<cut, deleted>> /\ stage[m] \in {"writing", "queued"}
      BY <2>1, <1>i DEF Files!WriteFile, Files!Enqueue, Files!TypeOK
    <2> QED BY <1>w, <2>2
  <1>3. CASE \E x \in Cuts : Files!Cut(x)
    <2>1. PICK x \in Cuts : Files!Cut(x)
      BY <1>3
    <2>2. UNCHANGED <<stage, deleted>> /\ \A c \in Cuts \ {x} : cut'[c] = cut[c]
      BY <2>1, <1>i DEF Files!Cut, Files!TypeOK
    <2>3. Owner[m] # x.thread
      BY <2>1, <2>2 DEF Files!Cut, Files!SendsUnderway, Waits
    <2> QED BY <1>w, <2>2, <2>3
  <1>4. CASE Files!Project
    BY <1>w, <1>4 DEF Files!Project
  <1>5. CASE Files!Commit
    <2>1. CASE current \in Messages
      <3>1. UNCHANGED <<cut, deleted>> /\ (m # current => stage'[m] = stage[m]) /\ stage'[current] = "sent"
        BY <1>5, <1>i, <2>1 DEF Files!Commit, Files!TypeOK
      <3> QED BY <1>w, <3>1
    <2>2. CASE current \in Cuts
      <3>1. /\ UNCHANGED stage /\ deleted' \subseteq deleted \cup {current.thread}
            /\ cut'[current] = "done" /\ \A c \in Cuts \ {current} : cut'[c] = cut[c]
        BY <1>5, <1>i, <2>2 DEF Files!Commit, Files!TypeOK, FileBounds
      <3>2. cut[current] = "queued"
        BY <1>i, <2>2 DEF CommandsWait
      <3> QED BY <1>w, <2>2, <3>1, <3>2
    <2> QED BY <1>5, <1>i, <2>1, <2>2 DEF Files!Commit, Files!TypeOK
  <1>6. CASE UNCHANGED Files!vars
    BY <1>w, <1>6 DEF Files!vars, Files!settings
  <1>7. CASE \E x \in Messages : Files!RefuseFile(x)
    <2>1. PICK x \in Messages : Files!RefuseFile(x)
      BY <1>7
    <2>2. UNCHANGED <<cut, deleted>> /\ stage[m] \in {"writing", "queued"}
      BY <2>1, <1>i DEF Files!RefuseFile, Files!TypeOK
    <2> QED BY <1>w, <2>2
  <1>8. CASE Files!Rollback
    <2>1. /\ UNCHANGED deleted /\ stage[m] \in {"writing", "queued"}
          /\ \A c \in Cuts : cut'[c] = "queued" => cut[c] = "queued"
      BY <1>8, <1>i DEF Files!Rollback, Files!TypeOK
    <2> QED BY <1>w, <2>1
  <1> QED BY <1>1, <1>2, <1>3, <1>4, <1>5, <1>6, <1>7, <1>8 DEF Files!Next

\* The rows that a commit leaves.
LEMMA CommitRows ==
  ASSUME FileBounds, Files!TypeOK, Files!Commit
  PROVE  /\ current' = None /\ files' = files /\ written' = written
         /\ current \in Messages =>
              /\ \A t \in Threads : t = Owner[current] => Files!Shown(t)' = Files!Shown(t) \cup {current}
              /\ \A t \in Threads \ {Owner[current]} : Files!Shown(t)' = Files!Shown(t)
              /\ stage'[current] = "sent" /\ \A m \in Messages \ {current} : stage'[m] = stage[m]
              /\ cut' = cut /\ deleted' = deleted
         /\ current \in Cuts =>
              /\ stage' = stage
              /\ current.keep = Delete =>
                   deleted' = deleted \cup {current.thread} /\ messages' = messages
              /\ current.keep # Delete =>
                   /\ deleted' = deleted
                   /\ \A t \in Threads : t = current.thread => Files!Shown(t)' = Files!ToSet(Files!Kept(current))
                   /\ \A t \in Threads \ {current.thread} : Files!Shown(t)' = Files!Shown(t)
  <1>1. current' = None /\ files' = files /\ written' = written
    BY DEF Files!Commit
  <1>2. ASSUME current \in Messages
        PROVE  /\ \A t \in Threads : t = Owner[current] => Files!Shown(t)' = Files!Shown(t) \cup {current}
               /\ \A t \in Threads \ {Owner[current]} : Files!Shown(t)' = Files!Shown(t)
               /\ stage'[current] = "sent" /\ \A m \in Messages \ {current} : stage'[m] = stage[m]
               /\ cut' = cut /\ deleted' = deleted
    <2>1. Owner[current] \in Threads
      BY <1>2 DEF FileBounds
    <2>2. /\ messages'[Owner[current]] = Append(messages[Owner[current]], current)
          /\ \A t \in Threads \ {Owner[current]} : messages'[t] = messages[t]
          /\ stage'[current] = "sent" /\ \A m \in Messages \ {current} : stage'[m] = stage[m]
          /\ cut' = cut /\ deleted' = deleted
      BY <1>2, <2>1 DEF Files!Commit, Files!TypeOK
    <2>3. messages[Owner[current]] \in Seq(Messages)
      BY <2>1 DEF Files!TypeOK
    <2>4. Files!ToSet(Append(messages[Owner[current]], current))
            = Files!ToSet(messages[Owner[current]]) \cup {current}
      BY <1>2, <2>3, ToSetOfAppend
    <2> QED BY <2>2, <2>4 DEF Files!Shown
  <1>3. ASSUME current \in Cuts
        PROVE  /\ stage' = stage
               /\ current.keep = Delete =>
                    deleted' = deleted \cup {current.thread} /\ messages' = messages
               /\ current.keep # Delete =>
                    /\ deleted' = deleted
                    /\ \A t \in Threads : t = current.thread => Files!Shown(t)' = Files!ToSet(Files!Kept(current))
                    /\ \A t \in Threads \ {current.thread} : Files!Shown(t)' = Files!Shown(t)
    <2>1. current \notin Messages /\ current.thread \in Threads
      BY <1>3, CutFields DEF FileBounds
    <2>2. stage' = stage
      BY <2>1 DEF Files!Commit
    <2>3. ASSUME current.keep = Delete
          PROVE  deleted' = deleted \cup {current.thread} /\ messages' = messages
      BY <2>1, <2>3 DEF Files!Commit
    <2>4. ASSUME current.keep # Delete
          PROVE  /\ deleted' = deleted
                 /\ \A t \in Threads : t = current.thread => Files!Shown(t)' = Files!ToSet(Files!Kept(current))
                 /\ \A t \in Threads \ {current.thread} : Files!Shown(t)' = Files!Shown(t)
      <3>1. /\ deleted' = deleted
            /\ messages' = [messages EXCEPT ![current.thread] = Files!Kept(current)]
        BY <2>1, <2>4 DEF Files!Commit
      <3>2. /\ messages'[current.thread] = Files!Kept(current)
            /\ \A t \in Threads \ {current.thread} : messages'[t] = messages[t]
        BY <2>1, <3>1 DEF Files!TypeOK
      <3> QED BY <3>1, <3>2 DEF Files!Shown
    <2> QED BY <2>2, <2>3, <2>4
  <1> QED BY <1>1, <1>2, <1>3

\* The steps that are no commits leave the rows.
LEMMA OthersLeaveRows ==
  [Files!Next]_(Files!vars) /\ ~ Files!Commit =>
    UNCHANGED <<messages, deleted>> /\ \A t : Files!Shown(t)' = Files!Shown(t)
BY DEF Files!Next, Files!vars, Files!Send, Files!WriteFile, Files!RefuseFile, Files!Enqueue,
       Files!Cut, Files!Project, Files!Rollback, Files!Shown

LEMMA KeptOfSameRows ==
  ASSUME UNCHANGED messages, NEW c
  PROVE  Files!Kept(c)' = Files!Kept(c)
BY DEF Files!Kept

LEMMA RowsAreSentNext ==
  FileBounds /\ FilesInv /\ RowsAreSent /\ [Files!Next]_(Files!vars) => RowsAreSent'
  <1> SUFFICES ASSUME FileBounds, FilesInv, RowsAreSent, [Files!Next]_(Files!vars),
                      NEW t \in Threads, NEW m \in Files!Shown(t)'
               PROVE  stage'[m] = "sent" /\ Owner[m] = t
    BY DEF RowsAreSent
  <1>i. Files!TypeOK /\ CommandsWait
    BY DEF FilesInv
  <1>r. \A x \in Files!Shown(t) : x \in Messages /\ stage[x] = "sent" /\ Owner[x] = t
    BY <1>i, ShownIsMessages DEF RowsAreSent
  <1>1. CASE Files!Commit
    <2>1. CASE current \in Messages
      <3>1. /\ stage'[current] = "sent" /\ \A x \in Messages \ {current} : stage'[x] = stage[x]
            /\ t = Owner[current] => Files!Shown(t)' = Files!Shown(t) \cup {current}
            /\ t # Owner[current] => Files!Shown(t)' = Files!Shown(t)
        BY <1>1, <1>i, <2>1, CommitRows
      <3> QED BY <1>r, <3>1
    <2>2. CASE current \in Cuts
      <3>1. stage' = stage /\ current.thread \in Threads
        BY <1>1, <1>i, <2>2, CommitRows, CutFields
      <3>2. CASE current.keep = Delete
        <4>1. Files!Shown(t)' = Files!Shown(t)
          BY <1>1, <1>i, <2>2, <3>2, CommitRows DEF Files!Shown
        <4> QED BY <1>r, <3>1, <4>1
      <3>3. CASE current.keep # Delete
        <4>1. /\ t = current.thread => Files!Shown(t)' = Files!ToSet(Files!Kept(current))
              /\ t # current.thread => Files!Shown(t)' = Files!Shown(t)
          BY <1>1, <1>i, <2>2, <3>3, CommitRows
        <4>2. Files!ToSet(Files!Kept(current)) \subseteq Files!Shown(current.thread)
          BY <1>i, <2>2, <3>3, KeptFacts
        <4> QED BY <1>r, <3>1, <4>1, <4>2
      <3> QED BY <3>2, <3>3
    <2> QED BY <1>1, <1>i, <2>1, <2>2 DEF Files!Commit, Files!TypeOK
  <1>2. CASE ~ Files!Commit
    <2>1. m \in Files!Shown(t)
      BY <1>2, OthersLeaveRows
    <2>2. m \in Messages /\ stage[m] = "sent" /\ Owner[m] = t
      BY <1>r, <2>1
    <2>3. stage'[m] = "sent"
      <3>1. CASE Files!Next /\ ~ Files!Rollback
        BY <1>2, <1>i, <2>2, <3>1
           DEF Files!Next, Files!TypeOK, Files!Send, Files!WriteFile, Files!RefuseFile,
               Files!Enqueue, Files!Cut, Files!Project
      <3>2. CASE Files!Rollback
        BY <1>i, <2>2, <3>2 DEF Files!Rollback, Files!TypeOK, CommandsWait
      <3>3. CASE UNCHANGED Files!vars
        BY <2>2, <3>3 DEF Files!vars, Files!settings
      <3> QED BY <3>1, <3>2, <3>3
    <2> QED BY <2>2, <2>3
  <1> QED BY <1>1, <1>2

\* The steps other than those of the engine.
LEMMA ClientSteps ==
  ASSUME FileBounds, Files!TypeOK, CommandsWait, [Files!Next]_(Files!vars),
         ~ Files!Commit, ~ Files!Project, ~ Files!Rollback
  PROVE  /\ UNCHANGED <<current, messages, deleted>>
         /\ files \subseteq files'
         /\ \A f \in files' \ files : f[1] \in Messages /\ stage[f[1]] = "writing" /\ stage'[f[1]] = "writing"
         /\ ~ mayFail => Files!SendsUnderway \subseteq Files!SendsUnderway'
  <1>1. \/ \E x \in Messages : Files!Send(x) \/ Files!WriteFile(x) \/ Files!RefuseFile(x) \/ Files!Enqueue(x)
        \/ \E c \in Cuts : Files!Cut(c)
        \/ UNCHANGED Files!vars
    BY DEF Files!Next
  <1>2. CASE \E x \in Messages : Files!Send(x) \/ Files!Enqueue(x)
    BY <1>2 DEF Files!Send, Files!Enqueue, Files!TypeOK, Files!SendsUnderway
  <1>3. CASE \E x \in Messages : Files!WriteFile(x)
    <2>1. PICK x \in Messages : Files!WriteFile(x)
      BY <1>3
    <2>2. /\ UNCHANGED <<stage, current, messages, deleted>>
          /\ files' = files \cup {<<x, written[x] + 1>>} /\ stage[x] = "writing"
      BY <2>1 DEF Files!WriteFile
    <2>3. \A f \in files' \ files : f[1] = x
      BY <2>2
    <2> QED BY <2>2, <2>3 DEF Files!SendsUnderway
  <1>4. CASE \E c \in Cuts : Files!Cut(c)
    BY <1>4 DEF Files!Cut, Files!SendsUnderway
  <1>5. CASE UNCHANGED Files!vars
    BY <1>5 DEF Files!vars, Files!settings, Files!SendsUnderway
  <1>6. CASE \E x \in Messages : Files!RefuseFile(x)
    BY <1>6 DEF Files!RefuseFile
  <1> QED BY <1>1, <1>2, <1>3, <1>4, <1>5, <1>6

\* No send is under way of the thread of a cut that has been projected.
LEMMA CutIsAlone ==
  ASSUME CommandsWait, SendsWait, current \in Cuts, NEW m \in Files!SendsUnderway
  PROVE  Owner[m] # current.thread
BY DEF CommandsWait, SendsWait, Files!CutsUnderway

LEMMA FilesAreThereNext ==
  FileBounds /\ FilesInv /\ FilesInv' /\ RowsInv /\ (Waits => SendsWait /\ SendsWait')
  /\ [Files!Next]_(Files!vars)
  => FilesAreThere'
  <1> SUFFICES ASSUME FileBounds, FilesInv, FilesInv', RowsInv, Waits => SendsWait /\ SendsWait',
                      [Files!Next]_(Files!vars)
               PROVE  FilesAreThere'
    OBVIOUS
  <1>i. /\ Files!TypeOK /\ CommandsWait /\ WritesAreThere /\ CommandsWait'
        /\ RowsAreSent /\ FilesAreThere
    BY DEF FilesInv, RowsInv
  <1>v. CASE UNCHANGED Files!vars
    BY <1>i, <1>v DEF Files!vars, Files!settings, FilesAreThere, Taken, Files!MayHaveTaken,
          Files!SameSegment, Files!SendsUnderway, Files!Shown, Files!FilesOf, Files!Kept
  <1>n. CASE Files!Next
    <2>s. UNCHANGED <<overlap, segment>>
      BY <1>n DEF Files!Next, Files!settings
    <2>f. \A m \in Messages : stage[m] \in {"writing", "queued"} =>
            (\A p \in 1..written[m] : <<m, p>> \in files) \/ Taken(m)
      BY <1>i DEF FilesAreThere, Files!SendsUnderway
    <2>t. \A m \in Messages : Taken(m) => Taken(m)'
      BY <1>i, <1>n, TakenStays
    <2>1. ASSUME NEW m \in Messages, stage'[m] \in {"writing", "queued"}, ~ Taken(m)'
          PROVE  \A p \in 1..written'[m] : <<m, p>> \in files'
      <3>1. stage[m] \in {"writing", "queued"} => \A p \in 1..written[m] : <<m, p>> \in files
        BY <2>1, <2>f, <2>t
      <3>2. \A p \in 1..written[m] : <<m, p>> \in files => <<m, p>> \in files'
        <4>1. CASE Files!Project
          <5>1. ASSUME NEW p \in 1..written[m], <<m, p>> \in files \ files' PROVE FALSE
            <6>1. current' \in Cuts /\ Files!SameSegment(Owner[m], current'.thread)
              BY <1>i, <4>1, <5>1, ProjectTakes
            <6>2. cut'[current'] = "queued"
              BY <1>i, <6>1 DEF CommandsWait
            <6>3. ~ overlap => Owner[m] # current'.thread
              BY <2>1, <6>1, <6>2 DEF Waits, SendsWait, Files!SendsUnderway, Files!CutsUnderway
            <6> QED BY <2>1, <2>s, <6>1, <6>3 DEF Taken, Files!SameSegment
          <5> QED BY <5>1
        <4>2. CASE ~ Files!Project
          BY <1>n, <4>2, OthersAddFiles
        <4> QED BY <4>1, <4>2
      <3> QED BY <1>i, <1>n, <2>1, <3>1, <3>2, SendKeepsFiles
    <2>2. ASSUME NEW t \in Threads \ deleted', NEW m \in Files!Shown(t)', ~ Taken(m)',
                 ~ (/\ current' \in Cuts /\ current'.thread = t
                    /\ current'.keep = Delete \/ m \notin Files!ToSet(Files!Kept(current)'))
          PROVE  Files!FilesOf(m) \subseteq files'
      <3>r. \A x \in Files!Shown(t) : t \notin deleted =>
              \/ Files!FilesOf(x) \subseteq files
              \/ Taken(x)
              \/ /\ current \in Cuts /\ current.thread = t
                 /\ current.keep = Delete \/ x \notin Files!ToSet(Files!Kept(current))
        BY <1>i, <2>2 DEF FilesAreThere
      <3>o. \A x \in Files!Shown(t) : Owner[x] = t /\ x \in Messages
        BY <1>i, <2>2, ShownIsMessages DEF RowsAreSent
      <3>n. m \in Messages => ~ Taken(m)
        BY <2>2, <2>t
      <3>1. CASE Files!Commit
        <4>1. files' = files
          BY <3>1 DEF Files!Commit
        <4>2. CASE current \in Messages
          <5>1. current \notin Cuts /\ t \notin deleted
            BY <2>2, <1>i, <3>1, <4>2, CommitRows DEF FileBounds
          <5>2. m = current \/ m \in Files!Shown(t)
            BY <2>2, <1>i, <3>1, <4>2, CommitRows
          <5>3. m = current => Files!FilesOf(m) \subseteq files
            <6>1. stage[current] = "queued" /\ written[current] = Parts
              BY <1>i, <4>2 DEF CommandsWait, WritesAreThere
            <6> QED BY <2>f, <3>n, <4>2, <6>1 DEF Files!FilesOf
          <5> QED BY <3>n, <3>o, <3>r, <4>1, <5>1, <5>2, <5>3
        <4>3. CASE current \in Cuts /\ current.keep = Delete
          <5>1. deleted' = deleted \cup {current.thread} /\ messages' = messages
            BY <1>i, <3>1, <4>3, CommitRows
          <5>2. t \notin deleted /\ t # current.thread /\ m \in Files!Shown(t)
            BY <2>2, <5>1 DEF Files!Shown
          <5> QED BY <3>n, <3>o, <3>r, <4>1, <5>2
        <4>4. CASE current \in Cuts /\ current.keep # Delete
          <5>1. /\ deleted' = deleted
                /\ t = current.thread => Files!Shown(t)' = Files!ToSet(Files!Kept(current))
                /\ t # current.thread => Files!Shown(t)' = Files!Shown(t)
            BY <2>2, <1>i, <3>1, <4>4, CommitRows
          <5>2. Files!ToSet(Files!Kept(current)) \subseteq Files!Shown(current.thread)
            BY <1>i, <4>4, KeptFacts
          <5> QED BY <2>2, <3>n, <3>o, <3>r, <4>1, <4>4, <5>1, <5>2
        <4> QED BY <1>i, <3>1, <4>2, <4>3, <4>4 DEF Files!Commit, Files!TypeOK
      <3>2. CASE Files!Project
        <4>1. current = None /\ UNCHANGED <<messages, deleted>>
          BY <3>2 DEF Files!Project
        <4>2. m \in Files!Shown(t) /\ t \notin deleted /\ current \notin Cuts
          BY <2>2, <4>1 DEF Files!Shown, FileBounds
        <4>3. Owner[m] = t /\ m \in Messages /\ Files!FilesOf(m) \subseteq files
          BY <3>n, <3>o, <3>r, <4>2
        <4>4. PICK c : c = current'
          OBVIOUS
        <4>5. Files!Kept(c)' = Files!Kept(c)
          BY <4>1, KeptOfSameRows
        <4>6. ~ (/\ c \in Cuts /\ c.thread = t
                 /\ c.keep = Delete \/ m \notin Files!ToSet(Files!Kept(c)))
          BY <2>2, <4>1, <4>4 DEF Files!Kept
        <4>7. ASSUME NEW p \in 1..Parts, <<m, p>> \notin files' PROVE FALSE
          <5>1. <<m, p>> \in files \ files'
            BY <4>3, <4>7 DEF Files!FilesOf
          <5>2. /\ c \in Cuts /\ Files!SameSegment(Owner[m], c.thread)
                /\ c.keep = Delete \/ m \notin Files!ToSet(Files!Kept(c))
            BY <1>i, <3>2, <4>4, <5>1, ProjectTakes
          <5>3. c.thread # Owner[m]
            BY <4>3, <4>6, <5>2
          <5> QED BY <2>2, <2>s, <4>4, <5>2, <5>3 DEF Taken, Files!SameSegment
        <4> QED BY <4>7 DEF Files!FilesOf
      <3>3. CASE Files!Rollback
        <4>1. UNCHANGED <<files, messages, deleted>> /\ current' = None /\ current # None
          BY <3>3 DEF Files!Rollback
        <4>2. m \in Files!Shown(t) /\ t \notin deleted
          BY <2>2, <4>1 DEF Files!Shown
        <4>3. ~ (current \in Cuts /\ current.thread = t)
          <5> SUFFICES ASSUME current \in Cuts, current.thread = t PROVE FALSE
            OBVIOUS
          <5>1. current \notin Messages
            BY DEF FileBounds
          <5>2. cut'[current] = "failed"
            BY <1>i, <3>3, <5>1 DEF Files!Rollback, Files!TypeOK
          <5>3. PICK c \in Cuts : c = current
            OBVIOUS
          <5>4. cut'[c] = "failed" /\ c.thread = Owner[m]
            BY <3>o, <4>2, <5>2, <5>3
          <5> QED BY <2>2, <5>4 DEF Taken, Files!MayHaveTaken, Files!SameSegment
        <4> QED BY <3>n, <3>o, <3>r, <4>1, <4>2, <4>3
      <3>4. CASE ~ Files!Commit /\ ~ Files!Project /\ ~ Files!Rollback
        <4>1. UNCHANGED <<current, messages, deleted>> /\ files \subseteq files'
          BY <1>i, <3>4, ClientSteps
        <4>2. Files!Shown(t)' = Files!Shown(t) /\ Files!Kept(current)' = Files!Kept(current)
          BY <4>1 DEF Files!Shown, Files!Kept
        <4> QED BY <2>2, <3>n, <3>o, <3>r, <4>1, <4>2
      <3> QED BY <3>1, <3>2, <3>3, <3>4
    <2>3. \A m \in Files!SendsUnderway' :
            (\A p \in 1..written'[m] : <<m, p>> \in files') \/ Taken(m)'
      BY <2>1 DEF Files!SendsUnderway
    <2> QED BY <2>2, <2>3 DEF FilesAreThere
  <1> QED BY <1>n, <1>v

\* A projected deletion has taken what has the segment of its thread, and no
\* send of it is under way.
LEMMA DeletionsNext ==
  FileBounds /\ Waits /\ FilesInv /\ WaitInv /\ [Files!Next]_(Files!vars) => DeletionsLeaveNothing'
  <1> SUFFICES ASSUME FileBounds, Waits, FilesInv, WaitInv, [Files!Next]_(Files!vars),
                      NEW f \in files'
               PROVE  /\ Owner[f[1]] \notin deleted'
                      /\ current' \in Cuts /\ current'.keep = Delete => Owner[f[1]] # current'.thread
    BY DEF DeletionsLeaveNothing
  <1>i. Files!TypeOK /\ CommandsWait /\ SendsWait /\ DeletionsLeaveNothing
    BY DEF FilesInv, WaitInv
  <1>h. f \in files =>
          /\ Owner[f[1]] \notin deleted
          /\ current \in Cuts /\ current.keep = Delete => Owner[f[1]] # current.thread
    BY <1>i DEF DeletionsLeaveNothing
  <1>1. CASE Files!Commit
    <2>1. f \in files /\ current' \notin Cuts
      BY <1>1 DEF Files!Commit, FileBounds
    <2>2. deleted' = deleted
          \/ (current \in Cuts /\ current.keep = Delete /\ deleted' = deleted \cup {current.thread})
      BY <1>1, <1>i DEF Files!Commit, Files!TypeOK
    <2> QED BY <1>h, <2>1, <2>2
  <1>2. CASE Files!Project
    <2>1. f \in files /\ deleted' = deleted
      BY <1>2, <1>i, ProjectTakes DEF Files!Project
    <2>2. current' \in Cuts /\ current'.keep = Delete => Owner[f[1]] # current'.thread
      BY <1>2, <1>i, ProjectTakes
    <2> QED BY <1>h, <2>1, <2>2
  <1>3. CASE Files!Rollback
    BY <1>3, <1>h DEF Files!Rollback, FileBounds
  <1>4. CASE ~ Files!Commit /\ ~ Files!Project /\ ~ Files!Rollback
    <2>1. /\ UNCHANGED <<current, deleted>>
          /\ f \in files \/ (f[1] \in Messages /\ stage[f[1]] = "writing")
      BY <1>4, <1>i, ClientSteps
    <2>2. CASE f[1] \in Messages /\ stage[f[1]] = "writing"
      <3>1. f[1] \in Files!SendsUnderway
        BY <2>2 DEF Files!SendsUnderway
      <3>2. Owner[f[1]] \notin deleted
        BY <1>i, <3>1 DEF SendsWait
      <3>3. current \in Cuts => Owner[f[1]] # current.thread
        BY <1>i, <3>1, CutIsAlone
      <3> QED BY <2>1, <3>2, <3>3
    <2> QED BY <1>h, <2>1, <2>2
  <1> QED BY <1>1, <1>2, <1>3, <1>4

LEMMA FilesHaveMessagesNext ==
  FileBounds /\ Calm /\ FilesInv /\ WaitInv /\ CalmInv /\ [Files!Next]_(Files!vars)
  => FilesHaveMessages'
  <1> SUFFICES ASSUME FileBounds, Calm, FilesInv, WaitInv, CalmInv, [Files!Next]_(Files!vars)
               PROVE  FilesHaveMessages'
    OBVIOUS
  <1>i. Files!TypeOK /\ CommandsWait /\ SendsWait /\ FilesHaveMessages
    BY DEF FilesInv, WaitInv, CalmInv
  <1>b. ~ Files!Rollback /\ ~ mayFail
    BY DEF Calm, Files!Rollback
  <1>t. \A f \in files : f[1] \in Messages /\ Owner[f[1]] \in Threads
    BY <1>i DEF Files!TypeOK, FileBounds
  <1>h. \A f \in files :
          \/ f[1] \in Files!SendsUnderway
          \/ f[1] \in Files!Shown(Owner[f[1]]) /\ Owner[f[1]] \notin deleted
    BY <1>i DEF FilesHaveMessages
  <1>k. current \in Cuts =>
          \A f \in files : Owner[f[1]] = current.thread =>
            current.keep # Delete /\ f[1] \in Files!ToSet(Files!Kept(current))
    BY <1>i DEF FilesHaveMessages
  <1>w. \A m \in Files!SendsUnderway : Owner[m] \notin deleted
    BY <1>i DEF SendsWait
  <1>1. ASSUME NEW f \in files'
        PROVE  \/ f[1] \in Files!SendsUnderway'
               \/ f[1] \in Files!Shown(Owner[f[1]])' /\ Owner[f[1]] \notin deleted'
    <2>1. CASE Files!Commit
      <3>1. f \in files
        BY <1>1, <2>1 DEF Files!Commit
      <3>2. PICK t \in Threads : t = Owner[f[1]]
        BY <1>t, <3>1
      <3>3. CASE current \in Messages
        <4>1. /\ t = Owner[current] => Files!Shown(t)' = Files!Shown(t) \cup {current}
              /\ t # Owner[current] => Files!Shown(t)' = Files!Shown(t)
              /\ \A m \in Messages \ {current} : stage'[m] = stage[m]
              /\ deleted' = deleted
          BY <1>i, <2>1, <3>3, CommitRows
        <4>2. CASE f[1] = current
          <5>1. current \in Files!SendsUnderway
            BY <1>i, <3>3 DEF CommandsWait, Files!SendsUnderway
          <5> QED BY <1>w, <3>2, <4>1, <4>2, <5>1
        <4>3. CASE f[1] # current /\ f[1] \in Files!SendsUnderway
          BY <4>1, <4>3 DEF Files!SendsUnderway
        <4>4. CASE f[1] \in Files!Shown(t) /\ t \notin deleted
          BY <3>2, <4>1, <4>4
        <4> QED BY <1>h, <3>1, <3>2, <4>2, <4>3, <4>4
      <3>4. CASE current \in Cuts
        <4>1. stage' = stage
          BY <1>i, <2>1, <3>4, CommitRows
        <4>2. CASE f[1] \in Files!SendsUnderway
          BY <4>1, <4>2 DEF Files!SendsUnderway
        <4>3. CASE f[1] \in Files!Shown(t) /\ t \notin deleted
          <5>1. CASE current.keep = Delete
            <6>1. deleted' = deleted \cup {current.thread} /\ messages' = messages
              BY <1>i, <2>1, <3>4, <5>1, CommitRows
            <6>2. t # current.thread
              BY <1>k, <3>1, <3>2, <3>4, <5>1
            <6> QED BY <3>2, <4>3, <6>1, <6>2 DEF Files!Shown
          <5>2. CASE current.keep # Delete
            <6>1. /\ deleted' = deleted
                  /\ t = current.thread => Files!Shown(t)' = Files!ToSet(Files!Kept(current))
                  /\ t # current.thread => Files!Shown(t)' = Files!Shown(t)
              BY <1>i, <2>1, <3>4, <5>2, CommitRows
            <6>2. t = current.thread => f[1] \in Files!ToSet(Files!Kept(current))
              BY <1>k, <3>1, <3>2, <3>4
            <6> QED BY <3>2, <4>3, <6>1, <6>2
          <5> QED BY <5>1, <5>2
        <4> QED BY <1>h, <3>1, <3>2, <4>2, <4>3
      <3> QED BY <1>i, <2>1, <3>3, <3>4 DEF Files!Commit, Files!TypeOK
    <2>2. CASE Files!Project
      <3>1. f \in files
        BY <1>1, <1>i, <2>2, ProjectTakes
      <3>2. UNCHANGED <<stage, messages, deleted>>
        BY <2>2 DEF Files!Project
      <3> QED BY <1>h, <3>1, <3>2 DEF Files!SendsUnderway, Files!Shown
    <2>3. CASE ~ Files!Commit /\ ~ Files!Project
      <3>1. /\ UNCHANGED <<messages, deleted>>
            /\ Files!SendsUnderway \subseteq Files!SendsUnderway'
            /\ f \in files \/ (f[1] \in Messages /\ stage'[f[1]] = "writing")
        BY <1>1, <1>b, <1>i, <2>3, ClientSteps
      <3>2. CASE f \in files
        BY <1>h, <3>1, <3>2 DEF Files!Shown
      <3>3. CASE f[1] \in Messages /\ stage'[f[1]] = "writing"
        BY <3>3 DEF Files!SendsUnderway
      <3> QED BY <3>1, <3>2, <3>3
    <2> QED BY <2>1, <2>2, <2>3
  <1>2. ASSUME current' \in Cuts, NEW f \in files', Owner[f[1]] = current'.thread
        PROVE  current'.keep # Delete /\ f[1] \in Files!ToSet(Files!Kept(current)')
    <2>1. ~ Files!Commit
      BY <1>2 DEF Files!Commit, FileBounds
    <2>2. CASE Files!Project
      <3>1. UNCHANGED <<stage, cut, messages>>
        BY <2>2 DEF Files!Project
      <3>2. PICK c \in Cuts : c = current'
        BY <1>2
      <3>3. /\ f \in files /\ c.keep # Delete
            /\ Files!Kept(c) = messages[c.thread] \/ f[1] \in Files!ToSet(Files!Kept(c))
        BY <1>2, <1>i, <2>2, <3>2, ProjectTakes
      <3>4. Files!Kept(current)' = Files!Kept(c)
        BY <3>1, <3>2 DEF Files!Kept
      <3>5. cut[c] = "queued"
        <4>1. CommandsWait'
          BY CommandsWaitNext DEF FilesInv
        <4> QED BY <3>1, <3>2, <4>1 DEF CommandsWait
      <3>6. f[1] \notin Files!SendsUnderway
        BY <1>2, <1>i, <3>2, <3>5 DEF SendsWait, Files!CutsUnderway
      <3>7. f[1] \in Files!Shown(c.thread)
        BY <1>2, <1>h, <3>2, <3>3, <3>6
      <3> QED BY <3>2, <3>3, <3>4, <3>7 DEF Files!Shown
    <2>3. CASE ~ Files!Project
      <3>1. /\ UNCHANGED <<current, messages>>
            /\ f \in files \/ (f[1] \in Messages /\ stage[f[1]] = "writing")
        BY <1>2, <1>b, <1>i, <2>1, <2>3, ClientSteps
      <3>2. Files!Kept(current)' = Files!Kept(current)
        BY <3>1 DEF Files!Kept
      <3>3. ~ (f[1] \in Messages /\ stage[f[1]] = "writing")
        BY <1>2, <1>i, <3>1, CutIsAlone DEF Files!SendsUnderway
      <3> QED BY <1>2, <1>k, <3>1, <3>2, <3>3
    <2> QED BY <2>2, <2>3
  <1> QED BY <1>1, <1>2 DEF FilesHaveMessages

LEMMA CalmStays ==
  [Files!Next]_(Files!vars) => (Waits' <=> Waits) /\ (Calm' <=> Calm)
BY DEF Files!Next, Files!vars, Files!settings, Calm, Waits

LEMMA WaitNext ==
  FileBounds /\ Waits /\ FilesInv /\ WaitInv /\ [Files!Next]_(Files!vars) => WaitInv'
BY SendsWaitNext, DeletionsNext DEF WaitInv

LEMMA CalmNext ==
  FileBounds /\ Calm /\ FilesInv /\ WaitInv /\ CalmInv /\ [Files!Next]_(Files!vars) => CalmInv'
BY FilesHaveMessagesNext DEF CalmInv

LEMMA RowsNext ==
  FileBounds /\ FilesInv /\ RowsInv /\ (Waits => WaitInv) /\ [Files!Next]_(Files!vars) => RowsInv'
  <1> SUFFICES ASSUME FileBounds, FilesInv, RowsInv, Waits => WaitInv, [Files!Next]_(Files!vars)
               PROVE  RowsInv'
    OBVIOUS
  <1>1. Waits => SendsWait /\ SendsWait'
    BY SendsWaitNext DEF WaitInv
  <1> QED BY <1>1, FilesNext, RowsAreSentNext, FilesAreThereNext DEF RowsInv

LEMMA FilesMatch ==
  FileBounds /\ FilesInv /\ RowsInv /\ (Waits => WaitInv) /\ (Calm => CalmInv) =>
    Files!FilesMatchRows
  <1> SUFFICES ASSUME FileBounds, FilesInv, RowsInv, Waits => WaitInv, Calm => CalmInv
               PROVE  Files!FilesMatchRows
    OBVIOUS
  <1>1. Files!RowsHaveFiles
    <2> SUFFICES ASSUME current = None, NEW t \in Threads \ deleted, NEW m \in Files!Shown(t)
                 PROVE  Files!FilesOf(m) \subseteq files \/ \E c \in Cuts : Files!MayHaveTaken(c, m)
      BY DEF Files!RowsHaveFiles
    <2>1. current \notin Cuts
      BY DEF FileBounds
    <2>2. Files!FilesOf(m) \subseteq files \/ Taken(m)
      BY <2>1 DEF RowsInv, FilesAreThere
    <2> QED BY <2>1, <2>2 DEF Taken
  <1>2. ASSUME Waits PROVE Files!DeletedLeavesNothing
    BY <1>2 DEF Files!DeletedLeavesNothing, WaitInv, DeletionsLeaveNothing
  <1>3. ASSUME Calm PROVE Files!NothingLeft
    BY <1>3 DEF Files!NothingLeft, CalmInv, FilesHaveMessages
  <1>4. Files!TypeOK
    BY DEF FilesInv
  <1> QED BY <1>1, <1>2, <1>3, <1>4 DEF Files!FilesMatchRows, Waits, Calm

\* A row lacks files only when a transaction failed, clients did not wait, or two
\* threads have one segment; while clients wait for the cuts of their thread,
\* deletions leave nothing, and when nothing fails either, reverts do not.
THEOREM AttachmentsMatchRows ==
  ASSUME FileBounds
  PROVE  MCSpec => []FilesMatchRows
  <1> DEFINE Inv == FilesInv /\ RowsInv /\ (Waits => WaitInv) /\ (Calm => CalmInv)
  <1>1. MCInit => Inv
    BY FilesInit DEF MCInit
  <1>2. Inv /\ [MCNext]_<<scenario, vars, fileVars>> => Inv'
    <2> SUFFICES ASSUME Inv, [MCNext]_<<scenario, vars, fileVars>> PROVE Inv'
      OBVIOUS
    <2>1. [Files!Next]_(Files!vars) /\ (Calm => Waits)
      BY FileSteps DEF Calm, Waits
    <2>2. FilesInv' /\ RowsInv'
      BY <2>1, FilesNext, RowsNext
    <2>3. Waits' => WaitInv'
      BY <2>1, CalmStays, WaitNext
    <2>4. Calm' => CalmInv'
      BY <2>1, CalmStays, CalmNext
    <2> QED BY <2>2, <2>3, <2>4
  <1>3. Inv => FilesMatchRows
    BY FilesMatch DEF FilesMatchRows
  <1> QED BY <1>1, <1>2, <1>3, PTL DEF MCSpec
=============================================================================
