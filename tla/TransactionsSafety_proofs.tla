--------------------- MODULE TransactionsSafety_proofs ----------------------
(***************************************************************************)
(* Proofs about Transactions, third part: what the log and the answers     *)
(* hold of the batches of an identity, and what follows for every          *)
(* reachable state.                                                        *)
(***************************************************************************)
EXTENDS TransactionsLog_proofs, ProducerLog_proofs

-----------------------------------------------------------------------------
(* The log in the order of the sequences. *)

Good(log) == Ordered(log) /\ Chained(log)

\* The log is in order.
InOrder == \E log : log = segments /\ Good(log)

\* The entries `added` may be created after the first k segments.
Extends(k, added) == \E log : log = SubSeq(segments, 1, k) /\ Good(Append(log, added))

\* `out` answers the requests by the log that creating `added` there makes.
AnswersTrue(k, added, reqs, out) ==
    \E log : /\ log = SubSeq(segments, 1, k)
             /\ \A j \in 1..Len(reqs) : Answered(Append(log, added), reqs[j], out[j])

\* The log is in order, and stays so whichever create the store carries out.
LogInv ==
    /\ InOrder
    /\ \A z \in late : Extends(z.candidate, z.added)
    /\ \A r \in Replicas : flush[r].pc = "put" =>
         /\ Extends(flush[r].candidate, flush[r].added)
         /\ AnswersTrue(flush[r].candidate, flush[r].added, flush[r].reqs, flush[r].out)

\* A log's beginning, and the log as its own beginning.
LEMMA Beginning ==
    ASSUME NEW S, NEW s \in Seq(S), NEW k \in Nat, k <= Len(s)
    PROVE  /\ SubSeq(s, 1, k) \in Seq(S) /\ Len(SubSeq(s, 1, k)) = k
           /\ \A i \in 1..k : SubSeq(s, 1, k)[i] = s[i]
           /\ \A x \in S : SubSeq(Append(s, x), 1, k) = SubSeq(s, 1, k)
           /\ k = Len(s) => SubSeq(s, 1, k) = s
<1>1. SubSeq(s, 1, k) \in Seq(S) /\ Len(SubSeq(s, 1, k)) = k
  OBVIOUS
<1>2. \A i \in 1..k : SubSeq(s, 1, k)[i] = s[i]
  OBVIOUS
<1>3. ASSUME NEW x \in S PROVE SubSeq(Append(s, x), 1, k) = SubSeq(s, 1, k)
  <2>1. Append(s, x) \in Seq(S) /\ Len(Append(s, x)) = Len(s) + 1 /\ \A i \in 1..k : Append(s, x)[i] = s[i]
    OBVIOUS
  <2> DEFINE a == Append(s, x)
  <2> HIDE DEF a
  <2>2. SubSeq(a, 1, k) \in Seq(S) /\ Len(SubSeq(a, 1, k)) = k /\ \A i \in 1..k : SubSeq(a, 1, k)[i] = a[i]
    BY <2>1 DEF a
  <2>3. \A i \in 1..k : SubSeq(a, 1, k)[i] = SubSeq(s, 1, k)[i]
    BY <1>2, <2>1, <2>2 DEF a
  <2> QED BY <1>1, <2>2, <2>3 DEF a
<1>4. k = Len(s) => SubSeq(s, 1, k) = s
  BY <1>1, <1>2
<1> QED BY <1>1, <1>2, <1>3, <1>4, Zenon

\* The beginning of a log that is in order is in order.
LEMMA BeginningGood ==
    ASSUME NEW E, NEW segs \in Seq(Seq(E)), NEW k \in Nat, k <= Len(segs), Good(segs)
    PROVE  /\ Good(SubSeq(segs, 1, k))
           /\ \A x \in Positions(SubSeq(segs, 1, k)) : x \in Positions(segs) /\ At(SubSeq(segs, 1, k), x) = At(segs, x)
<1> DEFINE s == SubSeq(segs, 1, k)
<1>1. s \in Seq(Seq(E)) /\ Len(s) = k /\ \A i \in 1..k : s[i] = segs[i]
  BY Beginning, Zenon
<1> HIDE DEF s
<1>2. \A x : x \in Positions(s) <=> x = <<x[1], x[2]>> /\ x[1] \in 1..k /\ x[2] \in 1..Len(s[x[1]])
  BY <1>1, StoredPosition, Zenon
<1>3. \A x : x \in Positions(segs) <=> x = <<x[1], x[2]>> /\ x[1] \in 1..Len(segs) /\ x[2] \in 1..Len(segs[x[1]])
  BY StoredPosition
<1>4. 1..k \subseteq 1..Len(segs)
  OBVIOUS
<1>5. \A x \in Positions(s) : x \in Positions(segs) /\ At(s, x) = At(segs, x)
  BY <1>1, <1>2, <1>3, <1>4, Zenon DEF At
<1>6. Ordered(s)
  <2>1. Ordered(segs)
    BY Zenon DEF Good
  <2> SUFFICES ASSUME NEW x \in Positions(s), NEW y \in Positions(s), SameStream(At(s, x), At(s, y)), Before(x, y)
               PROVE  \/ At(s, x).epoch < At(s, y).epoch
                      \/ At(s, x).epoch = At(s, y).epoch /\ At(s, x).base + At(s, x).n <= At(s, y).base
    BY Zenon DEF Ordered
  <2>2. x \in Positions(segs) /\ y \in Positions(segs) /\ At(s, x) = At(segs, x) /\ At(s, y) = At(segs, y)
    BY <1>5, Zenon
  <2> QED BY <2>1, <2>2, Zenon DEF Ordered
<1>7. Chained(s)
  <2>1. Chained(segs)
    BY Zenon DEF Good
  <2> SUFFICES ASSUME NEW x \in Positions(s), Folds(At(s, x)), At(s, x).base # 0
               PROVE  \E y \in Positions(s) : /\ Before(y, x) /\ SameStream(At(s, y), At(s, x))
                                              /\ At(s, y).epoch = At(s, x).epoch
                                              /\ At(s, y).base + At(s, y).n = At(s, x).base
    BY Zenon DEF Chained
  <2>2. x \in Positions(segs) /\ At(s, x) = At(segs, x)
    BY <1>5, Zenon
  <2>3. PICK y \in Positions(segs) : /\ Before(y, x) /\ SameStream(At(segs, y), At(segs, x))
                                     /\ At(segs, y).epoch = At(segs, x).epoch
                                     /\ At(segs, y).base + At(segs, y).n = At(segs, x).base
    BY <2>1, <2>2, Zenon DEF Chained
  <2>4. y = <<y[1], y[2]>> /\ y[1] \in 1..Len(segs) /\ y[2] \in 1..Len(segs[y[1]])
    BY <1>3, <2>3, Zenon
  <2>5. x[1] \in 1..k
    BY <1>2, Zenon
  <2>6. y[1] <= x[1]
    BY <2>3, <2>4, <2>5 DEF Before
  <2>7. y[1] \in 1..k
    BY <2>4, <2>5, <2>6
  <2>8. s[y[1]] = segs[y[1]]
    BY <1>1, <2>7, Zenon
  <2>9. y \in Positions(s)
    BY <1>2, <2>4, <2>7, <2>8, Zenon
  <2>10. At(s, y) = At(segs, y)
    BY <1>5, <2>9, Zenon
  <2> QED BY <2>2, <2>3, <2>9, <2>10, Zenon
<1> QED BY <1>5, <1>6, <1>7, Zenon DEF Good, s

\* A create that fits stays one while the log grows.
LEMMA ExtendsStays ==
    ASSUME NEW E, segments \in Seq(Seq(E)), segments' \in Seq(Seq(E)),
           segments' = segments \/ \E x \in Seq(E) : segments' = Append(segments, x),
           NEW k \in Nat, k <= Len(segments)
    PROVE  /\ SubSeq(segments', 1, k) = SubSeq(segments, 1, k)
           /\ \A added : Extends(k, added) => Extends(k, added)'
           /\ \A added, reqs, out : AnswersTrue(k, added, reqs, out) => AnswersTrue(k, added, reqs, out)'
<1>1. SubSeq(segments', 1, k) = SubSeq(segments, 1, k)
  <2>1. ASSUME NEW x \in Seq(E), segments' = Append(segments, x) PROVE SubSeq(segments', 1, k) = SubSeq(segments, 1, k)
    <3>1. SubSeq(Append(segments, x), 1, k) = SubSeq(segments, 1, k)
      BY Beginning
    <3> QED BY <2>1, <3>1, Zenon
  <2> QED BY <2>1, Zenon
<1>2. ASSUME NEW added, Extends(k, added) PROVE Extends(k, added)'
  <2>1. PICK log : log = SubSeq(segments, 1, k) /\ Good(Append(log, added))
    BY <1>2, Zenon DEF Extends
  <2>2. log = SubSeq(segments', 1, k)
    BY <1>1, <2>1, Zenon
  <2> QED BY <2>1, <2>2, Zenon DEF Extends
<1>3. ASSUME NEW added, NEW reqs, NEW out, AnswersTrue(k, added, reqs, out) PROVE AnswersTrue(k, added, reqs, out)'
  <2>1. PICK log : /\ log = SubSeq(segments, 1, k)
                   /\ \A j \in 1..Len(reqs) : Answered(Append(log, added), reqs[j], out[j])
    BY <1>3, Zenon DEF AnswersTrue
  <2>2. log = SubSeq(segments', 1, k)
    BY <1>1, <2>1, Zenon
  <2> QED BY <2>1, <2>2, Zenon DEF AnswersTrue
<1> QED BY <1>1, <1>2, <1>3, Zenon

\* A create that fits, at the end of the log, keeps it in order.
LEMMA CreateInOrder ==
    ASSUME NEW E, segments \in Seq(Seq(E)), NEW added \in Seq(E), Extends(Len(segments), added),
           segments' = Append(segments, added)
    PROVE  InOrder'
<1>1. Len(segments) \in Nat /\ Len(segments) <= Len(segments)
  OBVIOUS
<1>2. SubSeq(segments, 1, Len(segments)) = segments
  BY <1>1, Beginning
<1>3. PICK log : log = segments /\ Good(Append(log, added))
  BY <1>2, Zenon DEF Extends
<1>4. Append(log, added) = segments'
  BY <1>3, Zenon
<1> QED BY <1>3, <1>4, Zenon DEF InOrder

\* Every step keeps the log in order.
LEMMA LogInvStep ==
    ASSUME Given, Types(IMax), Types(IMax)', Room, LogInv, Next
    PROVE  LogInv'
<1> DEFINE E == Entries(IMax)
<1>1. IMax \in Int /\ IMax \in {IMax, 2 * IMax} /\ IMax <= IMax
  BY DEF Given, ProducerLogAssumption
<1>2. LogTypes(IMax) /\ segments \in Seq(Seq(E)) /\ segments' \in Seq(Seq(E)) /\ flush \in [Replicas -> Flushes(IMax)]
  BY Zenon DEF Types, LogTypes
<1>3. LogMoves(IMax)
  <2>1. LogStep(IMax)
    BY <1>1, NextLogStep, Zenon
  <2> QED BY <1>1, <1>2, <2>1, LogMove, Zenon
<1>4. Regular(E)
  BY <1>1, EntriesTyped, Zenon
<1> HIDE DEF E
<1>5. ASSUME NEW r \in Replicas
      PROVE  flush[r].added \in Seq(E) /\ flush[r].candidate \in Nat
  <2>1. flush[r] \in Flushes(IMax)
    BY <1>2, Zenon
  <2> QED BY <2>1 DEF Flushes, E
<1>14. ASSUME NEW r \in Replicas, flush[r].pc = "put"
       PROVE  /\ flush[r].candidate <= Len(segments)
              /\ Extends(flush[r].candidate, flush[r].added)
              /\ AnswersTrue(flush[r].candidate, flush[r].added, flush[r].reqs, flush[r].out)
  BY <1>2, <1>14, Zenon DEF LogTypes, LogInv
<1>6. \A z \in late : z.added \in Seq(E) /\ z.candidate \in Nat /\ z.candidate <= Len(segments)
  <2>1. \A z \in late : z \in [candidate : Nat, added : Seq(E)]
    BY <1>2, Zenon DEF LogTypes, E
  <2>2. \A z \in late : z.added \in Seq(E) /\ z.candidate \in Nat
    BY <2>1
  <2> QED BY <1>2, <2>2, Zenon DEF LogTypes
<1>7. segments' = segments \/ \E x \in Seq(E) : segments' = Append(segments, x)
  <2>1. ASSUME NEW r \in Replicas, segments' = Append(segments, flush[r].added)
        PROVE  \E x \in Seq(E) : segments' = Append(segments, x)
    BY <1>5, <2>1, Zenon
  <2>2. ASSUME NEW z \in late, segments' = Append(segments, z.added)
        PROVE  \E x \in Seq(E) : segments' = Append(segments, x)
    BY <1>6, <2>2, Zenon
  <2> QED BY <1>3, <2>1, <2>2, Zenon DEF LogMoves, SegmentsMove
<1>8. ASSUME NEW k \in Nat, k <= Len(segments)
      PROVE  /\ \A added : Extends(k, added) => Extends(k, added)'
             /\ \A added, reqs, out : AnswersTrue(k, added, reqs, out) => AnswersTrue(k, added, reqs, out)'
  BY <1>2, <1>7, <1>8, ExtendsStays, Zenon
<1>9. InOrder /\ \A z \in late : Extends(z.candidate, z.added)
  BY Zenon DEF LogInv
<1>10. InOrder'
  <2>1. CASE segments' = segments
    BY <1>9, <2>1, Zenon DEF InOrder
  <2>2. ASSUME NEW r \in Replicas, flush[r].pc = "put", flush[r].candidate = Len(segments),
               segments' = Append(segments, flush[r].added)
        PROVE  InOrder'
    <3>1. Extends(Len(segments), flush[r].added)
      BY <1>14, <2>2, Zenon
    <3>2. flush[r].added \in Seq(E)
      BY <1>5, Zenon
    <3> QED BY <1>2, <2>2, <3>1, <3>2, CreateInOrder, Zenon
  <2>3. ASSUME NEW z \in late, z.candidate = Len(segments), segments' = Append(segments, z.added)
        PROVE  InOrder'
    <3>1. Extends(Len(segments), z.added)
      BY <1>9, <2>3, Zenon
    <3> QED BY <1>2, <1>6, <2>3, <3>1, CreateInOrder, Zenon
  <2> QED BY <1>3, <2>1, <2>2, <2>3, Zenon DEF LogMoves, SegmentsMove
<1>11. ASSUME NEW z \in late' PROVE Extends(z.candidate, z.added)'
  <2>1. CASE z \in late
    BY <1>6, <1>8, <1>9, <2>1, Zenon
  <2>2. ASSUME NEW r \in Replicas, flush[r].pc = "put",
               z = [candidate |-> flush[r].candidate, added |-> flush[r].added]
        PROVE  Extends(z.candidate, z.added)'
    <3>1. PICK k, added : k = flush[r].candidate /\ added = flush[r].added
      BY Zenon
    <3>2. z.candidate = k /\ z.added = added
      BY <2>2, <3>1
    <3>3. Extends(k, added)'
      <4>1. k \in Nat /\ k <= Len(segments) /\ Extends(k, added)
        BY <1>5, <1>14, <2>2, <3>1, Zenon
      <4> QED BY <1>8, <4>1, Zenon
    <3> QED BY <3>2, <3>3, Zenon
  <2> QED BY <1>3, <2>1, <2>2, Zenon DEF LogMoves, LateMoves
<1>12. ASSUME NEW r \in Replicas, flush'[r].pc = "put", NEW k, NEW added, NEW reqs, NEW out,
              k = flush'[r].candidate, added = flush'[r].added, reqs = flush'[r].reqs, out = flush'[r].out
       PROVE  Extends(k, added)' /\ AnswersTrue(k, added, reqs, out)'
  <2>1. CASE flush'[r] = NoFlush
    <3>1. NoFlush.pc = "idle"
      BY DEF NoFlush
    <3> QED BY <1>12, <2>1, <3>1
  <2>2. CASE /\ flush'[r].reqs = flush[r].reqs /\ flush'[r].added = flush[r].added /\ flush'[r].out = flush[r].out
             /\ flush'[r].candidate = flush[r].candidate /\ (flush'[r].pc = "put" => flush[r].pc = "put")
    <3>1. /\ k = flush[r].candidate /\ added = flush[r].added /\ reqs = flush[r].reqs /\ out = flush[r].out
          /\ flush[r].pc = "put"
      BY <1>12, <2>2, Zenon
    <3>2. Extends(k, added) /\ AnswersTrue(k, added, reqs, out) /\ k \in Nat /\ k <= Len(segments)
      BY <1>5, <1>14, <3>1, Zenon
    <3> QED BY <1>8, <3>2, Zenon
  <2>3. CASE flush'[r].pc # "put"
    BY <1>12, <2>3, Zenon
  <2>4. ASSUME NEW upto \in Nat, upto <= Len(segments), segments' = segments,
               Planned(E, SubSeq(segments, 1, upto), flush[r].reqs, Len(flush[r].reqs),
                       Plan(SubSeq(segments, 1, upto), flush[r].reqs)),
               flush'[r].reqs = flush[r].reqs, flush'[r].candidate = upto,
               flush'[r].added = Plan(SubSeq(segments, 1, upto), flush[r].reqs).added,
               flush'[r].out = Plan(SubSeq(segments, 1, upto), flush[r].reqs).out
        PROVE  Extends(k, added)' /\ AnswersTrue(k, added, reqs, out)'
    <3>1. PICK log, plan : log = SubSeq(segments, 1, upto) /\ plan = Plan(SubSeq(segments, 1, upto), flush[r].reqs)
      BY Zenon
    <3>2. reqs = flush[r].reqs /\ k = upto /\ added = plan.added /\ out = plan.out
      BY <1>12, <2>4, <3>1, Zenon
    <3>3. Planned(E, log, reqs, Len(reqs), plan)
      BY <2>4, <3>1, <3>2, Zenon
    <3>4. \A j \in 1..Len(reqs) : Answered(Append(log, added), reqs[j], out[j])
      BY <3>2, <3>3, Zenon DEF Planned
    <3>5. Good(log)
      <4>1. Good(segments)
        BY <1>9, Zenon DEF InOrder
      <4> QED BY <1>2, <2>4, <3>1, <4>1, BeginningGood, Zenon
    <3>6. Good(Append(log, added))
      BY <1>4, <3>2, <3>3, <3>5, Zenon DEF Planned, Good
    <3>7. log = SubSeq(segments', 1, k)
      BY <2>4, <3>1, <3>2, Zenon
    <3>8. Extends(k, added)'
      BY <3>6, <3>7, Zenon DEF Extends
    <3>9. AnswersTrue(k, added, reqs, out)'
      BY <3>4, <3>7, Zenon DEF AnswersTrue
    <3> QED BY <3>8, <3>9, Zenon
  <2>5. FlushMoves(IMax, r)
    BY <1>3, Zenon DEF LogMoves
  <2> QED BY <2>1, <2>2, <2>3, <2>4, <2>5, Zenon DEF FlushMoves, E
<1>13. ASSUME NEW r \in Replicas, flush'[r].pc = "put"
       PROVE  (/\ Extends(flush[r].candidate, flush[r].added)
               /\ AnswersTrue(flush[r].candidate, flush[r].added, flush[r].reqs, flush[r].out))'
  <2>1. PICK k, added, reqs, out : /\ k = flush'[r].candidate /\ added = flush'[r].added
                                   /\ reqs = flush'[r].reqs /\ out = flush'[r].out
    BY Zenon
  <2>2. Extends(k, added)' /\ AnswersTrue(k, added, reqs, out)'
    BY <1>12, <1>13, <2>1, Zenon
  <2> QED BY <2>1, <2>2, Zenon DEF Extends, AnswersTrue
<1> QED BY <1>10, <1>11, <1>13, Zenon DEF LogInv

\* Initially the log is empty.
LEMMA LogInvInit ==
    ASSUME Init
    PROVE  LogInv
<1>1. segments = <<>> /\ late = {} /\ flush = [r \in Replicas |-> NoFlush]
  BY Zenon DEF Init, LogInit
<1>2. NoFlush.pc # "put"
  BY DEF NoFlush
<1>3. DOMAIN <<>> = {}
  OBVIOUS
<1>4. Positions(segments) = {}
  BY <1>1, <1>3, Zenon DEF Positions
<1>5. Good(segments)
  BY <1>4, Zenon DEF Good, Ordered, Chained
<1> QED BY <1>1, <1>2, <1>5, Zenon DEF LogInv, InOrder

\* Nothing changes.
LEMMA LogInvStays ==
    ASSUME LogInv, segments' = segments, late' = late, flush' = flush
    PROVE  LogInv'
<1>1. InOrder'
  BY Zenon DEF LogInv, InOrder
<1>2. \A k, added : Extends(k, added) => Extends(k, added)'
  BY Zenon DEF Extends
<1>3. \A k, added, reqs, out : AnswersTrue(k, added, reqs, out) => AnswersTrue(k, added, reqs, out)'
  BY Zenon DEF AnswersTrue
<1>4. ASSUME NEW z \in late' PROVE Extends(z.candidate, z.added)'
  BY <1>2, Zenon DEF LogInv
<1>5. ASSUME NEW r \in Replicas, flush'[r].pc = "put"
      PROVE  (/\ Extends(flush[r].candidate, flush[r].added)
              /\ AnswersTrue(flush[r].candidate, flush[r].added, flush[r].reqs, flush[r].out))'
  <2>1. PICK k, added, reqs, out : /\ k = flush'[r].candidate /\ added = flush'[r].added
                                   /\ reqs = flush'[r].reqs /\ out = flush'[r].out
    BY Zenon
  <2>2. Extends(k, added) /\ AnswersTrue(k, added, reqs, out)
    BY <1>5, <2>1, Zenon DEF LogInv
  <2>3. Extends(k, added)' /\ AnswersTrue(k, added, reqs, out)'
    BY <1>2, <1>3, <2>2, Zenon
  <2> QED BY <2>1, <2>3, Zenon DEF Extends, AnswersTrue
<1> QED BY <1>1, <1>4, <1>5, Zenon DEF LogInv

-----------------------------------------------------------------------------
(* Where a batch is, and what it was answered with. *)

\* The batch is in the log at this offset.
StoredAt(id, part, off) == \E x \in Stored : Entry(x).id = id /\ Entry(x).part = part /\ Entry(x).off = off

\* Of two places in the log one comes first.
LEMMA PlacesTotal ==
    ASSUME NEW E, NEW segs \in Seq(Seq(E)), NEW x \in Positions(segs), NEW y \in Positions(segs), x # y
    PROVE  Before(x, y) \/ Before(y, x)
<1>1. /\ x = <<x[1], x[2]>> /\ x[1] \in 1..Len(segs) /\ x[2] \in 1..Len(segs[x[1]])
      /\ y = <<y[1], y[2]>> /\ y[1] \in 1..Len(segs) /\ y[2] \in 1..Len(segs[y[1]])
  BY StoredPosition
<1>2. x[1] \in Int /\ x[2] \in Int /\ y[1] \in Int /\ y[2] \in Int
  BY <1>1
<1>3. x[1] # y[1] \/ x[2] # y[2]
  BY <1>1, Zenon
<1> QED BY <1>2, <1>3 DEF Before

\* A stored data batch is carried, and has a sequence.
LEMMA StoredCarried ==
    ASSUME Given, NEW top \in Int, Types(top), NEW x \in Stored, ~Entry(x).control
    PROVE  Carried(Entry(x)) /\ Folds(Entry(x)) /\ Entry(x).control = FALSE
<1>1. segments \in Seq(Seq(Entries(top))) /\ x \in Positions(segments)
  BY Zenon DEF Types, LogTypes, Stored
<1>2. Entry(x) \in Entries(top)
  BY <1>1, StoredEntry, Zenon DEF Entry
<1> DEFINE e == Entry(x)
<1>3. ~e.control /\ e \in Entries(top)
  BY <1>2, Zenon
<1>4. Around(e)
  BY Zenon DEF Around, InLog
<1> HIDE DEF e
<1>5. e.control = FALSE
  BY <1>3 DEF Entries, DataEntries, MarkerEntries
<1>6. Carried(e)
  BY <1>4, <1>5, Zenon DEF Carried, SameKey
<1>7. e.base \in 0..IMax
  BY <1>6, CarriedTyped, Zenon
<1>8. e.base # -1
  BY <1>7
<1> QED BY <1>5, <1>6, <1>8, Zenon DEF Folds, e

\* In a log in order every batch is stored once.
LEMMA OnceStored ==
    ASSUME Given, Types(IMax), KeyInv, LogInv
    PROVE  AppendedOnce
<1>1. IMax \in Int
  BY DEF Given, ProducerLogAssumption
<1>2. segments \in Seq(Seq(Entries(IMax))) /\ Ordered(segments)
  BY Zenon DEF Types, LogTypes, LogInv, InOrder, Good
<1>3. ASSUME NEW x \in Stored, NEW y \in Stored, ~Entry(x).control, ~Entry(y).control, Entry(x).id = Entry(y).id, Before(x, y)
      PROVE  FALSE
  <2>1. Carried(Entry(x)) /\ Folds(Entry(x)) /\ Carried(Entry(y)) /\ Folds(Entry(y))
    BY <1>1, <1>3, StoredCarried, Zenon
  <2> DEFINE e == Entry(x)
             f == Entry(y)
  <2>2. x \in Positions(segments) /\ y \in Positions(segments) /\ e = At(segments, x) /\ f = At(segments, y)
    BY Zenon DEF Stored, Entry
  <2>3. e.id = f.id /\ Carried(e) /\ Carried(f) /\ Folds(e) /\ Folds(f)
    BY <1>3, <2>1, Zenon
  <2> HIDE DEF e, f
  <2>4. e.part = f.part /\ e.pid = f.pid /\ e.epoch = f.epoch /\ e.base = f.base
    <3>1. OneBatch(e, f)
      BY <2>3, Zenon DEF KeyInv
    <3> QED BY <2>3, <3>1, Zenon DEF OneBatch
  <2>5. e.epoch \in Int /\ e.base \in 0..IMax /\ e.n \in Nat \ {0}
    BY <1>1, <2>3, CarriedTyped, Zenon
  <2>6. SameStream(e, f)
    BY <2>3, <2>4, Zenon DEF SameStream
  <2>7. e.epoch < f.epoch \/ e.base + e.n <= f.base
    BY <1>2, <1>3, <2>2, <2>6, Zenon DEF Ordered
  <2> QED BY <2>4, <2>5, <2>7
<1>4. ASSUME NEW x \in Stored, NEW y \in Stored, ~Entry(x).control, ~Entry(y).control, Entry(x).id = Entry(y).id, x # y
      PROVE  FALSE
  <2>1. Before(x, y) \/ Before(y, x)
    BY <1>2, <1>4, PlacesTotal, Zenon DEF Stored
  <2> QED BY <1>3, <1>4, <2>1, Zenon
<1> QED BY <1>4, Zenon DEF AppendedOnce

\* In a log in order every batch follows the one before it.
LEMMA InOrderStored ==
    ASSUME Given, Types(IMax), LogInv
    PROVE  AppendedInOrder
<1>1. IMax \in Int
  BY DEF Given, ProducerLogAssumption
<1>2. Chained(segments)
  BY Zenon DEF LogInv, InOrder, Good
<1> SUFFICES ASSUME NEW x \in Stored, ~Entry(x).control, Entry(x).base # 0
             PROVE  \E y \in Stored : /\ Before(y, x) /\ ~Entry(y).control
                                      /\ Entry(y).part = Entry(x).part /\ Entry(y).pid = Entry(x).pid
                                      /\ Entry(y).epoch = Entry(x).epoch
                                      /\ NextSequence(Entry(y).base, Entry(y).n) = Entry(x).base
  BY Zenon DEF AppendedInOrder
<1>3. Folds(At(segments, x)) /\ x \in Positions(segments) /\ At(segments, x).base # 0
  BY <1>1, StoredCarried, Zenon DEF Stored, Entry
<1>4. PICK y \in Positions(segments) :
        /\ Before(y, x) /\ SameStream(At(segments, y), At(segments, x))
        /\ At(segments, y).epoch = At(segments, x).epoch
        /\ At(segments, y).base + At(segments, y).n = At(segments, x).base
  BY <1>2, <1>3, Zenon DEF Chained
<1>5. /\ y \in Stored /\ ~Entry(y).control /\ Before(y, x)
      /\ Entry(y).part = Entry(x).part /\ Entry(y).pid = Entry(x).pid
      /\ Entry(y).epoch = Entry(x).epoch /\ Entry(y).base + Entry(y).n = Entry(x).base
  BY <1>4, Zenon DEF SameStream, Folds, Stored, Entry
<1> DEFINE f == Entry(y)
<1>6. f.base \in 0..IMax /\ f.n \in Nat \ {0} /\ f.base + f.n <= IMax
  <2>1. Carried(f)
    BY <1>1, <1>5, StoredCarried, Zenon
  <2> HIDE DEF f
  <2> QED BY <1>1, <2>1, CarriedTyped, Zenon
<1>7. NextSequence(f.base, f.n) = f.base + f.n
  <2> HIDE DEF f
  <2> QED BY <1>1, <1>6 DEF NextSequence
<1> QED BY <1>5, <1>7, Zenon

\* What is in the log stays where it is.
LEMMA StoredStays ==
    ASSUME NEW E, segments \in Seq(Seq(E)), segments' = segments \/ \E s \in Seq(E) : segments' = Append(segments, s)
    PROVE  \A x \in Stored : x \in Stored' /\ Entry(x)' = Entry(x)
<1>1. CASE segments' = segments
  BY <1>1, Zenon DEF Stored, Entry, Positions, At
<1>2. ASSUME NEW s \in Seq(E), segments' = Append(segments, s), NEW x \in Stored PROVE x \in Stored' /\ Entry(x)' = Entry(x)
  <2>1. x \in Positions(segments)
    BY Zenon DEF Stored
  <2>2. x \in Positions(Append(segments, s)) /\ At(Append(segments, s), x) = At(segments, x)
    BY <2>1, PositionsOfAppend
  <2>3. Stored' = Positions(segments') /\ Entry(x)' = At(segments', x) /\ Entry(x) = At(segments, x)
    BY Zenon DEF Stored, Entry, Positions, At
  <2> QED BY <1>2, <2>2, <2>3, Zenon
<1> QED BY <1>1, <1>2, Zenon

\* An entry that is the batch of a request has its id.
LEMMA SameId ==
    ASSUME Given, Types(IMax), KeyInv, NEW q, Carried(q), NEW e, Around(e),
           SameBatch(e, q)
    PROVE  e.id = q.id
<1>1. IMax \in Int
  BY DEF Given, ProducerLogAssumption
<1>2. e \in Requests(IMax) \cup Entries(IMax)
  BY <1>1, AroundTyped, Zenon
<1>3. e.control \in BOOLEAN
  BY <1>2, Zenon DEF Requests, Entries, DataRequests, DataEntries, MarkerRequests, MarkerEntries
<1>4. ~e.control
  BY Zenon DEF SameBatch, Folds
<1>5. e.control = FALSE
  BY <1>3, <1>4
<1>6. Carried(e)
  BY <1>5, Zenon DEF Carried, SameKey
<1>7. OneBatch(e, q)
  BY <1>6, Zenon DEF KeyInv
<1> QED BY <1>7, Zenon DEF OneBatch, SameBatch

\* A batch of a window is carried.
LEMMA WindowCarried ==
    ASSUME NEW r \in Replicas, NEW j \in DOMAIN flush[r].reqs, flush[r].reqs[j].control = FALSE
    PROVE  Carried(flush[r].reqs[j])
<1>1. Around(flush[r].reqs[j])
  BY Zenon DEF Around, InLog, In
<1> QED BY <1>1, Zenon DEF Carried, SameKey

\* A flush whose create wins answers with where it put the batches.
LEMMA WonStored ==
    ASSUME Given, Types(IMax), KeyInv, LogInv,
           NEW r \in Replicas, NEW out, PutWon(r, out), NEW j \in 1..Len(flush[r].reqs), NEW q, q = flush[r].reqs[j],
           NEW a, a = out[j], q.control = FALSE, Carried(q), a.class = "ok"
    PROVE  StoredAt(q.id, q.part, a.off)'
<1> DEFINE E == Entries(IMax)
           added == flush[r].added
           log == Append(segments, added)
<1>1. /\ segments \in Seq(Seq(E)) /\ flush[r] \in Flushes(IMax)
  BY Zenon DEF Types, LogTypes
<1>2. added \in Seq(E)
  BY <1>1 DEF Flushes
<1>3. flush[r].pc = "put" /\ flush[r].candidate = Len(segments) /\ out = flush[r].out /\ segments' = log
  BY Zenon DEF PutWon, Free
<1>4. AnswersTrue(flush[r].candidate, added, flush[r].reqs, out)
  BY <1>3, Zenon DEF LogInv
<1>5. SubSeq(segments, 1, Len(segments)) = segments
  <2>1. Len(segments) \in Nat /\ Len(segments) <= Len(segments)
    BY <1>1
  <2> QED BY <1>1, <2>1, Beginning
<1>6. Answered(log, q, a)
  BY <1>3, <1>4, <1>5, Zenon DEF AnswersTrue
<1>7. PICK x \in Positions(log) : At(log, x).part = q.part /\ At(log, x).off = a.off /\ SameBatch(At(log, x), q)
  BY <1>6, Zenon DEF Answered
<1> HIDE DEF E, added
<1>8. \/ x \in Positions(segments) /\ At(log, x) = At(segments, x)
      \/ \E i \in 1..Len(added) : At(log, x) = added[i]
  BY <1>1, <1>2, <1>7, PositionsOfAppend
<1>9. 1..Len(added) = DOMAIN added
  BY <1>2
<1>10. Around(At(log, x))
  BY <1>8, <1>9, Zenon DEF Around, InLog, In, Stored, Entry, added
<1>11. At(log, x).id = q.id
  BY <1>7, <1>10, SameId, Zenon
<1>12. Stored' = Positions(log) /\ Entry(x)' = At(log, x)
  BY <1>3, Zenon DEF Stored, Entry, Positions, At
<1> QED BY <1>7, <1>11, <1>12, Zenon DEF StoredAt

\* A flush with nothing to write answers with where the batches are.
LEMMA EmptyStored ==
    ASSUME Given, Types(IMax), KeyInv, LogInv,
           NEW r \in Replicas, NEW out, AttemptEmpty(r, out), NEW j \in 1..Len(flush[r].reqs), NEW q, q = flush[r].reqs[j],
           NEW a, a = out[j], q.control = FALSE, Carried(q), a.class = "ok"
    PROVE  StoredAt(q.id, q.part, a.off)'
<1> DEFINE E == Entries(IMax)
<1>1. IMax \in Int /\ LogTypes(IMax) /\ segments \in Seq(Seq(E))
  <2>1. IMax \in Int
    BY DEF Given, ProducerLogAssumption
  <2> QED BY <2>1, Zenon DEF Types, LogTypes
<1>2. PICK upto \in FoldTo(r) : LET plan == Plan(SubSeq(segments, 1, upto), flush[r].reqs)
                                IN  plan.added = <<>> /\ out = plan.out
  BY Zenon DEF AttemptEmpty
<1>3. flush[r].pc \in {"attempt", "retry"} /\ segments' = segments
  BY Zenon DEF AttemptEmpty
<1>4. PICK log, plan : log = SubSeq(segments, 1, upto) /\ plan = Plan(SubSeq(segments, 1, upto), flush[r].reqs)
  BY Zenon
<1>5. /\ upto \in Nat /\ upto <= Len(segments) /\ log \in Seq(Seq(E))
      /\ Planned(E, log, flush[r].reqs, Len(flush[r].reqs), plan)
  BY <1>1, <1>3, <1>4, AttemptPlanned, Zenon
<1>6. plan.added = <<>> /\ a = plan.out[j]
  BY <1>2, <1>4, Zenon
<1>7. Answered(Append(log, <<>>), q, a)
  BY <1>5, <1>6, Zenon DEF Planned
<1>8. PICK x \in Positions(Append(log, <<>>)) :
        /\ At(Append(log, <<>>), x).part = q.part /\ At(Append(log, <<>>), x).off = a.off
        /\ SameBatch(At(Append(log, <<>>), x), q)
  BY <1>7, Zenon DEF Answered
<1> HIDE DEF E
<1>9. x \in Positions(log) /\ At(Append(log, <<>>), x) = At(log, x)
  <2>1. <<>> \in Seq(E) /\ 1..Len(<<>>) = {}
    OBVIOUS
  <2> QED BY <1>5, <1>8, <2>1, PositionsOfAppend, Zenon
<1>10. x \in Positions(segments) /\ At(log, x) = At(segments, x)
  <2>1. Good(segments)
    BY Zenon DEF LogInv, InOrder
  <2> QED BY <1>1, <1>4, <1>5, <1>9, <2>1, BeginningGood, Zenon
<1>11. x \in Stored /\ Entry(x).part = q.part /\ Entry(x).off = a.off /\ SameBatch(Entry(x), q)
  BY <1>8, <1>9, <1>10, Zenon DEF Stored, Entry
<1>12. Around(Entry(x))
  BY <1>11, Zenon DEF Around, InLog
<1>13. Entry(x).id = q.id
  BY <1>11, <1>12, SameId, Zenon
<1>14. Stored' = Stored /\ Entry(x)' = Entry(x)
  BY <1>3, Zenon DEF Stored, Entry, Positions, At
<1> QED BY <1>11, <1>13, <1>14, Zenon DEF StoredAt

\* Every step keeps the answers true.
LEMMA AckStep ==
    ASSUME Given, Types(IMax), Room, KeyInv, LogInv,
           AckedWhereStored, Next
    PROVE  AckedWhereStored'
<1> DEFINE E == Entries(IMax)
<1>1. IMax \in Int /\ IMax \in {IMax, 2 * IMax}
  BY DEF Given, ProducerLogAssumption
<1>2. LogTypes(IMax) /\ segments \in Seq(Seq(E)) /\ flush \in [Replicas -> Flushes(IMax)]
  BY Zenon DEF Types, LogTypes
<1>3. LogMoves(IMax)
  <2>1. LogStep(IMax)
    BY <1>1, NextLogStep, Zenon
  <2> QED BY <1>1, <1>2, <2>1, LogMove, Zenon
<1>4. segments' = segments \/ \E x \in Seq(E) : segments' = Append(segments, x)
  <2>1. ASSUME NEW r \in Replicas PROVE flush[r].added \in Seq(E)
    <3>1. flush[r] \in Flushes(IMax)
      BY <1>2, Zenon
    <3> QED BY <3>1 DEF Flushes
  <2>2. ASSUME NEW z \in late PROVE z.added \in Seq(E)
    <3>1. z \in [candidate : Nat, added : Seq(E)]
      BY <1>2, Zenon DEF LogTypes
    <3> QED BY <3>1
  <2> QED BY <1>3, <2>1, <2>2, Zenon DEF LogMoves, SegmentsMove
<1>5. ASSUME NEW id, NEW part, NEW off, StoredAt(id, part, off) PROVE StoredAt(id, part, off)'
  <2>1. \A x \in Stored : x \in Stored' /\ Entry(x)' = Entry(x)
    BY <1>2, <1>4, StoredStays, Zenon
  <2> QED BY <1>5, <2>1, Zenon DEF StoredAt
<1>6. ASSUME NEW a \in acks PROVE StoredAt(a.id, a.part, a.off)'
  <2>1. StoredAt(a.id, a.part, a.off)
    BY Zenon DEF AckedWhereStored, StoredAt
  <2> QED BY <1>5, <2>1, Zenon
<1>7. ASSUME NEW r \in Replicas, NEW out, FlushAnswered(IMax, r, out), NEW j \in DOMAIN flush[r].reqs,
             flush[r].reqs[j].kind = "data", out[j].class = "ok", NEW id, NEW part, NEW off,
             id = flush[r].reqs[j].id, part = flush[r].reqs[j].part, off = out[j].off
      PROVE  StoredAt(id, part, off)'
  <2>0. PICK q, a : q = flush[r].reqs[j] /\ a = out[j]
    BY Zenon
  <2>1. q = flush[r].reqs[j] /\ a = out[j] /\ q.id = id /\ q.part = part /\ a.off = off
    BY <1>7, <2>0, Zenon
  <2>2. flush[r].reqs \in Seq(Requests(IMax))
    <3>1. flush[r] \in Flushes(IMax)
      BY <1>2, Zenon
    <3> QED BY <3>1 DEF Flushes
  <2>3. j \in 1..Len(flush[r].reqs) /\ q \in Requests(IMax)
    BY <2>1, <2>2
  <2>4. q.control = FALSE
    BY <1>7, <2>1, <2>3, DataKind, Zenon
  <2>5. Carried(q)
    BY <1>7, <2>1, <2>4, WindowCarried, Zenon
  <2>6. a.class = "ok"
    BY <1>7, <2>1, Zenon
  <2>7. CASE PutWon(r, out)
    <3>1. StoredAt(q.id, q.part, a.off)'
      BY <2>1, <2>3, <2>4, <2>5, <2>6, <2>7, WonStored, Zenon
    <3> QED BY <2>1, <3>1, Zenon
  <2>8. CASE AttemptEmpty(r, out)
    <3>1. StoredAt(q.id, q.part, a.off)'
      BY <2>1, <2>3, <2>4, <2>5, <2>6, <2>8, EmptyStored, Zenon
    <3> QED BY <2>1, <3>1, Zenon
  <2>9. CASE PutFailed(r, out)
    <3>1. out = Failed(flush[r].reqs)
      BY <2>9, Zenon DEF PutFailed
    <3>2. a = Answer("storage", -1)
      BY <1>7, <2>1, <3>1, Zenon DEF Failed
    <3>3. a.class = "storage"
      BY <3>2 DEF Answer
    <3> QED BY <2>6, <3>3
  <2> QED BY <1>7, <2>7, <2>8, <2>9, Zenon DEF FlushAnswered
<1>8. ASSUME NEW a \in acks' PROVE StoredAt(a.id, a.part, a.off)'
  <2>1. CASE a \in acks
    BY <1>6, <2>1, Zenon
  <2>2. CASE a \notin acks
    <3>0. PICK r \in Replicas : \E out : FlushAnswered(IMax, r, out)
      BY <1>1, <1>8, <2>2, NextAnswers, Zenon
    <3>1. PICK out : FlushAnswered(IMax, r, out)
      BY <3>0, Zenon
    <3>2. PICK j \in DOMAIN flush[r].reqs :
             /\ flush[r].reqs[j].kind = "data" /\ out[j].class = "ok"
             /\ a = [id |-> flush[r].reqs[j].id, part |-> flush[r].reqs[j].part, off |-> out[j].off]
      BY <1>8, <2>2, <3>1, Zenon DEF FlushAnswered, Delivered1
    <3>3. PICK id, part, off : id = flush[r].reqs[j].id /\ part = flush[r].reqs[j].part /\ off = out[j].off
      BY Zenon
    <3>4. StoredAt(id, part, off)'
      BY <1>7, <3>1, <3>2, <3>3, Zenon
    <3>5. a.id = id /\ a.part = part /\ a.off = off
      BY <3>2, <3>3
    <3> QED BY <3>4, <3>5, Zenon
  <2> QED BY <2>1, <2>2, Zenon
<1> QED BY <1>8, Zenon DEF AckedWhereStored, StoredAt

-----------------------------------------------------------------------------
(* What holds in every reachable state. *)

\* The sequences of a batch end below i32::MAX, or, if they wrap, below twice that; and a flush's plan is right.
LEMMA TwoTops ==
    /\ IMax \in {IMax, 2 * IMax} /\ 2 * IMax \in {IMax, 2 * IMax}
    /\ IMax \in Int /\ 2 * IMax \in Int /\ 2 * IMax # IMax
    /\ Given
<1>1. ProducerLogAssumption /\ TransactionsAssumption
  BY ProducerLogAssumption, TransactionsAssumption
<1>2. IMax \in Nat \ {0}
  BY <1>1, Zenon DEF ProducerLogAssumption
<1>3. Given
  BY <1>1, PlanIsSound, Zenon DEF Given
<1> QED BY <1>2, <1>3

\* Every state of meta.json, the log, the calls and the clients is typed, with sequences that wrap.
LEMMA AlwaysTyped == Spec => []Types(2 * IMax)
<1> DEFINE top == 2 * IMax
           T == Types(top)
<1>1. Init => T
  BY TwoTops, InitTypes, Zenon
<1>2. T /\ [Next]_vars => T'
  BY TwoTops, TypesStep, Zenon
<1> QED BY <1>1, <1>2, PTL DEF Spec

\* Whatever calls interleave, crash or time out, the ledger's ranges and states, the entries of the log
\* and the states of calls and clients are the ones the code knows.
THEOREM TransactionsTypeCorrect == Spec => []TypeOK
<1>1. Types(2 * IMax) => TypeOK
  BY TwoTops, TypesGiveTypeOK, Zenon
<1> QED BY <1>1, AlwaysTyped, PTL

\* Identities are given out as the ledger has them, in every reachable state.
LEMMA AlwaysIssued == Spec => []IdInv
<1> DEFINE top == 2 * IMax
           T == Types(top)
<1>1. Init => IdInv
  BY IdInit, Zenon
<1>2. T /\ IdInv /\ [Next]_vars => IdInv'
  BY TwoTops, IdStep, Zenon
<1> QED BY <1>1, <1>2, AlwaysTyped, PTL DEF Spec

\* No two clients ever hold the same producer id and epoch: the CAS on meta.json in init_producer_id
\* gives each out once, to one call, and an abandoned call's answer reaches nobody.
THEOREM IdentitiesAlwaysDiffer == Spec => []IdentitiesDiffer
<1>1. IdInv => IdentitiesDiffer
  BY Zenon DEF IdInv, HoldersDiffer, IdentitiesDiffer
<1> QED BY <1>1, AlwaysIssued, PTL

\* The markers around agree with the ledger and with each other in every reachable state.
LEMMA AlwaysMarked == Spec => []MarkerInv
<1> DEFINE top == 2 * IMax
           T == Types(top)
<1>1. Init => MarkerInv
  BY MarkerInit, Zenon
<1>2. T /\ IdInv /\ MarkerInv /\ [Next]_vars => MarkerInv'
  BY TwoTops, MarkerStep, Zenon
<1> QED BY <1>1, <1>2, AlwaysTyped, AlwaysIssued, PTL DEF Spec

\* In every reachable state a client that may begin a transaction finds none open or prepared under its
\* epoch, unless it was answered an EndTxn under it.
LEMMA AlwaysFresh == Spec => []FreshInv
<1> DEFINE top == 2 * IMax
           T == Types(top)
<1>1. Init => FreshInv
  BY MarkerInit, Zenon
<1>2. T /\ IdInv /\ FreshInv /\ [Next]_vars => FreshInv'
  BY TwoTops, FreshStep, Zenon
<1> QED BY <1>1, <1>2, AlwaysTyped, AlwaysIssued, PTL DEF Spec

\* The markers of one transaction agree with each other, and with what meta.json has of it until
\* txn_add_partitions begins the next under the same epoch, although end_txn of an abandoned call, its
\* retry and the rollback of init_producer_id may all be writing markers at once.
THEOREM OneOutcomeEver == Spec => []OneOutcome
<1> DEFINE top == 2 * IMax
           T == Types(top)
<1>1. T /\ IdInv /\ MarkerInv => OneOutcome
  BY TwoTops, MarkersAgree, Zenon
<1> QED BY <1>1, AlwaysTyped, AlwaysIssued, AlwaysMarked, PTL

\* Once end_txn, its retry or the rollback of init_producer_id has prepared a transaction, every later
\* write of meta.json leaves it prepared or resolves it to that outcome, and the record of an abort stays;
\* only txn_add_partitions takes it back, to Begin, and only after an EndTxn under this epoch was
\* answered and before an init_producer_id fences it.
THEOREM OutcomeNeverReversed == Spec => [][OutcomeKept]_vars
<1> DEFINE top == 2 * IMax
           T == Types(top)
<1>1. T /\ IdInv /\ FreshInv /\ [Next]_vars => OutcomeKept
  BY TwoTops, OutcomeStep, Zenon
<1> QED BY <1>1, AlwaysTyped, AlwaysIssued, AlwaysFresh, PTL DEF Spec

-----------------------------------------------------------------------------
(* What holds as long as no client's sequence is about to wrap. *)

\* The inductive invariant of the log of idempotent producers.
ProducerInv == Types(IMax) /\ WantInv /\ KeyInv /\ LogInv /\ AckedWhereStored

\* What is acknowledged stays acknowledged, and where it was.
LEMMA AckInit ==
    ASSUME Init
    PROVE  AckedWhereStored
<1>1. acks = {}
  BY Zenon DEF Init
<1> QED BY <1>1, Zenon DEF AckedWhereStored

\* A step of the system keeps the invariant of the log, if no client is about to wrap.
LEMMA ProducerStep ==
    ASSUME Room, IdInv, ProducerInv, [Next]_vars
    PROVE  ProducerInv'
<1>1. Types(IMax) /\ WantInv /\ KeyInv /\ LogInv /\ AckedWhereStored
  BY Zenon DEF ProducerInv
<1>2. Types(IMax)'
  BY <1>1, TwoTops, TypesStep, Zenon
<1>3. WantInv'
  BY <1>1, TwoTops, WantStep, Zenon
<1>4. KeyInv'
  BY <1>1, TwoTops, KeyStep, Zenon
<1>5. LogInv'
  <2>1. CASE Next
    BY <1>1, <1>2, <2>1, TwoTops, LogInvStep, Zenon
  <2>2. CASE UNCHANGED vars
    <3>1. segments' = segments /\ late' = late /\ flush' = flush
      BY <2>2, Zenon DEF vars, logVars
    <3> QED BY <1>1, <3>1, LogInvStays, Zenon
  <2> QED BY <2>1, <2>2, Zenon
<1>6. AckedWhereStored'
  <2>1. CASE Next
    BY <1>1, <2>1, TwoTops, AckStep, Zenon
  <2>2. CASE UNCHANGED vars
    <3>1. segments' = segments /\ acks' = acks
      BY <2>2, Zenon DEF vars, logVars, history
    <3> QED BY <1>1, <3>1, Zenon DEF AckedWhereStored, Stored, Entry
  <2> QED BY <2>1, <2>2, Zenon
<1> QED BY <1>2, <1>3, <1>4, <1>5, <1>6, Zenon DEF ProducerInv

\* The invariant of the log holds in every state, if no client is ever about to wrap.
LEMMA AlwaysProduced == Spec /\ []Room => []ProducerInv
<1>1. Init => ProducerInv
  BY TwoTops, InitTypes, WantInit, KeyInit, LogInvInit, AckInit, Zenon DEF ProducerInv
<1>2. Room /\ IdInv /\ ProducerInv /\ [Next]_vars => ProducerInv'
  BY ProducerStep, Zenon
<1> QED BY <1>1, <1>2, AlwaysIssued, PTL DEF Spec

\* A batch is in the log once, whichever replicas it was sent to, resent to and flushed by at the same
\* time, and whatever create-only PUTs were lost and landed late (coalesce.rs, run).
THEOREM AppendedOnceEver == Spec /\ []Room => []AppendedOnce
<1>1. ProducerInv => AppendedOnce
  BY TwoTops, OnceStored, Zenon DEF ProducerInv
<1> QED BY <1>1, AlwaysProduced, PTL

\* The batches of a producer epoch lie in the log in the order of their sequences with none missing: no
\* flush classifies a batch by a fold that is older than the segment it creates.
THEOREM AppendedAlwaysInOrder == Spec /\ []Room => []AppendedInOrder
<1>1. ProducerInv => AppendedInOrder
  BY TwoTops, InOrderStored, Zenon DEF ProducerInv
<1> QED BY <1>1, AlwaysProduced, PTL

\* Every offset a batch was answered with is its offset in the log: for a duplicate too, which is
\* answered from the producer tail of whatever fold the replica has.
THEOREM AckedAlwaysWhereStored == Spec /\ []Room => []AckedWhereStored
<1>1. ProducerInv => AckedWhereStored
  BY Zenon DEF ProducerInv
<1> QED BY <1>1, AlwaysProduced, PTL

=============================================================================
