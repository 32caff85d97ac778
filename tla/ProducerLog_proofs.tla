------------------------- MODULE ProducerLog_proofs -------------------------
(***************************************************************************)
(* What one flush attempt decides.  The fold of the footers, reduced as    *)
(* the index keeps them, still names the newest batch of every producer    *)
(* epoch, so a window's plan extends a well-ordered log to a well-ordered  *)
(* log, and every offset it answers with is the offset of that very batch. *)
(* The induction over the window, and the largest element of a bounded     *)
(* set, come from the well-foundedness of <.                               *)
(***************************************************************************)
EXTENDS ProducerOrder, TLAPS

LOCAL WF == INSTANCE WellFoundedInduction

-----------------------------------------------------------------------------
(* Cardinality. *)

\* How the elements of the subsets of S are counted.
IsCount(f, S) == f = [T \in SUBSET S |-> IF T = {} THEN 0 ELSE 1 + f[T \ {CHOOSE x : x \in T}]]

\* The empty set has no element: a batch with no later one of its epoch is always kept by the index.
LEMMA EmptyHasNone == Cardinality({}) = 0
<1> DEFINE count == CHOOSE f : IsCount(f, {})
<1>1. IsCount([T \in SUBSET {} |-> 0], {})
  BY DEF IsCount
<1>2. IsCount(count, {})
  BY <1>1, Zenon
<1>3. Cardinality({}) = count[{}]
  BY Zenon DEF Cardinality, IsCount
<1> HIDE DEF count
<1>4. {} \in SUBSET {}
  OBVIOUS
<1>5. count[{}] = 0
  BY <1>2, <1>4, Zenon DEF IsCount
<1> QED BY <1>3, <1>5, Zenon

-----------------------------------------------------------------------------
(* Numbers. *)

\* A set of numbers has a smallest element.
LEMMA SmallestNat ==
    ASSUME NEW T \in SUBSET Nat, T # {}
    PROVE  \E x \in T : \A y \in T : x <= y
<1>1. \E x \in T : \A y \in T : <<y, x>> \notin WF!OpToRel(<, Nat)
  BY WF!WFMin, WF!NatLessThanWellFounded, Zenon
<1>2. PICK x \in T : \A y \in T : <<y, x>> \notin WF!OpToRel(<, Nat)
  BY <1>1, Zenon
<1>3. \A y \in T : ~(y < x)
  BY <1>2, Zenon DEF WF!OpToRel
<1> QED BY <1>3

\* A set that has 0 and with each number the next one has every number.
LEMMA SetInduction ==
    ASSUME NEW S, 0 \in S, \A n \in Nat : n \in S => n + 1 \in S
    PROVE  Nat \subseteq S
<1> SUFFICES ASSUME Nat \ S # {} PROVE FALSE
  OBVIOUS
<1>1. PICK x \in Nat \ S : \A y \in Nat \ S : x <= y
  BY SmallestNat
<1>2. x # 0 /\ x - 1 \in Nat
  BY <1>1
<1>3. x - 1 \in S
  BY <1>1, <1>2
<1> QED BY <1>1, <1>2, <1>3

\* A non-empty set of integers below some bound has a largest element.
LEMMA LargestInt ==
    ASSUME NEW T \in SUBSET Int, T # {}, NEW b \in Int, \A x \in T : x <= b
    PROVE  \E x \in T : \A y \in T : y <= x
<1> DEFINE D == {b - x : x \in T}
<1>1. D \in SUBSET Nat /\ D # {}
  <2>1. \A x \in T : b - x \in Nat
    OBVIOUS
  <2> QED BY <2>1, Zenon
<1>2. PICK d \in D : \A e \in D : d <= e
  BY <1>1, SmallestNat
<1>3. PICK x \in T : d = b - x
  BY <1>2
<1>4. \A y \in T : y <= x
  BY <1>2, <1>3
<1> QED BY <1>4

\* Finitely many integers have a bound.
LEMMA BoundOfSequence ==
    ASSUME NEW n \in Nat, NEW f \in [1..n -> Int]
    PROVE  \E b \in Int : \A i \in 1..n : f[i] <= b
<1> DEFINE P(m) == \A g \in [1..m -> Int] : \E b \in Int : \A i \in 1..m : g[i] <= b
           S == {m \in Nat : P(m)}
<1>1. 0 \in S
  <2>1. 0 \in Nat /\ 0 \in Int /\ \A i \in 1..0 : FALSE
    OBVIOUS
  <2>2. P(0)
    BY <2>1, Zenon
  <2> QED BY <2>1, <2>2, Zenon
<1>2. ASSUME NEW m \in Nat, m \in S PROVE m + 1 \in S
  <2> SUFFICES ASSUME NEW g \in [1..m + 1 -> Int] PROVE \E b \in Int : \A i \in 1..m + 1 : g[i] <= b
    <3>1. m + 1 \in Nat
      OBVIOUS
    <3> QED BY <3>1, Zenon
  <2>1. [i \in 1..m |-> g[i]] \in [1..m -> Int]
    OBVIOUS
  <2>2. PICK b \in Int : \A i \in 1..m : [j \in 1..m |-> g[j]][i] <= b
    BY <1>2, <2>1, Zenon
  <2>3. \A i \in 1..m : g[i] <= b
    BY <2>2
  <2>4. g[m + 1] \in Int
    OBVIOUS
  <2>5. CASE g[m + 1] <= b
    <3>1. \A i \in 1..m + 1 : g[i] <= b
      BY <2>3, <2>5
    <3> QED BY <3>1, Zenon
  <2>6. CASE ~(g[m + 1] <= b)
    <3>1. \A i \in 1..m + 1 : g[i] <= g[m + 1]
      BY <2>3, <2>4, <2>6
    <3> QED BY <3>1, <2>4, Zenon
  <2> QED BY <2>5, <2>6
<1>3. Nat \subseteq S
  <2> HIDE DEF S
  <2> QED BY <1>1, <1>2, SetInduction
<1> QED BY <1>3, Zenon

-----------------------------------------------------------------------------
(* Positions in the log. *)

\* A position is the pair of a segment and a place in its footer.
LEMMA PositionParts ==
    ASSUME NEW E, NEW segs \in Seq(Seq(E))
    PROVE  \A x : x \in Positions(segs) <=>
             x = <<x[1], x[2]>> /\ x[1] \in 1..Len(segs) /\ x[2] \in 1..Len(segs[x[1]])
<1> TAKE x
<1>1. DOMAIN segs = 1..Len(segs) /\ \A k \in 1..Len(segs) : segs[k] \in Seq(E)
  OBVIOUS
<1>2. \A k \in 1..Len(segs) : DOMAIN segs[k] = 1..Len(segs[k])
  BY <1>1
<1>3. x \in Positions(segs) <=> \E k \in DOMAIN segs : x \in {k} \X DOMAIN segs[k]
  BY Zenon DEF Positions
<1>4. ASSUME NEW k \in DOMAIN segs, x \in {k} \X DOMAIN segs[k]
      PROVE  x = <<x[1], x[2]>> /\ x[1] = k /\ x[2] \in DOMAIN segs[k]
  BY <1>4
<1>5. ASSUME x = <<x[1], x[2]>>, x[1] \in DOMAIN segs, x[2] \in DOMAIN segs[x[1]]
      PROVE  x \in {x[1]} \X DOMAIN segs[x[1]]
  BY <1>5
<1> QED BY <1>1, <1>2, <1>3, <1>4, <1>5, Zenon

\* The entry at a position.
LEMMA EntryTyped ==
    ASSUME NEW E, NEW segs \in Seq(Seq(E)), NEW x \in Positions(segs)
    PROVE  At(segs, x) \in E /\ x[1] \in Nat /\ x[2] \in Nat
<1>1. x[1] \in 1..Len(segs) /\ x[2] \in 1..Len(segs[x[1]])
  BY PositionParts, Zenon
<1>2. segs[x[1]] \in Seq(E)
  BY <1>1
<1>3. segs[x[1]][x[2]] \in E
  BY <1>1, <1>2
<1> QED BY <1>1, <1>3 DEF At

\* Log order is total.
LEMMA BeforeTotal ==
    ASSUME NEW E, NEW segs \in Seq(Seq(E)), NEW x \in Positions(segs), NEW y \in Positions(segs)
    PROVE  /\ x = y \/ Before(x, y) \/ Before(y, x)
           /\ ~(Before(x, y) /\ Before(y, x)) /\ ~Before(x, x)
<1>1. /\ x = <<x[1], x[2]>> /\ x[1] \in Nat /\ x[2] \in Nat
      /\ y = <<y[1], y[2]>> /\ y[1] \in Nat /\ y[2] \in Nat
  BY PositionParts, EntryTyped, Zenon
<1>2. x[1] = y[1] /\ x[2] = y[2] => x = y
  BY <1>1
<1> QED BY <1>1, <1>2 DEF Before

\* Some positions have a bound on any number read off them, hence a position where it is largest.
LEMMA LargestAt ==
    ASSUME NEW E, NEW segs \in Seq(Seq(E)), NEW S \in SUBSET Positions(segs), S # {},
           NEW f \in [Positions(segs) -> Int]
    PROVE  \E x \in S : \A y \in S : f[y] <= f[x]
<1> DEFINE Top(k) == CHOOSE b \in Int : \A i \in 1..Len(segs[k]) : f[<<k, i>>] <= b
<1>1. ASSUME NEW k \in 1..Len(segs)
      PROVE  Top(k) \in Int /\ \A i \in 1..Len(segs[k]) : f[<<k, i>>] <= Top(k)
  <2>1. segs[k] \in Seq(E) /\ Len(segs[k]) \in Nat
    BY <1>1
  <2>2. \A i \in 1..Len(segs[k]) : <<k, i>> \in Positions(segs)
    BY <1>1, PositionParts
  <2>3. [i \in 1..Len(segs[k]) |-> f[<<k, i>>]] \in [1..Len(segs[k]) -> Int]
    BY <2>2
  <2>4. PICK b \in Int : \A i \in 1..Len(segs[k]) : [j \in 1..Len(segs[k]) |-> f[<<k, j>>]][i] <= b
    BY <2>1, <2>3, BoundOfSequence, Zenon
  <2>5. \A i \in 1..Len(segs[k]) : f[<<k, i>>] <= b
    BY <2>4
  <2> QED BY <2>5, Zenon
<1> HIDE DEF Top
<1>2. Len(segs) \in Nat /\ [k \in 1..Len(segs) |-> Top(k)] \in [1..Len(segs) -> Int]
  BY <1>1
<1>3. PICK b \in Int : \A k \in 1..Len(segs) : [j \in 1..Len(segs) |-> Top(j)][k] <= b
  BY <1>2, BoundOfSequence, Zenon
<1>4. ASSUME NEW x \in S PROVE f[x] <= b /\ f[x] \in Int
  <2>1. x = <<x[1], x[2]>> /\ x[1] \in 1..Len(segs) /\ x[2] \in 1..Len(segs[x[1]])
    BY PositionParts, Zenon
  <2>2. f[<<x[1], x[2]>>] <= Top(x[1]) /\ Top(x[1]) \in Int
    BY <1>1, <2>1, Zenon
  <2>3. Top(x[1]) <= b
    BY <1>3, <2>1
  <2>4. f[x] \in Int
    OBVIOUS
  <2>5. f[x] <= Top(x[1])
    BY <2>1, <2>2, Zenon
  <2> QED BY <2>2, <2>3, <2>4, <2>5
<1>5. {f[x] : x \in S} \in SUBSET Int /\ {f[x] : x \in S} # {}
  BY <1>4
<1>6. \A v \in {f[x] : x \in S} : v <= b
  BY <1>4
<1>7. PICK v \in {f[x] : x \in S} : \A w \in {f[x] : x \in S} : w <= v
  BY <1>5, <1>6, LargestInt
<1> QED BY <1>7

\* A non-empty set of positions has a last and a first one.
LEMMA LatestIsLast ==
    ASSUME NEW E, NEW segs \in Seq(Seq(E)), NEW S \in SUBSET Positions(segs), S # {}
    PROVE  /\ Latest(S) \in S /\ \A y \in S : ~Before(Latest(S), y)
           /\ Earliest(S) \in S /\ \A y \in S : ~Before(y, Earliest(S))
<1>1. \A x \in Positions(segs) : x[1] \in Nat /\ x[2] \in Nat
  BY EntryTyped, Zenon
<1>2. \E x \in S : \A y \in S : ~Before(x, y)
  <2> DEFINE f == [x \in Positions(segs) |-> x[1]]
             g == [x \in Positions(segs) |-> x[2]]
  <2>1. f \in [Positions(segs) -> Int] /\ g \in [Positions(segs) -> Int]
    BY <1>1
  <2>2. PICK x \in S : \A y \in S : f[y] <= f[x]
    BY <2>1, LargestAt, Zenon
  <2>3. \A y \in S : y[1] <= x[1]
    BY <2>2
  <2>4. {y \in S : y[1] = x[1]} \in SUBSET Positions(segs) /\ {y \in S : y[1] = x[1]} # {}
    BY <2>2
  <2>5. PICK z \in {y \in S : y[1] = x[1]} : \A y \in {v \in S : v[1] = x[1]} : g[y] <= g[z]
    BY <2>1, <2>4, LargestAt, Zenon
  <2>6. \A y \in S : y[1] = x[1] => y[2] <= z[2]
    BY <2>5
  <2>7. \A y \in S : ~Before(z, y)
    BY <1>1, <2>3, <2>5, <2>6 DEF Before
  <2> QED BY <2>5, <2>7
<1>3. \E x \in S : \A y \in S : ~Before(y, x)
  <2> DEFINE f == [x \in Positions(segs) |-> -x[1]]
             g == [x \in Positions(segs) |-> -x[2]]
  <2>1. f \in [Positions(segs) -> Int] /\ g \in [Positions(segs) -> Int]
    BY <1>1
  <2>2. PICK x \in S : \A y \in S : f[y] <= f[x]
    BY <2>1, LargestAt, Zenon
  <2>3. \A y \in S : x[1] <= y[1]
    <3>1. \A y \in S : -y[1] <= -x[1]
      BY <2>2
    <3>2. \A y \in S : y[1] \in Nat /\ x[1] \in Nat
      BY <1>1, <2>2, Zenon
    <3> QED BY <3>1, <3>2
  <2>4. {y \in S : y[1] = x[1]} \in SUBSET Positions(segs) /\ {y \in S : y[1] = x[1]} # {}
    BY <2>2
  <2>5. PICK z \in {y \in S : y[1] = x[1]} : \A y \in {v \in S : v[1] = x[1]} : g[y] <= g[z]
    BY <2>1, <2>4, LargestAt, Zenon
  <2>6. \A y \in S : y[1] = x[1] => z[2] <= y[2]
    <3>1. \A y \in S : y[1] = x[1] => -y[2] <= -z[2]
      BY <2>5
    <3>2. z \in S /\ \A y \in S : y[2] \in Nat /\ z[2] \in Nat
      BY <1>1, <2>5, Zenon
    <3> QED BY <3>1, <3>2
  <2>7. \A y \in S : ~Before(y, z)
    BY <1>1, <2>3, <2>5, <2>6 DEF Before
  <2> QED BY <2>5, <2>7
<1> QED BY <1>2, <1>3, Zenon DEF Latest, Earliest

\* Appending a footer adds its positions after all the others.
LEMMA AppendedPositions ==
    ASSUME NEW E, NEW segs \in Seq(Seq(E)), NEW added \in Seq(E)
    PROVE  /\ Append(segs, added) \in Seq(Seq(E))
           /\ \A x : x \in Positions(Append(segs, added)) <=>
                \/ x \in Positions(segs)
                \/ \E i \in 1..Len(added) : x = <<Len(segs) + 1, i>>
           /\ \A x \in Positions(segs) : /\ At(Append(segs, added), x) = At(segs, x)
                                         /\ x[1] <= Len(segs)
           /\ \A i \in 1..Len(added) : At(Append(segs, added), <<Len(segs) + 1, i>>) = added[i]
<1> DEFINE all == Append(segs, added)
<1>1. /\ all \in Seq(Seq(E)) /\ Len(all) = Len(segs) + 1 /\ Len(segs) \in Nat
      /\ \A k \in 1..Len(segs) : all[k] = segs[k]
      /\ all[Len(segs) + 1] = added
  OBVIOUS
<1> HIDE DEF all
<1>2. ASSUME NEW x \in Positions(segs)
      PROVE  x \in Positions(all) /\ At(all, x) = At(segs, x) /\ x[1] <= Len(segs)
  <2>1. x = <<x[1], x[2]>> /\ x[1] \in 1..Len(segs) /\ x[2] \in 1..Len(segs[x[1]])
    BY PositionParts, Zenon
  <2>2. x[1] \in 1..Len(all) /\ all[x[1]] = segs[x[1]] /\ x[1] <= Len(segs)
    BY <1>1, <2>1
  <2>3. x \in Positions(all)
    BY <1>1, <2>1, <2>2, PositionParts, Zenon
  <2> QED BY <2>2, <2>3, Zenon DEF At
<1>3. ASSUME NEW i \in 1..Len(added)
      PROVE  <<Len(segs) + 1, i>> \in Positions(all) /\ At(all, <<Len(segs) + 1, i>>) = added[i]
  <2> DEFINE x == <<Len(segs) + 1, i>>
  <2>1. x[1] = Len(segs) + 1 /\ x[2] = i /\ x = <<x[1], x[2]>>
    OBVIOUS
  <2>2. x[1] \in 1..Len(all) /\ x[2] \in 1..Len(all[x[1]])
    BY <1>1, <2>1
  <2>3. x \in Positions(all)
    BY <1>1, <2>1, <2>2, PositionParts, Zenon
  <2> QED BY <1>1, <2>1, <2>3, Zenon DEF At
<1>4. ASSUME NEW x \in Positions(all)
      PROVE  x \in Positions(segs) \/ \E i \in 1..Len(added) : x = <<Len(segs) + 1, i>>
  <2>1. x = <<x[1], x[2]>> /\ x[1] \in 1..Len(all) /\ x[2] \in 1..Len(all[x[1]])
    BY <1>1, PositionParts, Zenon
  <2>2. CASE x[1] \in 1..Len(segs)
    <3>1. x[2] \in 1..Len(segs[x[1]])
      BY <1>1, <2>1, <2>2, Zenon
    <3> QED BY <2>1, <2>2, <3>1, PositionParts, Zenon
  <2>3. CASE x[1] = Len(segs) + 1
    BY <1>1, <2>1, <2>3, Zenon
  <2>4. x[1] \in 1..Len(segs) \/ x[1] = Len(segs) + 1
    BY <1>1, <2>1
  <2> QED BY <2>2, <2>3, <2>4, Zenon
<1> QED BY <1>1, <1>2, <1>3, <1>4, Zenon DEF all

\* One more entry in the last footer is one more position, the last one.
LEMMA PositionsOfGrown ==
    ASSUME NEW E, NEW segs \in Seq(Seq(E)), NEW added \in Seq(E), NEW e \in E
    PROVE  LET old == Append(segs, added)
               new == Append(segs, Append(added, e))
               z   == <<Len(segs) + 1, Len(added) + 1>>
           IN  /\ new \in Seq(Seq(E)) /\ Positions(new) = Positions(old) \cup {z}
               /\ At(new, z) = e
               /\ \A x \in Positions(old) : At(new, x) = At(old, x) /\ Before(x, z)
<1> DEFINE old == Append(segs, added)
           more == Append(added, e)
           new == Append(segs, more)
           z   == <<Len(segs) + 1, Len(added) + 1>>
<1>1. /\ more \in Seq(E) /\ Len(more) = Len(added) + 1 /\ Len(added) \in Nat /\ Len(segs) \in Nat
      /\ \A i \in 1..Len(added) : more[i] = added[i]
      /\ more[Len(added) + 1] = e
  OBVIOUS
<1>2. 1..Len(more) = 1..Len(added) \cup {Len(added) + 1}
  BY <1>1
<1> HIDE DEF more
<1>3. /\ new \in Seq(Seq(E))
      /\ \A x : x \in Positions(new) <=>
           \/ x \in Positions(segs)
           \/ \E i \in 1..Len(more) : x = <<Len(segs) + 1, i>>
      /\ \A x \in Positions(segs) : At(new, x) = At(segs, x) /\ x[1] <= Len(segs)
      /\ \A i \in 1..Len(more) : At(new, <<Len(segs) + 1, i>>) = more[i]
  BY <1>1, AppendedPositions
<1>4. /\ old \in Seq(Seq(E))
      /\ \A x : x \in Positions(old) <=>
           \/ x \in Positions(segs)
           \/ \E i \in 1..Len(added) : x = <<Len(segs) + 1, i>>
      /\ \A x \in Positions(segs) : At(old, x) = At(segs, x)
      /\ \A i \in 1..Len(added) : At(old, <<Len(segs) + 1, i>>) = added[i]
  BY <1>1, AppendedPositions
<1> HIDE DEF old, new
<1>5. Positions(new) = Positions(old) \cup {z}
  BY <1>2, <1>3, <1>4, Zenon
<1>6. At(new, z) = e
  BY <1>1, <1>2, <1>3, Zenon
<1>7. ASSUME NEW x \in Positions(old) PROVE At(new, x) = At(old, x) /\ Before(x, z)
  <2>1. CASE x \in Positions(segs)
    <3>1. x[1] <= Len(segs) /\ x[1] \in Nat /\ At(new, x) = At(old, x)
      BY <1>3, <1>4, <2>1, EntryTyped, Zenon
    <3>2. z[1] = Len(segs) + 1
      OBVIOUS
    <3>3. x[1] < z[1]
      BY <1>1, <3>1, <3>2
    <3> QED BY <3>1, <3>3, Zenon DEF Before
  <2>2. CASE x \notin Positions(segs)
    <3>1. PICK i \in 1..Len(added) : x = <<Len(segs) + 1, i>>
      BY <1>4, <2>2, Zenon
    <3>2. At(new, x) = At(old, x)
      BY <1>1, <1>2, <1>3, <1>4, <3>1, Zenon
    <3>3. x[1] = z[1] /\ x[2] < z[2]
      BY <1>1, <3>1
    <3> QED BY <3>2, <3>3, Zenon DEF Before
  <2> QED BY <2>1, <2>2
<1> QED BY <1>3, <1>5, <1>6, <1>7, Zenon DEF old, new, more

-----------------------------------------------------------------------------
(* The producer tail. *)

\* Where the batches of one producer lie in a partition.
Stream(all, part, pid) ==
    {x \in Positions(all) : At(all, x).part = part /\ At(all, x).pid = pid /\ Folds(At(all, x))}

\* The newest batch of a producer: of its highest epoch the last one.
IsNewest(all, z, S) ==
    /\ z \in S
    /\ \A y \in S : At(all, y).epoch <= At(all, z).epoch
    /\ \A y \in S : At(all, y).epoch = At(all, z).epoch => ~Before(z, y)

\* A producer with a batch in the log has a newest one.
LEMMA NewestExists ==
    ASSUME NEW E, Typed(E), NEW all \in Seq(Seq(E)), NEW S \in SUBSET Positions(all), S # {}
    PROVE  \E z \in S : IsNewest(all, z, S)
<1> DEFINE f == [x \in Positions(all) |-> At(all, x).epoch]
<1>1. \A x \in Positions(all) : At(all, x).epoch \in Int
  BY EntryTyped, Zenon DEF Typed
<1>2. f \in [Positions(all) -> Int]
  BY <1>1, Zenon
<1>3. PICK x \in S : \A y \in S : f[y] <= f[x]
  BY <1>2, LargestAt, Zenon
<1>4. \A y \in S : At(all, y).epoch <= At(all, x).epoch
  BY <1>3, Zenon
<1> DEFINE T == {y \in S : At(all, y).epoch = At(all, x).epoch}
<1>5. T \in SUBSET Positions(all) /\ T # {}
  BY <1>3, Zenon
<1>6. Latest(T) \in T /\ \A y \in T : ~Before(Latest(T), y)
  BY <1>5, LatestIsLast, Zenon
<1> QED BY <1>4, <1>6, Zenon DEF IsNewest

\* The index keeps a segment's newest batch of every producer, whatever else it drops.
LEMMA NewestIsKept ==
    ASSUME ProducerLogAssumption, NEW E, Typed(E), NEW segs \in Seq(Seq(E)), NEW added \in Seq(E),
           NEW part, NEW pid, NEW z,
           IsNewest(Append(segs, added), z, Stream(Append(segs, added), part, pid))
    PROVE  z \in Coords(segs, added, part, pid)
<1> DEFINE all == Append(segs, added)
           S   == Stream(all, part, pid)
<1>1. z \in S /\ z \in Positions(all) /\ At(all, z).part = part /\ At(all, z).pid = pid /\ Folds(At(all, z))
  BY Zenon DEF IsNewest, Stream
<1>2. SUFFICES ASSUME z[1] <= Len(segs) PROVE z[2] \in Kept(segs[z[1]])
  BY <1>1, Zenon DEF Coords
<1>3. all \in Seq(Seq(E)) /\ Len(segs) \in Nat
  BY AppendedPositions
<1>4. z = <<z[1], z[2]>> /\ z[1] \in 1..Len(all) /\ z[2] \in 1..Len(all[z[1]])
  BY <1>1, <1>3, PositionParts, Zenon
<1>5. z[1] \in 1..Len(segs) /\ all[z[1]] = segs[z[1]]
  BY <1>2, <1>3, <1>4
<1> DEFINE seg == segs[z[1]]
<1>6. seg \in Seq(E) /\ DOMAIN seg = 1..Len(seg) /\ z[2] \in DOMAIN seg
  BY <1>4, <1>5
<1>7. seg[z[2]] = At(all, z)
  BY <1>5, Zenon DEF At
<1>8. ASSUME NEW j \in DOMAIN seg, seg[j].part = part, seg[j].pid = pid, Folds(seg[j])
      PROVE  /\ seg[j].epoch <= seg[z[2]].epoch
             /\ ~(seg[j].epoch = seg[z[2]].epoch /\ z[2] < j)
  <2> DEFINE y == <<z[1], j>>
  <2>1. y[1] = z[1] /\ y[2] = j /\ y = <<y[1], y[2]>>
    OBVIOUS
  <2>2. y[1] \in 1..Len(all) /\ y[2] \in 1..Len(all[y[1]])
    BY <1>4, <1>5, <1>6, <2>1, Zenon
  <2>3. y \in Positions(all)
    BY <1>3, <2>1, <2>2, PositionParts, Zenon
  <2>4. At(all, y) = seg[j]
    BY <1>5, <2>1, Zenon DEF At
  <2>5. y \in S
    BY <1>8, <2>3, <2>4, Zenon DEF Stream
  <2>6. /\ At(all, y).epoch <= At(all, z).epoch
        /\ At(all, y).epoch = At(all, z).epoch => ~Before(z, y)
    BY <2>5, Zenon DEF IsNewest
  <2>7. z[2] < j => Before(z, y)
    BY <2>1, Zenon DEF Before
  <2> QED BY <1>7, <2>4, <2>6, <2>7, Zenon
<1> DEFINE Same(i, j) == seg[j].part = seg[i].part /\ seg[j].pid = seg[i].pid /\ Folds(seg[j])
           later == {j \in DOMAIN seg : Same(z[2], j) /\ seg[j].epoch = seg[z[2]].epoch /\ z[2] < j}
<1>9. later = {}
  BY <1>1, <1>7, <1>8, Zenon
<1>10. Cardinality(later) < WindowSize
  <2>1. Cardinality({}) = 0
    BY EmptyHasNone, Zenon
  <2>2. WindowSize \in Nat \ {0}
    BY Zenon DEF ProducerLogAssumption
  <2>3. Cardinality(later) = 0
    BY <1>9, <2>1, Zenon
  <2> HIDE DEF later
  <2> QED BY <2>2, <2>3
<1>11. Folds(seg[z[2]]) /\ \A j \in DOMAIN seg : Same(z[2], j) => seg[j].epoch <= seg[z[2]].epoch
  BY <1>1, <1>7, <1>8, Zenon
<1> QED BY <1>6, <1>10, <1>11, Zenon DEF Kept

\* A replica's ProducerTail is that of the whole log: it has the epoch and the next sequence of the
\* producer's newest batch, and the window holds batches of that epoch.
LEMMA TailIsNewest ==
    ASSUME ProducerLogAssumption, NEW E, Typed(E), NEW segs \in Seq(Seq(E)), NEW added \in Seq(E),
           NEW part, NEW pid
    PROVE  LET all  == Append(segs, added)
               tail == ProducerTail(segs, added, part, pid)
               S    == Stream(all, part, pid)
           IN  /\ S = {} => tail.epoch = 0 /\ tail.next = 0
               /\ S # {} => \E z \in S : /\ IsNewest(all, z, S)
                                         /\ tail.epoch = At(all, z).epoch
                                         /\ tail.next = SeqIncrement(At(all, z).last)
               /\ \A x \in DOMAIN tail.window : x \in S /\ tail.window[x] = At(all, x)
                                                 /\ At(all, x).epoch = tail.epoch
<1> DEFINE all    == Append(segs, added)
           tail   == ProducerTail(segs, added, part, pid)
           S      == Stream(all, part, pid)
           mine   == Coords(segs, added, part, pid)
           newest == {x \in mine : \A y \in mine : At(all, y).epoch <= At(all, x).epoch}
           last   == At(all, Latest(newest))
           recent == {y \in newest : Cardinality({z \in newest : Before(y, z)}) < WindowSize}
<1>1. /\ tail.epoch = (IF newest = {} THEN 0 ELSE last.epoch)
      /\ tail.next = (IF newest = {} THEN 0 ELSE SeqIncrement(last.last))
      /\ tail.window = [x \in recent |-> At(all, x)]
  BY DEF ProducerTail
<1>2. all \in Seq(Seq(E))
  BY AppendedPositions
<1>3. mine \subseteq S /\ S \in SUBSET Positions(all)
  BY Zenon DEF Coords, Stream
<1> HIDE DEF tail, all, S, mine
<1>4. CASE S = {}
  <2>1. newest = {}
    BY <1>3, <1>4, Zenon
  <2>2. DOMAIN tail.window = {}
    BY <1>1, <2>1, Zenon
  <2> QED BY <1>1, <1>4, <2>1, <2>2, Zenon DEF all, S, tail
<1>5. CASE S # {}
  <2>1. PICK z \in S : IsNewest(all, z, S)
    BY <1>2, <1>3, <1>5, NewestExists, Zenon
  <2>2. z \in mine
    BY <2>1, NewestIsKept, Zenon DEF all, S, mine
  <2>3. z \in newest
    BY <1>3, <2>1, <2>2, Zenon DEF IsNewest
  <2>4. ASSUME NEW x \in newest PROVE x \in S /\ At(all, x).epoch = At(all, z).epoch
    <3>1. x \in S /\ x \in Positions(all) /\ z \in Positions(all)
      BY <1>3, <2>1, <2>4, Zenon
    <3>2. At(all, x).epoch \in Int /\ At(all, z).epoch \in Int
      BY <1>2, <3>1, EntryTyped, Zenon DEF Typed
    <3>3. At(all, x).epoch <= At(all, z).epoch /\ At(all, z).epoch <= At(all, x).epoch
      BY <2>1, <2>2, <2>4, <3>1, Zenon DEF IsNewest
    <3>4. At(all, x).epoch = At(all, z).epoch
      BY <3>2, <3>3
    <3> QED BY <3>1, <3>4, Zenon
  <2>5. newest \in SUBSET Positions(all) /\ newest # {}
    BY <1>3, <2>3, Zenon
  <2>6. Latest(newest) \in newest /\ \A y \in newest : ~Before(Latest(newest), y)
    BY <1>2, <2>5, LatestIsLast, Zenon
  <2>7. Latest(newest) = z
    <3>1. Latest(newest) \in Positions(all) /\ z \in Positions(all)
      BY <2>3, <2>5, <2>6, Zenon
    <3>2. ~Before(Latest(newest), z) /\ ~Before(z, Latest(newest))
      BY <2>1, <2>3, <2>4, <2>6, Zenon DEF IsNewest
    <3> QED BY <1>2, <3>1, <3>2, BeforeTotal, Zenon
  <2>8. tail.epoch = At(all, z).epoch /\ tail.next = SeqIncrement(At(all, z).last)
    BY <1>1, <2>5, <2>7, Zenon
  <2>9. \A x \in DOMAIN tail.window : x \in newest /\ tail.window[x] = At(all, x)
    BY <1>1, Zenon
  <2> QED BY <1>5, <2>1, <2>4, <2>8, <2>9, Zenon DEF all, S, tail
<1> QED BY <1>4, <1>5

-----------------------------------------------------------------------------
(* One request of a window. *)

\* A partition's end is a number, and no batch of the partition reaches past it.
LEMMA EndIsLargest ==
    ASSUME NEW E, Typed(E), NEW segs \in Seq(Seq(E)), NEW part
    PROVE  /\ EndOf(segs, part) \in Nat
           /\ \A x \in Positions(segs) :
                At(segs, x).part = part => At(segs, x).off + At(segs, x).n <= EndOf(segs, part)
<1> DEFINE here == {x \in Positions(segs) : At(segs, x).part = part}
           ends == {At(segs, x).off + At(segs, x).n : x \in here}
           f == [x \in Positions(segs) |-> At(segs, x).off + At(segs, x).n]
<1>1. EndOf(segs, part) = IF here = {} THEN 0 ELSE CHOOSE end \in ends : \A other \in ends : other <= end
  BY Zenon DEF EndOf
<1>2. \A x \in Positions(segs) : At(segs, x).off \in Nat /\ At(segs, x).n \in Nat \ {0}
  BY EntryTyped, Zenon DEF Typed
<1>3. \A x \in Positions(segs) : At(segs, x).off + At(segs, x).n \in Nat
  BY <1>2
<1>4. CASE here = {}
  <2>1. EndOf(segs, part) = 0
    BY <1>1, <1>4, Zenon
  <2> QED BY <1>4, <2>1
<1>5. CASE here # {}
  <2>1. f \in [Positions(segs) -> Int] /\ here \in SUBSET Positions(segs)
    BY <1>3
  <2>2. PICK x \in here : \A y \in here : f[y] <= f[x]
    BY <1>5, <2>1, LargestAt, Zenon
  <2>3. \E end \in ends : \A other \in ends : other <= end
    BY <2>2
  <2>4. EndOf(segs, part) \in ends /\ \A other \in ends : other <= EndOf(segs, part)
    BY <1>1, <1>5, <2>3, Zenon
  <2> QED BY <1>3, <2>4, Zenon
<1> QED BY <1>4, <1>5

\* The four outcomes of ProducerTail::classify.
LEMMA ClassifyCases ==
    ASSUME NEW tail, tail.epoch \in Int, NEW epoch \in Int, NEW base
    PROVE  LET c == Classify(tail, epoch, base)
               known == {x \in DOMAIN tail.window : tail.window[x].base = base}
           IN  \/ /\ c.class = "admit"
                  /\ (epoch > tail.epoch /\ base = 0) \/ (epoch = tail.epoch /\ base = tail.next)
               \/ /\ c.class = "duplicate" /\ epoch = tail.epoch /\ known # {}
                  /\ c.off = tail.window[Earliest(known)].off
               \/ c.class \in {"fenced", "outOfOrder"}
<1> DEFINE known == {x \in DOMAIN tail.window : tail.window[x].base = base}
           c == Classify(tail, epoch, base)
<1>1. epoch < tail.epoch \/ epoch > tail.epoch \/ epoch = tail.epoch
  OBVIOUS
<1>2. CASE epoch < tail.epoch
  <2>1. ~(epoch > tail.epoch) /\ epoch # tail.epoch
    BY <1>2
  <2>2. c = [class |-> "fenced", off |-> -1]
    BY <1>2, <2>1, Zenon DEF Classify
  <2> QED BY <2>2
<1>3. CASE epoch > tail.epoch
  <2>1. ~(epoch < tail.epoch) /\ epoch # tail.epoch
    BY <1>3
  <2>2. c = [class |-> IF base = 0 THEN "admit" ELSE "outOfOrder", off |-> -1]
    BY <1>3, <2>1, Zenon DEF Classify
  <2> QED BY <1>3, <2>2
<1>4. CASE epoch = tail.epoch
  <2>1. ~(epoch < tail.epoch) /\ ~(epoch > tail.epoch)
    BY <1>4
  <2>2. CASE base = tail.next
    <3>1. c = [class |-> "admit", off |-> -1]
      BY <1>4, <2>1, <2>2, Zenon DEF Classify
    <3> QED BY <1>4, <2>2, <3>1
  <2>3. CASE base # tail.next /\ known # {}
    <3>1. c = [class |-> "duplicate", off |-> tail.window[Earliest(known)].off]
      BY <1>4, <2>1, <2>3, Zenon DEF Classify
    <3> QED BY <1>4, <2>3, <3>1
  <2>4. CASE base # tail.next /\ known = {}
    <3>1. c = [class |-> "outOfOrder", off |-> -1]
      BY <1>4, <2>1, <2>4, Zenon DEF Classify
    <3> QED BY <3>1
  <2> QED BY <2>2, <2>3, <2>4
<1> QED BY <1>1, <1>2, <1>3, <1>4

\* Why a request was appended: it is a marker, or the next batch after the producer's newest one.
NextInLine(all, q) ==
    LET S == Stream(all, q.part, q.pid)
    IN  \/ q.control
        \/ S = {} /\ q.base = 0
        \/ \E z \in S : /\ IsNewest(all, z, S)
                        /\ \/ q.epoch > At(all, z).epoch /\ q.base = 0
                           \/ q.epoch = At(all, z).epoch /\ q.base = SeqIncrement(At(all, z).last)

\* A request is appended because it is next in line, or answered with the offset its batch already
\* has, or refused.
StepOutcome(segs, added, out, q, plan) ==
    LET all == Append(segs, added)
    IN  \/ \E off \in Nat :
             /\ NextInLine(all, q)
             /\ plan = [added |-> Append(added, EntryAt(q, off)), out |-> Append(out, Answer("ok", off))]
        \/ \E x \in Positions(all) :
             /\ SameBatch(At(all, x), q) /\ ~q.control
             /\ plan = [added |-> added, out |-> Append(out, Answer("ok", At(all, x).off))]
        \/ \E class \in {"outOfOrder", "fenced"} :
             plan = [added |-> added, out |-> Append(out, Answer(class, -1))]

\* The classification of a flush has these outcomes.
LEMMA PlanStepCases ==
    ASSUME ProducerLogAssumption, NEW E, Typed(E), NEW segs \in Seq(Seq(E)), NEW was,
           was.added \in Seq(E), NEW q, q.epoch \in Int, q.control \in BOOLEAN,
           ~q.control => q.base # -1, \A off \in Nat : EntryAt(q, off) \in E
    PROVE  StepOutcome(segs, was.added, was.out, q, PlanStep(segs, was, q))
<1> DEFINE added == was.added
           out  == was.out
           all  == Append(segs, added)
           plan == PlanStep(segs, was, q)
           S    == Stream(all, q.part, q.pid)
           tail == ProducerTail(segs, added, q.part, q.pid)
           at   == EndOf(all, q.part)
           c    == IF q.control THEN [class |-> "admit", off |-> -1] ELSE Classify(tail, q.epoch, q.base)
<1>0. added \in Seq(E)
  OBVIOUS
<1>4. plan = CASE c.class = "admit" ->
                    [added |-> Append(added, EntryAt(q, at)), out |-> Append(out, Answer("ok", at))]
               [] c.class = "duplicate" ->
                    [added |-> added, out |-> Append(out, Answer("ok", c.off))]
               [] OTHER ->
                    [added |-> added, out |-> Append(out, Answer(c.class, -1))]
  BY DEF PlanStep
<1> HIDE DEF added, out
<1>1. all \in Seq(Seq(E))
  BY <1>0, AppendedPositions
<1>2. at \in Nat
  BY <1>1, EndIsLargest, Zenon
<1>5. /\ S = {} => tail.epoch = 0 /\ tail.next = 0
      /\ S # {} => \E z \in S : /\ IsNewest(all, z, S)
                                /\ tail.epoch = At(all, z).epoch
                                /\ tail.next = SeqIncrement(At(all, z).last)
      /\ \A x \in DOMAIN tail.window : x \in S /\ tail.window[x] = At(all, x)
                                        /\ At(all, x).epoch = tail.epoch
  BY <1>0, TailIsNewest
<1>6. S \in SUBSET Positions(all)
  BY Zenon DEF Stream
<1> HIDE DEF plan, all, tail, S, at
<1>7. tail.epoch \in Int
  <2>1. CASE S = {}
    BY <1>5, <2>1
  <2>2. CASE S # {}
    <3>1. PICK z \in S : tail.epoch = At(all, z).epoch
      BY <1>5, <2>2, Zenon
    <3> QED BY <1>1, <1>6, <3>1, EntryTyped, Zenon DEF Typed
  <2> QED BY <2>1, <2>2
<1>8. CASE q.control
  <2>1. c.class = "admit"
    BY <1>8
  <2>2. plan = [added |-> Append(added, EntryAt(q, at)), out |-> Append(out, Answer("ok", at))]
    BY <1>4, <2>1
  <2>3. NextInLine(all, q)
    BY <1>8, Zenon DEF NextInLine
  <2> QED BY <1>2, <2>2, <2>3, Zenon DEF StepOutcome, all, plan, added, out
<1>9. CASE ~q.control
  <2> DEFINE known == {x \in DOMAIN tail.window : tail.window[x].base = q.base}
  <2>0. c = Classify(tail, q.epoch, q.base)
    BY <1>9, Zenon
  <2> HIDE DEF c
  <2>1. \/ /\ c.class = "admit"
           /\ (q.epoch > tail.epoch /\ q.base = 0) \/ (q.epoch = tail.epoch /\ q.base = tail.next)
        \/ /\ c.class = "duplicate" /\ q.epoch = tail.epoch /\ known # {}
           /\ c.off = tail.window[Earliest(known)].off
        \/ c.class \in {"fenced", "outOfOrder"}
    BY <1>7, <2>0, ClassifyCases
  <2>2. CASE /\ c.class = "admit"
             /\ (q.epoch > tail.epoch /\ q.base = 0) \/ (q.epoch = tail.epoch /\ q.base = tail.next)
    <3>1. plan = [added |-> Append(added, EntryAt(q, at)), out |-> Append(out, Answer("ok", at))]
      BY <1>4, <2>2
    <3>2. NextInLine(all, q)
      <4>1. CASE S = {}
        BY <1>5, <2>2, <4>1, Zenon DEF NextInLine, S
      <4>2. CASE S # {}
        BY <1>5, <2>2, <4>2, Zenon DEF NextInLine, S
      <4> QED BY <4>1, <4>2
    <3> QED BY <1>2, <3>1, <3>2, Zenon DEF StepOutcome, all, plan, added, out
  <2>3. CASE /\ c.class = "duplicate" /\ q.epoch = tail.epoch /\ known # {}
             /\ c.off = tail.window[Earliest(known)].off
    <3>1. plan = [added |-> added, out |-> Append(out, Answer("ok", c.off))]
      BY <1>4, <2>3
    <3>2. known \in SUBSET Positions(all) /\ known # {}
      BY <1>5, <1>6, <2>3, Zenon
    <3>3. Earliest(known) \in known
      BY <1>1, <3>2, LatestIsLast, Zenon
    <3> DEFINE x == Earliest(known)
    <3>4. /\ x \in S /\ tail.window[x] = At(all, x) /\ tail.window[x].base = q.base
          /\ At(all, x).epoch = tail.epoch
      BY <1>5, <3>3, Zenon
    <3>5. At(all, x).part = q.part /\ At(all, x).pid = q.pid /\ Folds(At(all, x))
      BY <3>4, Zenon DEF S, Stream
    <3>6. SameBatch(At(all, x), q) /\ c.off = At(all, x).off
      BY <2>3, <3>4, <3>5, Zenon DEF SameBatch
    <3>7. x \in Positions(all)
      BY <1>6, <3>4, Zenon
    <3> HIDE DEF x
    <3> QED BY <1>9, <3>1, <3>6, <3>7, Zenon DEF StepOutcome, all, plan, added, out
  <2>4. CASE c.class \in {"fenced", "outOfOrder"}
    <3>1. plan = [added |-> added, out |-> Append(out, Answer(c.class, -1))]
      BY <1>4, <2>4
    <3> QED BY <2>4, <3>1, Zenon DEF StepOutcome, plan, added, out
  <2> QED BY <2>1, <2>2, <2>3, <2>4, Zenon
<1> QED BY <1>8, <1>9

-----------------------------------------------------------------------------
(* The order of a producer's batches. *)

\* A batch that is next in line goes after every batch of its producer.
LEMMA NextFollows ==
    ASSUME ProducerLogAssumption, NEW E, Typed(E), Regular(E), NEW all \in Seq(Seq(E)), Ordered(all),
           NEW q, q.epoch \in Int, ~q.control, NextInLine(all, q)
    PROVE  /\ \A x \in Stream(all, q.part, q.pid) :
                \/ At(all, x).epoch < q.epoch
                \/ At(all, x).epoch = q.epoch /\ At(all, x).base + At(all, x).n <= q.base
           /\ q.base # 0 => \E y \in Stream(all, q.part, q.pid) :
                              At(all, y).epoch = q.epoch /\ At(all, y).base + At(all, y).n = q.base
<1> DEFINE S == Stream(all, q.part, q.pid)
<1>1. CASE S = {} /\ q.base = 0
  BY <1>1, Zenon
<1>2. ASSUME NEW z \in S, IsNewest(all, z, S),
             \/ q.epoch > At(all, z).epoch /\ q.base = 0
             \/ q.epoch = At(all, z).epoch /\ q.base = SeqIncrement(At(all, z).last)
      PROVE  /\ \A x \in S : \/ At(all, x).epoch < q.epoch
                             \/ At(all, x).epoch = q.epoch /\ At(all, x).base + At(all, x).n <= q.base
             /\ q.base # 0 => \E y \in S : /\ At(all, y).epoch = q.epoch
                                           /\ At(all, y).base + At(all, y).n = q.base
  <2> DEFINE e == At(all, z)
  <2>1. z \in Positions(all) /\ e \in E /\ Folds(e) /\ e.part = q.part /\ e.pid = q.pid
    BY EntryTyped, Zenon DEF Stream
  <2>2. /\ e.epoch \in Int /\ e.n \in Nat \ {0} /\ e.base \in Nat
        /\ e.base + e.n <= IMax /\ e.last = e.base + e.n - 1
    BY <2>1, Zenon DEF Typed, Regular
  <2>3. SeqIncrement(e.last) = e.base + e.n
    <3>1. IMax \in Nat
      BY Zenon DEF ProducerLogAssumption
    <3> HIDE DEF e
    <3> QED BY <2>2, <3>1 DEF SeqIncrement
  <2>4. ASSUME NEW x \in S
        PROVE  \/ At(all, x).epoch < q.epoch
               \/ At(all, x).epoch = q.epoch /\ At(all, x).base + At(all, x).n <= q.base
    <3> DEFINE f == At(all, x)
    <3>1. x \in Positions(all) /\ f \in E /\ Folds(f) /\ f.part = q.part /\ f.pid = q.pid
      BY EntryTyped, Zenon DEF Stream
    <3>2. f.epoch \in Int /\ f.n \in Nat \ {0} /\ f.base \in Nat
      BY <3>1, Zenon DEF Typed, Regular
    <3>3. f.epoch <= e.epoch /\ (f.epoch = e.epoch => ~Before(z, x))
      BY <1>2, <2>4, Zenon DEF IsNewest
    <3>4. x = z \/ Before(x, z) \/ Before(z, x)
      BY <2>1, <3>1, BeforeTotal, Zenon
    <3>5. Before(x, z) => f.epoch < e.epoch \/ (f.epoch = e.epoch /\ f.base + f.n <= e.base)
      BY <2>1, <3>1, Zenon DEF Ordered, SameStream
    <3>6. x = z => f = e
      BY Zenon
    <3> SUFFICES f.epoch < q.epoch \/ (f.epoch = q.epoch /\ f.base + f.n <= q.base)
      OBVIOUS
    <3> HIDE DEF e, f
    <3>7. CASE q.epoch > e.epoch
      BY <2>2, <3>2, <3>3, <3>7
    <3>8. CASE q.epoch = e.epoch /\ q.base = SeqIncrement(e.last)
      <4>1. q.base = e.base + e.n
        BY <2>3, <3>8, Zenon
      <4>2. CASE f.epoch < e.epoch
        BY <3>8, <4>2
      <4>3. CASE f.epoch = e.epoch
        <5>1. x = z \/ Before(x, z)
          BY <3>3, <3>4, <4>3, Zenon
        <5>2. CASE x = z
          BY <2>2, <3>6, <3>8, <4>1, <5>2
        <5>3. CASE Before(x, z)
          BY <2>2, <3>2, <3>5, <3>8, <4>1, <4>3, <5>3
        <5> QED BY <5>1, <5>2, <5>3
      <4> QED BY <2>2, <3>2, <3>3, <4>2, <4>3
    <3> QED BY <1>2, <3>7, <3>8, Zenon DEF e
  <2>5. q.base # 0 => e.epoch = q.epoch /\ e.base + e.n = q.base
    BY <1>2, <2>3, Zenon
  <2> QED BY <2>4, <2>5, Zenon
<1> QED BY <1>1, <1>2, Zenon DEF NextInLine

\* Appending what is next in line keeps the order of every producer's batches.
LEMMA OrderKept ==
    ASSUME ProducerLogAssumption, NEW E, Typed(E), Regular(E), NEW segs \in Seq(Seq(E)),
           NEW added \in Seq(E), Ordered(Append(segs, added)), Chained(Append(segs, added)),
           NEW q, q.epoch \in Int, q.control \in BOOLEAN, NextInLine(Append(segs, added), q),
           NEW off, EntryAt(q, off) \in E
    PROVE  LET new == Append(segs, Append(added, EntryAt(q, off))) IN Ordered(new) /\ Chained(new)
<1> DEFINE old == Append(segs, added)
           e   == EntryAt(q, off)
           new == Append(segs, Append(added, e))
           z   == <<Len(segs) + 1, Len(added) + 1>>
<1>1. old \in Seq(Seq(E))
  BY AppendedPositions
<1>2. /\ new \in Seq(Seq(E)) /\ Positions(new) = Positions(old) \cup {z} /\ At(new, z) = e
      /\ \A x \in Positions(old) : At(new, x) = At(old, x) /\ Before(x, z)
  BY PositionsOfGrown
<1>3. e.part = q.part /\ e.pid = q.pid /\ e.epoch = q.epoch /\ e.base = q.base /\ e.control = q.control
  BY DEF EntryAt
<1> HIDE DEF old, new, e, z
<1>4. ASSUME Folds(e)
      PROVE  /\ \A x \in Positions(old) : SameStream(At(old, x), e) =>
                  \/ At(old, x).epoch < e.epoch
                  \/ At(old, x).epoch = e.epoch /\ At(old, x).base + At(old, x).n <= e.base
             /\ e.base # 0 => \E y \in Positions(old) : /\ SameStream(At(old, y), e)
                                                        /\ At(old, y).epoch = e.epoch
                                                        /\ At(old, y).base + At(old, y).n = e.base
  <2>1. ~q.control
    BY <1>3, <1>4, Zenon DEF Folds
  <2>2. /\ \A x \in Stream(old, q.part, q.pid) :
             \/ At(old, x).epoch < q.epoch
             \/ At(old, x).epoch = q.epoch /\ At(old, x).base + At(old, x).n <= q.base
        /\ q.base # 0 => \E y \in Stream(old, q.part, q.pid) :
                           At(old, y).epoch = q.epoch /\ At(old, y).base + At(old, y).n = q.base
    BY <1>1, <2>1, NextFollows, Zenon DEF old
  <2> QED BY <1>3, <1>4, <2>2, Zenon DEF Stream, SameStream
<1>5. ~Before(z, z) /\ \A x \in Positions(old) : ~Before(z, x)
  BY <1>2, BeforeTotal, Zenon
<1>6. Ordered(new)
  <2> SUFFICES ASSUME NEW x \in Positions(new), NEW y \in Positions(new),
                      SameStream(At(new, x), At(new, y)), Before(x, y)
               PROVE  \/ At(new, x).epoch < At(new, y).epoch
                      \/ At(new, x).epoch = At(new, y).epoch /\ At(new, x).base + At(new, x).n <= At(new, y).base
    BY Zenon DEF Ordered
  <2>1. x \in Positions(old)
    BY <1>2, <1>5, Zenon
  <2>2. CASE y \in Positions(old)
    <3>1. Ordered(old)
      BY Zenon DEF old
    <3>2. At(new, x) = At(old, x) /\ At(new, y) = At(old, y)
      BY <1>2, <2>1, <2>2, Zenon
    <3> QED BY <2>1, <2>2, <3>1, <3>2, Zenon DEF Ordered
  <2>3. CASE y = z
    BY <1>2, <1>4, <2>1, <2>3, Zenon DEF SameStream
  <2> QED BY <1>2, <2>2, <2>3, Zenon
<1>7. Chained(new)
  <2> SUFFICES ASSUME NEW x \in Positions(new), Folds(At(new, x)), At(new, x).base # 0
               PROVE  \E y \in Positions(new) : /\ Before(y, x) /\ SameStream(At(new, y), At(new, x))
                                                /\ At(new, y).epoch = At(new, x).epoch
                                                /\ At(new, y).base + At(new, y).n = At(new, x).base
    BY Zenon DEF Chained
  <2>1. CASE x \in Positions(old)
    <3>1. Chained(old)
      BY Zenon DEF old
    <3>2. PICK y \in Positions(old) : /\ Before(y, x) /\ SameStream(At(old, y), At(old, x))
                                      /\ At(old, y).epoch = At(old, x).epoch
                                      /\ At(old, y).base + At(old, y).n = At(old, x).base
      BY <1>2, <2>1, <3>1, Zenon DEF Chained
    <3>3. y \in Positions(new) /\ At(new, y) = At(old, y) /\ At(new, x) = At(old, x)
      BY <1>2, <2>1, Zenon
    <3> QED BY <3>2, <3>3, Zenon
  <2>2. CASE x = z
    <3>1. PICK y \in Positions(old) : /\ SameStream(At(old, y), e)
                                      /\ At(old, y).epoch = e.epoch
                                      /\ At(old, y).base + At(old, y).n = e.base
      BY <1>2, <1>4, <2>2, Zenon
    <3>2. y \in Positions(new) /\ At(new, y) = At(old, y) /\ At(new, x) = e /\ Before(y, x)
      BY <1>2, <2>2, Zenon
    <3> QED BY <3>1, <3>2, Zenon
  <2> QED BY <1>2, <2>1, <2>2, Zenon
<1> QED BY <1>6, <1>7, Zenon DEF new, e

-----------------------------------------------------------------------------
(* A whole window. *)

\* An answer that was right stays right when more is appended.
LEMMA AnsweredKept ==
    ASSUME NEW E, NEW segs \in Seq(Seq(E)), NEW added \in Seq(E), NEW e \in E, NEW q, NEW a,
           Answered(Append(segs, added), q, a)
    PROVE  Answered(Append(segs, Append(added, e)), q, a)
<1> DEFINE old == Append(segs, added)
           new == Append(segs, Append(added, e))
           z   == <<Len(segs) + 1, Len(added) + 1>>
<1>1. /\ Positions(new) = Positions(old) \cup {z}
      /\ \A x \in Positions(old) : At(new, x) = At(old, x) /\ Before(x, z)
  BY PositionsOfGrown
<1> HIDE DEF old, new
<1>2. Answered(old, q, a)
  BY Zenon DEF old
<1>3. Answered(new, q, a)
  BY <1>1, <1>2, Zenon DEF Answered
<1> QED BY <1>3, Zenon DEF new

\* The plan for no request.
LEMMA PlannedNone ==
    ASSUME NEW E, NEW segs \in Seq(Seq(E)), NEW reqs
    PROVE  Planned(E, segs, reqs, 0, [added |-> <<>>, out |-> <<>>])
<1> DEFINE plan == [added |-> <<>>, out |-> <<>>]
           none == <<>>
           all == Append(segs, none)
<1>1. plan.added = none /\ plan.out = none /\ none \in Seq(E) /\ none \in Seq(Answers) /\ Len(none) = 0
  OBVIOUS
<1> HIDE DEF none
<1>2. \A i \in 1..0 : FALSE
  OBVIOUS
<1>3. Positions(all) = Positions(segs) /\ \A x \in Positions(segs) : At(all, x) = At(segs, x)
  <2>0. none \in Seq(E)
    BY <1>1, Zenon
  <2>1. /\ all \in Seq(Seq(E))
        /\ \A x : x \in Positions(all) <=>
             x \in Positions(segs) \/ \E i \in 1..Len(none) : x = <<Len(segs) + 1, i>>
        /\ \A x \in Positions(segs) : At(all, x) = At(segs, x) /\ x[1] <= Len(segs)
        /\ \A i \in 1..Len(none) : At(all, <<Len(segs) + 1, i>>) = none[i]
    BY <2>0, AppendedPositions
  <2> HIDE DEF all
  <2>2. \A i \in 1..Len(none) : FALSE
    BY <1>1
  <2> QED BY <2>1, <2>2, Zenon
<1> HIDE DEF all
<1>4. Ordered(segs) => Ordered(all)
  BY <1>3, Zenon DEF Ordered
<1>5. Chained(segs) => Chained(all)
  <2> SUFFICES ASSUME Chained(segs), NEW x \in Positions(all), Folds(At(all, x)), At(all, x).base # 0
               PROVE  \E y \in Positions(all) : /\ Before(y, x) /\ SameStream(At(all, y), At(all, x))
                                                /\ At(all, y).epoch = At(all, x).epoch
                                                /\ At(all, y).base + At(all, y).n = At(all, x).base
    BY Zenon DEF Chained
  <2>1. PICK y \in Positions(segs) : /\ Before(y, x) /\ SameStream(At(segs, y), At(segs, x))
                                     /\ At(segs, y).epoch = At(segs, x).epoch
                                     /\ At(segs, y).base + At(segs, y).n = At(segs, x).base
    BY <1>3, Zenon DEF Chained
  <2> QED BY <1>3, <2>1, Zenon
<1>6. /\ \A i \in 1..Len(plan.added) : \E j \in 1..0, off \in Nat : plan.added[i] = EntryAt(reqs[j], off)
      /\ \A j \in 1..0 : Answered(Append(segs, plan.added), reqs[j], plan.out[j])
  BY <1>1, <1>2, Zenon
<1> QED BY <1>1, <1>4, <1>5, <1>6, Zenon DEF Planned, all, none

\* The plan for one request more.
LEMMA PlannedMore ==
    ASSUME ProducerLogAssumption, NEW E, Typed(E), NEW segs \in Seq(Seq(E)), NEW Q, Encodes(Q, E),
           NEW reqs \in Seq(Q), NEW k \in Nat, k + 1 \in 1..Len(reqs), NEW was,
           Planned(E, segs, reqs, k, was)
    PROVE  Planned(E, segs, reqs, k + 1, PlanStep(segs, was, reqs[k + 1]))
<1> DEFINE q == reqs[k + 1]
           added == was.added
           out == was.out
           all == Append(segs, added)
           plan == PlanStep(segs, was, q)
<1>1. q \in Q
  OBVIOUS
<1>2. /\ q.epoch \in Int /\ q.control \in BOOLEAN /\ (~q.control => q.base # -1)
      /\ \A off \in Nat : EntryAt(q, off) \in E
  BY <1>1, Zenon DEF Encodes
<1>3. /\ was = [added |-> added, out |-> out] /\ added \in Seq(E) /\ out \in Seq(Answers) /\ Len(out) = k
      /\ \A i \in 1..Len(added) : \E j \in 1..k, off \in Nat : added[i] = EntryAt(reqs[j], off)
      /\ \A j \in 1..k : Answered(all, reqs[j], out[j])
      /\ Regular(E) /\ Ordered(segs) /\ Chained(segs) => Ordered(all) /\ Chained(all)
  BY Zenon DEF Planned
<1>4. 1..k + 1 = 1..k \cup {k + 1} /\ 1..k \subseteq 1..k + 1
  OBVIOUS
<1> HIDE DEF q, added, out, plan
<1>5. ASSUME NEW a \in Answers, NEW new \in Seq(E), plan = [added |-> new, out |-> Append(out, a)],
             Answered(Append(segs, new), q, a),
             \A j \in 1..k : Answered(Append(segs, new), reqs[j], out[j]),
             \A i \in 1..Len(new) : \E j \in 1..k + 1, off \in Nat : new[i] = EntryAt(reqs[j], off),
             Regular(E) /\ Ordered(segs) /\ Chained(segs) =>
               Ordered(Append(segs, new)) /\ Chained(Append(segs, new))
      PROVE  Planned(E, segs, reqs, k + 1, plan)
  <2>1. plan.added = new /\ plan.out = Append(out, a)
    BY <1>5
  <2>2. /\ plan.out \in Seq(Answers) /\ Len(plan.out) = k + 1 /\ plan.out[k + 1] = a
        /\ \A j \in 1..k : plan.out[j] = out[j]
    BY <1>3, <1>5, <2>1
  <2>3. \A j \in 1..k + 1 : Answered(Append(segs, plan.added), reqs[j], plan.out[j])
    BY <1>4, <1>5, <2>1, <2>2, Zenon DEF q
  <2> HIDE DEF plan
  <2> QED BY <1>5, <2>1, <2>2, <2>3, Zenon DEF Planned
<1>6. \/ \E off \in Nat :
           /\ NextInLine(all, q)
           /\ plan = [added |-> Append(added, EntryAt(q, off)), out |-> Append(out, Answer("ok", off))]
      \/ \E x \in Positions(all) :
           /\ SameBatch(At(all, x), q) /\ ~q.control
           /\ plan = [added |-> added, out |-> Append(out, Answer("ok", At(all, x).off))]
      \/ \E class \in {"outOfOrder", "fenced"} :
           plan = [added |-> added, out |-> Append(out, Answer(class, -1))]
  <2>1. was.added \in Seq(E)
    BY <1>3, Zenon DEF added
  <2>2. StepOutcome(segs, was.added, was.out, q, PlanStep(segs, was, q))
    BY <1>2, <2>1, PlanStepCases, Zenon
  <2> QED BY <2>2, Zenon DEF StepOutcome, plan, added, out
<1>7. all \in Seq(Seq(E))
  BY <1>3, AppendedPositions
<1>8. \A i \in 1..Len(added) : \E j \in 1..k + 1, off \in Nat : added[i] = EntryAt(reqs[j], off)
  BY <1>3, <1>4, Zenon
<1>9. ASSUME NEW off \in Nat, NextInLine(all, q),
             plan = [added |-> Append(added, EntryAt(q, off)), out |-> Append(out, Answer("ok", off))]
      PROVE  Planned(E, segs, reqs, k + 1, plan)
  <2> DEFINE e == EntryAt(q, off)
             new == Append(added, e)
             z == <<Len(segs) + 1, Len(added) + 1>>
  <2>1. e \in E /\ new \in Seq(E) /\ Answer("ok", off) \in Answers
    BY <1>2, <1>3 DEF Answer, Answers
  <2>2. /\ Len(new) = Len(added) + 1 /\ 1..Len(new) = 1..Len(added) \cup {Len(added) + 1}
        /\ new[Len(added) + 1] = e /\ \A i \in 1..Len(added) : new[i] = added[i]
    BY <1>3, <2>1
  <2>3. z \in Positions(Append(segs, new)) /\ At(Append(segs, new), z) = e
    BY <1>3, <2>1, PositionsOfGrown
  <2>4. /\ e.part = q.part /\ e.pid = q.pid /\ e.epoch = q.epoch /\ e.base = q.base
        /\ e.control = q.control /\ e.off = off
    BY DEF EntryAt
  <2>5. ~q.control => SameBatch(e, q)
    BY <1>2, <2>4, Zenon DEF SameBatch, Folds
  <2>6. Answer("ok", off).off = off
    BY DEF Answer
  <2> HIDE DEF e, z
  <2>7. Answered(Append(segs, new), q, Answer("ok", off))
    BY <2>3, <2>4, <2>5, <2>6, Zenon DEF Answered
  <2>8. \A j \in 1..k : Answered(Append(segs, new), reqs[j], out[j])
    BY <1>3, <2>1, AnsweredKept, Zenon
  <2>9. \A i \in 1..Len(new) : \E j \in 1..k + 1, o \in Nat : new[i] = EntryAt(reqs[j], o)
    <3> SUFFICES ASSUME NEW i \in 1..Len(new) PROVE \E j \in 1..k + 1, o \in Nat : new[i] = EntryAt(reqs[j], o)
      OBVIOUS
    <3>1. CASE i \in 1..Len(added)
      BY <1>8, <2>2, <3>1, Zenon
    <3>2. CASE i = Len(added) + 1
      BY <1>4, <2>2, <3>2, Zenon DEF e, q
    <3> QED BY <2>2, <3>1, <3>2, Zenon
  <2>10. ASSUME Regular(E), Ordered(segs), Chained(segs)
         PROVE  Ordered(Append(segs, new)) /\ Chained(Append(segs, new))
    BY <1>2, <1>3, <1>9, <2>1, <2>10, OrderKept, Zenon DEF e
  <2> HIDE DEF new
  <2> QED BY <1>5, <1>9, <2>1, <2>7, <2>8, <2>9, <2>10, Zenon DEF new, e
<1>10. ASSUME NEW x \in Positions(all), SameBatch(At(all, x), q), ~q.control,
              plan = [added |-> added, out |-> Append(out, Answer("ok", At(all, x).off))]
       PROVE  Planned(E, segs, reqs, k + 1, plan)
  <2>1. At(all, x) \in E /\ At(all, x).off \in Nat
    BY <1>7, EntryTyped, Zenon DEF Typed
  <2>2. Answer("ok", At(all, x).off) \in Answers /\ Answer("ok", At(all, x).off).off = At(all, x).off
    BY <2>1 DEF Answer, Answers
  <2>3. At(all, x).part = q.part
    BY <1>10, Zenon DEF SameBatch
  <2>4. Answered(all, q, Answer("ok", At(all, x).off))
    BY <1>10, <2>2, <2>3, Zenon DEF Answered
  <2> QED BY <1>3, <1>5, <1>8, <1>10, <2>2, <2>4, Zenon
<1>11. ASSUME NEW class \in {"outOfOrder", "fenced"},
              plan = [added |-> added, out |-> Append(out, Answer(class, -1))]
       PROVE  Planned(E, segs, reqs, k + 1, plan)
  <2>1. Answer(class, -1) \in Answers /\ Answer(class, -1).class # "ok"
    BY DEF Answer, Answers
  <2>2. Answered(all, q, Answer(class, -1))
    BY <2>1, Zenon DEF Answered
  <2> QED BY <1>3, <1>5, <1>8, <1>11, <2>1, <2>2, Zenon
<1> QED BY <1>6, <1>9, <1>10, <1>11, Zenon DEF plan, q

\* f has the plan for the first k requests of a window, for every k up to n.
IsPlan(f, segs, reqs, n) ==
    f = [k \in 0..n |-> IF k = 0 THEN [added |-> <<>>, out |-> <<>>] ELSE PlanStep(segs, f[k - 1], reqs[k])]

\* Such a function exists, however long the window.
LEMMA PlanFunction ==
    ASSUME NEW segs, NEW reqs, NEW n \in Nat
    PROVE  \E f : IsPlan(f, segs, reqs, n)
<1> DEFINE none == [added |-> <<>>, out |-> <<>>]
           Is(f, m) == f = [k \in 0..m |-> IF k = 0 THEN none ELSE PlanStep(segs, f[k - 1], reqs[k])]
           S == {m \in Nat : \E f : Is(f, m)}
<1> HIDE DEF none
<1>1. 0 \in S
  <2> DEFINE f == [k \in 0..0 |-> none]
  <2>1. f = [k \in 0..0 |-> IF k = 0 THEN none ELSE PlanStep(segs, f[k - 1], reqs[k])]
    <3>1. \A k \in 0..0 : k = 0
      OBVIOUS
    <3>2. \A k \in 0..0 : none = IF k = 0 THEN none ELSE PlanStep(segs, f[k - 1], reqs[k])
      BY <3>1, Zenon
    <3> QED BY <3>2, Zenon
  <2> QED BY <2>1, Zenon
<1>2. ASSUME NEW m \in Nat, m \in S PROVE m + 1 \in S
  <2>1. PICK f : Is(f, m)
    BY <1>2, Zenon
  <2> DEFINE g == [k \in 0..m + 1 |-> IF k = m + 1 THEN PlanStep(segs, f[m], reqs[m + 1]) ELSE f[k]]
  <2>2. \A k \in 0..m + 1 : k = m + 1 \/ k \in 0..m
    OBVIOUS
  <2>3. ASSUME NEW k \in 0..m + 1
        PROVE  g[k] = IF k = 0 THEN none ELSE PlanStep(segs, g[k - 1], reqs[k])
    <3>1. CASE k = m + 1
      <4>1. k # 0 /\ k - 1 = m /\ m # m + 1 /\ m \in 0..m + 1
        BY <3>1
      <4>2. g[k] = PlanStep(segs, f[m], reqs[k])
        BY <3>1, Zenon
      <4>3. g[m] = f[m]
        BY <4>1, Zenon
      <4> HIDE DEF g
      <4> QED BY <4>1, <4>2, <4>3, Zenon
    <3>2. CASE k \in 0..m
      <4>1. k # m + 1 /\ (k # 0 => k - 1 \in 0..m + 1 /\ k - 1 # m + 1)
        BY <3>2
      <4>2. g[k] = f[k] /\ (k # 0 => g[k - 1] = f[k - 1])
        BY <3>2, <4>1, Zenon
      <4>3. f[k] = IF k = 0 THEN none ELSE PlanStep(segs, f[k - 1], reqs[k])
        BY <2>1, <3>2, Zenon
      <4> HIDE DEF g
      <4> QED BY <4>2, <4>3, Zenon
    <3> QED BY <2>2, <3>1, <3>2, Zenon
  <2>4. g = [k \in 0..m + 1 |-> g[k]]
    BY Zenon
  <2>5. g = [k \in 0..m + 1 |-> IF k = 0 THEN none ELSE PlanStep(segs, g[k - 1], reqs[k])]
    <3> HIDE DEF g
    <3> QED BY <2>3, <2>4, Zenon
  <2>6. m + 1 \in Nat
    OBVIOUS
  <2> HIDE DEF g
  <2> QED BY <2>5, <2>6, Zenon
<1>3. Nat \subseteq S
  <2> HIDE DEF S
  <2> QED BY <1>1, <1>2, SetInduction, Zenon
<1> QED BY <1>3, Zenon DEF none, IsPlan

\* The plan for a whole window: what it would append continues the log in order, and what it answers
\* with are the offsets of those very batches.
LEMMA PlanIsRight ==
    ASSUME ProducerLogAssumption, NEW E, Typed(E), NEW segs \in Seq(Seq(E)), NEW Q, Encodes(Q, E),
           NEW reqs \in Seq(Q)
    PROVE  Planned(E, segs, reqs, Len(reqs), Plan(segs, reqs))
<1> DEFINE n == Len(reqs)
           plan == CHOOSE f : IsPlan(f, segs, reqs, n)
<1>1. n \in Nat
  OBVIOUS
<1>2. plan = [k \in 0..n |-> IF k = 0 THEN [added |-> <<>>, out |-> <<>>]
                             ELSE PlanStep(segs, plan[k - 1], reqs[k])]
  <2>1. \E f : IsPlan(f, segs, reqs, n)
    BY <1>1, PlanFunction, Zenon
  <2>2. IsPlan(plan, segs, reqs, n)
    BY <2>1, Zenon
  <2> HIDE DEF plan
  <2> QED BY <2>2, Zenon DEF IsPlan
<1>3. Plan(segs, reqs) = plan[n]
  BY Zenon DEF Plan, IsPlan
<1> HIDE DEF plan, n
<1>4. plan[0] = [added |-> <<>>, out |-> <<>>]
  <2>1. 0 \in 0..n
    BY <1>1
  <2> QED BY <1>2, <2>1, Zenon
<1>5. ASSUME NEW k \in Nat, k + 1 \in 1..n PROVE plan[k + 1] = PlanStep(segs, plan[k], reqs[k + 1])
  <2>1. k + 1 \in 0..n /\ k + 1 # 0 /\ (k + 1) - 1 = k
    BY <1>1, <1>5
  <2>2. plan[k + 1] = PlanStep(segs, plan[(k + 1) - 1], reqs[k + 1])
    BY <1>2, <2>1, Zenon
  <2> QED BY <2>1, <2>2, Zenon
<1> DEFINE S == {k \in Nat : k <= n => Planned(E, segs, reqs, k, plan[k])}
<1>6. 0 \in S
  BY <1>4, PlannedNone, Zenon
<1>7. ASSUME NEW k \in Nat, k \in S PROVE k + 1 \in S
  <2>0. k + 1 \in Nat
    OBVIOUS
  <2> SUFFICES ASSUME k + 1 <= n PROVE Planned(E, segs, reqs, k + 1, plan[k + 1])
    BY <2>0, Zenon
  <2>1. k <= n /\ k + 1 \in 1..n
    BY <1>1
  <2>2. Planned(E, segs, reqs, k, plan[k])
    BY <1>7, <2>1, Zenon
  <2>3. plan[k + 1] = PlanStep(segs, plan[k], reqs[k + 1])
    BY <1>5, <2>1, Zenon
  <2>4. k + 1 \in 1..Len(reqs)
    BY <2>1, Zenon DEF n
  <2>5. Planned(E, segs, reqs, k + 1, PlanStep(segs, plan[k], reqs[k + 1]))
    BY <2>2, <2>4, PlannedMore, Zenon
  <2> QED BY <2>3, <2>5, Zenon
<1>8. Nat \subseteq S
  <2> HIDE DEF S
  <2> QED BY <1>6, <1>7, SetInduction, Zenon
<1>9. n \in S /\ n <= n
  BY <1>1, <1>8
<1> QED BY <1>3, <1>9, Zenon DEF n

\* Every plan of a flush attempt (coalesce.rs, plan and classify) is right, whatever the log and the window.
THEOREM PlanIsSound == PlanSound
<1>1. ProducerLogAssumption
  BY ProducerLogAssumption
<1> QED BY <1>1, PlanIsRight, Zenon DEF PlanSound

=============================================================================
