--------------------------- MODULE ProducerOrder ---------------------------
(***************************************************************************)
(* What the proofs about ProducerLog say of a log and of a flush: when the *)
(* batches of every producer lie in order, and when the plan of a window   *)
(* keeps them so and answers every request truly.                          *)
(***************************************************************************)
EXTENDS ProducerLog

\* What the decisions need to know of a footer entry.
Typed(E) ==
    \A e \in E : /\ e.epoch \in Int /\ e.base \in Int /\ e.last \in Int
                 /\ e.n \in Nat \ {0} /\ e.off \in Nat /\ e.control \in BOOLEAN

\* What a request can be answered with.
Answers == [class : {"ok"}, off : Nat] \cup [class : {"outOfOrder", "fenced", "storage"}, off : {-1}]

\* The batch e is the one request q carries.
SameBatch(e, q) ==
    e.part = q.part /\ e.pid = q.pid /\ e.epoch = q.epoch /\ e.base = q.base /\ Folds(e)

\* `a` answers q with the offset of an entry in the log `all`: of the batch itself, if q is no marker.
Answered(all, q, a) ==
    a.class = "ok" => \E x \in Positions(all) : /\ At(all, x).part = q.part /\ At(all, x).off = a.off
                                                /\ ~q.control => SameBatch(At(all, x), q)

SameStream(e, f) == e.part = f.part /\ e.pid = f.pid /\ Folds(e) /\ Folds(f)

\* Of two batches of a producer in a partition the later one has a newer epoch, or the higher sequences.
Ordered(all) ==
    \A x, y \in Positions(all) :
      SameStream(At(all, x), At(all, y)) /\ Before(x, y) =>
        \/ At(all, x).epoch < At(all, y).epoch
        \/ At(all, x).epoch = At(all, y).epoch /\ At(all, x).base + At(all, x).n <= At(all, y).base

\* A batch that does not start its epoch comes after the batch whose sequences end where its own begin.
Chained(all) ==
    \A x \in Positions(all) :
      Folds(At(all, x)) /\ At(all, x).base # 0 =>
        \E y \in Positions(all) : /\ Before(y, x) /\ SameStream(At(all, y), At(all, x))
                                  /\ At(all, y).epoch = At(all, x).epoch
                                  /\ At(all, y).base + At(all, y).n = At(all, x).base

\* Entries whose sequences stay below i32::MAX.
Regular(E) ==
    \A e \in E : Folds(e) => e.base \in Nat /\ e.base + e.n <= IMax /\ e.last = e.base + e.n - 1

\* The requests of Q are ones a window may hold, and become entries of E.
Encodes(Q, E) ==
    \A q \in Q : /\ q.epoch \in Int /\ q.control \in BOOLEAN /\ (~q.control => q.base # -1)
                 /\ \A off \in Nat : EntryAt(q, off) \in E

\* What the plan for the first k requests of a window is.
Planned(E, segs, reqs, k, plan) ==
    /\ plan = [added |-> plan.added, out |-> plan.out]
    /\ plan.added \in Seq(E) /\ plan.out \in Seq(Answers) /\ Len(plan.out) = k
    /\ \A i \in 1..Len(plan.added) : \E j \in 1..k, off \in Nat : plan.added[i] = EntryAt(reqs[j], off)
    /\ \A j \in 1..k : Answered(Append(segs, plan.added), reqs[j], plan.out[j])
    /\ Regular(E) /\ Ordered(segs) /\ Chained(segs) =>
         Ordered(Append(segs, plan.added)) /\ Chained(Append(segs, plan.added))

\* Every plan of a flush is right, whatever the log and the window.
PlanSound ==
    \A E, Q : Typed(E) /\ Encodes(Q, E) =>
      \A segs \in Seq(Seq(E)), reqs \in Seq(Q) : Planned(E, segs, reqs, Len(reqs), Plan(segs, reqs))
=============================================================================
