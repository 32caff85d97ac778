---------------------------- MODULE ProducerLog ----------------------------
(***************************************************************************)
(* Idempotent produce: how a flush decides, for every parked batch, whether *)
(* to append it, to answer it with the offset it already has, or to refuse  *)
(* it.  The only state the decision reads is the log: each segment footer   *)
(* carries its batches' producer coordinates, a replica folds the footers   *)
(* it has seen into a `ProducerTail`, and the create-only PUT at the next   *)
(* free sequence decides whose fold was current.  Replicas share nothing    *)
(* but the object store, so a retry may be classified by a replica that has *)
(* never heard of the first attempt while that attempt is still under way.  *)
(***************************************************************************)
EXTENDS Integers, Sequences, FiniteSets

CONSTANTS
  Replicas,      \* the broker processes
  Partitions,    \* the sub-streams of one prefix
  IMax,          \* i32::MAX, the largest sequence number
  WindowSize     \* IDEMPOTENT_WINDOW

ASSUME ProducerLogAssumption ==
  /\ Replicas # {} /\ Partitions # {}
  /\ IMax \in Nat \ {0}
  /\ WindowSize \in Nat \ {0}

VARIABLES
  segments,  \* the prefix's segments in sequence order, each the entries of its footer
  folded,    \* per replica: how many segments its index has folded
  parked,    \* per replica: the requests waiting for its next flush
  flush,     \* per replica: the flush under way
  late       \* creates given up as failed that the store may still carry out

logVars == <<segments, folded, parked, flush, late>>

-----------------------------------------------------------------------------
(* Sequence arithmetic and the producer tail. *)

\* ProducerTail::seq_increment: wraps at i32::MAX back to 0.
SeqIncrement(s) == IF s = IMax THEN 0 ELSE s + 1

\* i32::wrapping_add, which passes from i32::MAX to i32::MIN.
WrappingAdd(a, b) == IF a + b > IMax THEN a + b - 2 * (IMax + 1) ELSE a + b

\* ProducerCoord::folds: a transaction marker carries no sequence.
Folds(e) == ~e.control /\ e.base # -1

\* The places of the coordinates in some segments' footers, and their log order.
Positions(segs) == UNION {{k} \X DOMAIN segs[k] : k \in DOMAIN segs}
At(segs, x) == segs[x[1]][x[2]]
Before(x, y) == x[1] < y[1] \/ (x[1] = y[1] /\ x[2] < y[2])

Earliest(S) == CHOOSE x \in S : \A y \in S : ~Before(y, x)
Latest(S) == CHOOSE x \in S : \A y \in S : ~Before(x, y)

\* retain_foldable_producers: what the index keeps of a footer's coordinates, for each producer the
\* last WindowSize at its highest epoch in the entry.
Kept(seg) ==
  LET Same(i, j) == seg[j].part = seg[i].part /\ seg[j].pid = seg[i].pid /\ Folds(seg[j])
  IN  {i \in DOMAIN seg :
         /\ Folds(seg[i])
         /\ \A j \in DOMAIN seg : Same(i, j) => seg[j].epoch <= seg[i].epoch
         /\ Cardinality({j \in DOMAIN seg : Same(i, j) /\ seg[j].epoch = seg[i].epoch /\ i < j}) < WindowSize}

\* One producer's coordinates in a partition: those the index keeps of the folded segments, and those
\* of the batches admitted so far by the flush under way.
Coords(segs, added, part, pid) ==
  {x \in Positions(Append(segs, added)) :
     LET e == At(Append(segs, added), x)
     IN  /\ x[1] <= Len(segs) => x[2] \in Kept(segs[x[1]])
         /\ e.part = part /\ e.pid = pid /\ Folds(e)}

\* ProducerTail::fold over those coordinates: the highest epoch wins, a stale epoch's coordinate is
\* ignored, and the window keeps that epoch's last batches.
ProducerTail(segs, added, part, pid) ==
  LET all    == Append(segs, added)
      mine   == Coords(segs, added, part, pid)
      newest == {x \in mine : \A y \in mine : At(all, y).epoch <= At(all, x).epoch}
      last   == At(all, Latest(newest))
  IN  [ epoch  |-> IF newest = {} THEN 0 ELSE last.epoch,
        next   |-> IF newest = {} THEN 0 ELSE SeqIncrement(last.last),
        window |-> [x \in {y \in newest : Cardinality({z \in newest : Before(y, z)}) < WindowSize}
                      |-> At(all, x)] ]

\* Mutant: the epoch a producer already writes under counts as a new one.
ClassifyReopens(tail, epoch, base) ==
  LET known == {x \in DOMAIN tail.window : tail.window[x].base = base}
  IN  CASE epoch < tail.epoch -> [class |-> "fenced", off |-> -1]
        [] base = 0 \/ base = tail.next -> [class |-> "admit", off |-> -1]
        [] known # {} -> [class |-> "duplicate", off |-> tail.window[Earliest(known)].off]
        [] OTHER -> [class |-> "outOfOrder", off |-> -1]

\* Mutant: a gap is let through.
ClassifyGaps(tail, epoch, base) ==
  LET known == {x \in DOMAIN tail.window : tail.window[x].base = base}
  IN  CASE epoch < tail.epoch -> [class |-> "fenced", off |-> -1]
        [] known # {} -> [class |-> "duplicate", off |-> tail.window[Earliest(known)].off]
        [] OTHER -> [class |-> "admit", off |-> -1]

\* Mutant: a duplicate is answered with the offset of the newest batch.
ClassifyNewest(tail, epoch, base) ==
  LET known == {x \in DOMAIN tail.window : tail.window[x].base = base}
  IN  CASE epoch < tail.epoch -> [class |-> "fenced", off |-> -1]
        [] epoch > tail.epoch -> [class |-> IF base = 0 THEN "admit" ELSE "outOfOrder", off |-> -1]
        [] base = tail.next -> [class |-> "admit", off |-> -1]
        [] known # {} -> [class |-> "duplicate", off |-> tail.window[Latest(DOMAIN tail.window)].off]
        [] OTHER -> [class |-> "outOfOrder", off |-> -1]

\* ProducerTail::classify.
Classify(tail, epoch, base) ==
  LET known == {x \in DOMAIN tail.window : tail.window[x].base = base}
  IN  CASE epoch < tail.epoch -> [class |-> "fenced", off |-> -1]
        [] epoch > tail.epoch -> [class |-> IF base = 0 THEN "admit" ELSE "outOfOrder", off |-> -1]
        [] epoch = tail.epoch /\ base = tail.next -> [class |-> "admit", off |-> -1]
        [] epoch = tail.epoch /\ base # tail.next /\ known # {} ->
             [class |-> "duplicate", off |-> tail.window[Earliest(known)].off]
        [] OTHER -> [class |-> "outOfOrder", off |-> -1]

\* leaseless_base: the partition's next offset after the given segments.
EndOf(segs, part) ==
  LET here == {x \in Positions(segs) : At(segs, x).part = part}
      ends == {At(segs, x).off + At(segs, x).n : x \in here}
  IN  IF here = {} THEN 0 ELSE CHOOSE end \in ends : \A other \in ends : other <= end

-----------------------------------------------------------------------------
(* One flush attempt over the requests of a window. *)

Answer(class, off) == [class |-> class, off |-> off]

\* The footer entry a request is encoded as when it is appended at `off`.
EntryAt(q, off) ==
  [ part |-> q.part, pid |-> q.pid, epoch |-> q.epoch, base |-> q.base, n |-> q.n,
    last |-> IF q.control THEN -1 ELSE WrappingAdd(q.base, q.n - 1),
    control |-> q.control, commit |-> q.commit, off |-> off, id |-> q.id ]

\* What becomes of the next request of a window: `added` are the entries the attempt would write so
\* far, `out` the answers.  A batch is classified against the fold and the batches admitted ahead of it;
\* only an admitted one takes an offset.
PlanStep(segs, plan, q) ==
  LET at    == EndOf(Append(segs, plan.added), q.part)
      class == IF q.control THEN [class |-> "admit", off |-> -1]
               ELSE Classify(ProducerTail(segs, plan.added, q.part, q.pid), q.epoch, q.base)
  IN  CASE class.class = "admit" ->
             [added |-> Append(plan.added, EntryAt(q, at)), out |-> Append(plan.out, Answer("ok", at))]
        [] class.class = "duplicate" ->
             [added |-> plan.added, out |-> Append(plan.out, Answer("ok", class.off))]
        [] OTHER ->
             [added |-> plan.added, out |-> Append(plan.out, Answer(class.class, -1))]

Plan(segs, reqs) ==
  LET plan[k \in 0..Len(reqs)] ==
        IF k = 0 THEN [added |-> <<>>, out |-> <<>>] ELSE PlanStep(segs, plan[k - 1], reqs[k])
  IN  plan[Len(reqs)]

NoFlush == [pc |-> "idle", reqs |-> <<>>, candidate |-> 0, added |-> <<>>, out |-> <<>>]

LogInit ==
  /\ segments = <<>>
  /\ folded = [r \in Replicas |-> 0]
  /\ parked = [r \in Replicas |-> <<>>]
  /\ flush = [r \in Replicas |-> NoFlush]
  /\ late = {}

\* admit_prefix_coalesced: the batch is parked with its ack channel.
Park(r, q) == parked' = [parked EXCEPT ![r] = Append(@, q)]

\* The window is taken for a flush.
TakeWindow(r) ==
  /\ flush[r].pc = "idle" /\ parked[r] # <<>>
  /\ flush' = [flush EXCEPT ![r] = [NoFlush EXCEPT !.pc = "attempt", !.reqs = parked[r]]]
  /\ parked' = [parked EXCEPT ![r] = <<>>]
  /\ UNCHANGED <<segments, folded, late>>

\* Mutant: the first attempt trusts the index as it is.
FoldToCached(r) ==
  IF flush[r].pc = "retry" THEN {flush[r].candidate + 1, Len(segments)} ELSE {folded[r]}

\* How far an attempt folds: the first one refreshes the whole index; a retry after a lost create
\* folds the winner's footer, and falls back to the refresh when that read does not land.
FoldTo(r) ==
  IF flush[r].pc = "retry" THEN {flush[r].candidate + 1, Len(segments)} ELSE {Len(segments)}

\* An attempt that has something to append goes on to the create at the folded tail.
Attempt(r) ==
  /\ flush[r].pc \in {"attempt", "retry"}
  /\ \E upto \in FoldTo(r) :
       LET plan == Plan(SubSeq(segments, 1, upto), flush[r].reqs)
       IN  /\ plan.added # <<>>
           /\ folded' = [folded EXCEPT ![r] = upto]
           /\ flush' = [flush EXCEPT ![r].pc = "put", ![r].candidate = upto,
                                     ![r].added = plan.added, ![r].out = plan.out]
  /\ UNCHANGED <<segments, parked, late>>

\* Every batch a duplicate or refused: `out` is answered without a write.
AttemptEmpty(r, out) ==
  /\ flush[r].pc \in {"attempt", "retry"}
  /\ \E upto \in FoldTo(r) :
       LET plan == Plan(SubSeq(segments, 1, upto), flush[r].reqs)
       IN  /\ plan.added = <<>> /\ out = plan.out
           /\ folded' = [folded EXCEPT ![r] = upto]
  /\ flush' = [flush EXCEPT ![r] = NoFlush]
  /\ UNCHANGED <<segments, parked, late>>

Free(k) == Len(segments) = k

\* SegmentCreate::Won, the linearization point; the window's requests get their outcomes.
PutWon(r, out) ==
  /\ flush[r].pc = "put" /\ Free(flush[r].candidate)
  /\ out = flush[r].out
  /\ segments' = Append(segments, flush[r].added)
  /\ folded' = [folded EXCEPT ![r] = flush[r].candidate + 1]
  /\ flush' = [flush EXCEPT ![r] = NoFlush]
  /\ UNCHANGED <<parked, late>>

\* SegmentCreate::Lost: a peer holds the candidate.
PutLost(r) ==
  /\ flush[r].pc = "put" /\ ~Free(flush[r].candidate)
  /\ flush' = [flush EXCEPT ![r].pc = "retry"]
  /\ UNCHANGED <<segments, folded, parked, late>>

Failed(reqs) == [k \in DOMAIN reqs |-> Answer("storage", -1)]

\* SegmentCreate::Failed: the PUT answered an error and the probe of the candidate found nothing or
\* failed too.  The object may be there, may never be, or may still land later.
PutFailed(r, out) ==
  /\ flush[r].pc = "put" /\ out = Failed(flush[r].reqs)
  /\ \/ /\ Free(flush[r].candidate)
        /\ segments' = Append(segments, flush[r].added)
        /\ late' = late
     \/ /\ late' = late \cup {[candidate |-> flush[r].candidate, added |-> flush[r].added]}
        /\ UNCHANGED segments
     \/ UNCHANGED <<segments, late>>
  /\ flush' = [flush EXCEPT ![r] = NoFlush]
  /\ UNCHANGED <<folded, parked>>

\* A PUT its writer gave up on reaches the store: it is create-only like any other.
LatePut ==
  \E z \in late :
    /\ late' = late \ {z}
    /\ segments' = IF Free(z.candidate) THEN Append(segments, z.added) ELSE segments
    /\ UNCHANGED <<folded, parked, flush>>

\* The process stops: what it had parked or was flushing is gone, a PUT on the wire may still land.
CrashLog(r) ==
  /\ \/ late' = late
     \/ /\ flush[r].pc = "put"
        /\ late' = late \cup {[candidate |-> flush[r].candidate, added |-> flush[r].added]}
  /\ parked' = [parked EXCEPT ![r] = <<>>]
  /\ flush' = [flush EXCEPT ![r] = NoFlush]
  /\ folded' = [folded EXCEPT ![r] = 0]
  /\ UNCHANGED segments

-----------------------------------------------------------------------------
(* The log as its readers see it. *)

Stored == Positions(segments)
Entry(x) == At(segments, x)
=============================================================================
