------------------------------ MODULE ServedLog ------------------------------
(* The read path of one prefix against its maintenance, one request to the object store per step.

   Segments hold one run of offsets of each sub-stream they carry.  Brokers cache the footers (the
   prefix index), the sequence floor, the watermark objects and the high-watermark hints, each with its
   own way of going stale.  Consumers fetch and reset through a broker; maintainers expire, merge, rewrite
   and certify.  Appends are taken as SegmentLog shows them to be: a new name, the next offsets. *)
EXTENDS Integers, Sequences, FiniteSets, SequencesExt, FiniteSetsExt

CONSTANTS Replica, Substream, Nil,
          Fetcher,      \* consumers
          Maintainer,   \* maintenance loops
          Reads,        \* the sub-stream of each consumer
          Scenarios,    \* initial logs, with how often each kind of event may happen
          ProbeWindow, PageSize, MaxRelists, MaxAttempts,
          Preempt       \* another call of a broker may run between two critical sections, not only at a request

VARIABLES obj,      \* every segment ever created, by name: its entries and the flushes it carries
          live,     \* the names that exist
          floor,    \* seq-floor.json
          wm,       \* watermark.json of each sub-stream
          lease,    \* the broker that holds the compaction lease
          aged,     \* the flushes whose newest record is past the retention threshold
          doomed,   \* history: the flushes some expiry has taken up as past the threshold
          mem,      \* what each broker remembers
          rf,       \* the refresh of the prefix index under way at each broker
          pr,       \* the call each consumer or maintenance loop is in, and where
          pos,      \* the position of each consumer, -1 when it has to ask for the start of the log
          budget    \* events left

store == <<obj, live, floor, wm, lease>>
vars == <<obj, live, floor, wm, lease, aged, doomed, mem, rf, pr, pos, budget>>

Proc == Fetcher \cup Maintainer
Names == 1..Len(obj)
NoSpan == [lo |-> 0, hi |-> 0]
Has(s, x) == obj[s].ent[x].lo < obj[s].ent[x].hi
Covers(s, x, o) == obj[s].ent[x].lo <= o /\ o < obj[s].ent[x].hi
Ends(S, x) == {obj[s].ent[x].hi : s \in {t \in S : Has(t, x)}}
MaxOr(S, d) == IF S = {} THEN d ELSE Max(S)

\* The end of a sub-stream's log: what the next append is assigned.
End(x) == Max(Ends(Names, x) \cup {wm[x].high})

----------------------------------------------------------------------------
(* The broker's memory and the views it derives from it. *)

ColdMem == [idx |-> {}, opaque |-> {}, stamp |-> "none", reconciled |-> FALSE, seqFloor |-> -1,
            hint |-> [x \in Substream |-> [next |-> 0, fresh |-> FALSE]],
            coalesced |-> [x \in Substream |-> [floor |-> -1, high |-> 0, end |-> 0, at |-> -1]],
            truncate |-> [x \in Substream |-> -1]]

NoRefresh == [by |-> Nil, pc |-> "none", q |-> 0, after |-> 0, listed |-> {}, pass |-> {},
              pending |-> {}, vanished |-> FALSE, relists |-> 0, reconcile |-> FALSE, whole |-> FALSE]

Idle == [pc |-> "idle", k |-> "idle", force |-> FALSE, host |-> Nil, kind |-> "none", stage |-> "none",
         o |-> 0, at |-> 0, next |-> 0, hw |-> 0, tail |-> 0, floor |-> 0, attempts |-> 0,
         plan |-> <<>>, got |-> FALSE, sel |-> {}, todo |-> {}, out |-> <<>>]

ResolvedMax(m) == MaxOr(m.idx \cup m.opaque, 0)
ReconcileDue(m) == ~m.reconciled /\ m.idx \cup m.opaque # {}
SubstreamTail(m, x) == MaxOr(Ends(m.idx, x), 0)

\* An entry whose head and tail are both held by entries that outrank it serves nothing.
TailOutranked(later, s, x, from) ==
  \A o \in from..(obj[s].ent[x].hi - 1) : \E t \in later : t > s /\ Covers(t, x, o)

\* Base order, the higher name first on a tie; what is covered already is skipped, a tail is clipped.
Fence(x, acc, s) ==
  LET e == obj[s].ent[x] IN
  IF \/ e.hi <= acc.covered
     \/ /\ e.lo < acc.covered
        /\ acc.top > s
        /\ TailOutranked(acc.rest \ {s}, s, x, acc.covered)
  THEN [acc EXCEPT !.rest = @ \ {s}]
  ELSE [covered |-> e.hi, top |-> s, rest |-> acc.rest \ {s},
        out |-> Append(acc.out, [seq |-> s, base |-> e.lo, from |-> Max({e.lo, acc.covered}), hi |-> e.hi])]

Fenced(m, x) ==
  LET S == {s \in m.idx : Has(s, x)}
      Before(s, t) == \/ obj[s].ent[x].lo < obj[t].ent[x].lo
                      \/ obj[s].ent[x].lo = obj[t].ent[x].lo /\ s > t
      F(acc, s) == Fence(x, acc, s)
  IN FoldLeft(F, [covered |-> -1, top |-> 0, rest |-> S, out |-> <<>>], SetToSortSeq(S, Before)).out

\* A prune or a listing takes tail knowledge away: the certified floor goes with it.
IndexPrune(m, S) == [m EXCEPT !.idx = @ \ S, !.seqFloor = -1]
\* Mutant: a 404 prunes the one entry and leaves the index fresh.
IndexInvalidateNever(m) == m

IndexInvalidate(m) == [m EXCEPT !.stamp = "none", !.reconciled = FALSE]
IndexInsert(m, S) == [m EXCEPT !.idx = @ \cup S, !.stamp = "recent"]
\* The hint is as old as the index it comes from; an index without a stamp counts as seen now.
MarkListed(m, x, high, recent) == [m EXCEPT !.hint[x] = [next |-> Max({@.next, high}), fresh |-> recent]]
ForgetHints(m, X) ==
  [m EXCEPT !.hint = [x \in Substream |-> IF x \in X THEN ColdMem.hint[x] ELSE @[x]],
            !.coalesced = [x \in Substream |-> IF x \in X THEN ColdMem.coalesced[x] ELSE @[x]]]

----------------------------------------------------------------------------
\* A broker that has just resolved the whole log.
WarmMem == [ColdMem EXCEPT !.idx = Names, !.stamp = "recent", !.reconciled = TRUE, !.seqFloor = floor,
              !.hint = [x \in Substream |-> [next |-> End(x), fresh |-> End(x) > 0]],
              !.coalesced = [x \in Substream |-> [floor |-> floor, high |-> wm[x].high, end |-> wm[x].end, at |-> wm[x].at]],
              !.truncate = [x \in Substream |-> wm[x].trunc]]

Init ==
  \E s \in Scenarios :
    /\ obj = s.obj /\ live = 1..Len(s.obj) /\ wm = s.wm /\ budget = s.budget
    /\ floor = 0 /\ lease = Nil /\ aged = s.aged /\ doomed = {}
    /\ mem = [r \in Replica |-> IF s.warm THEN WarmMem ELSE ColdMem]
    /\ rf = [r \in Replica |-> NoRefresh]
    /\ pr = [p \in Proc |-> Idle]
    /\ pos = [p \in Fetcher |-> s.pos]

\* An event of a kind that may happen so many times more, -1 without bound.
Spend(b) == budget[b] # 0 /\ budget' = [budget EXCEPT ![b] = IF @ > 0 THEN @ - 1 ELSE @]
Goto(p, c) == pr' = [pr EXCEPT ![p].pc = c]
Refreshing(p, k) == pr' = [pr EXCEPT ![p].pc = "refresh", ![p].k = k]
M(p) == mem[pr[p].host]
Remember(p, m) == mem' = [mem EXCEPT ![pr[p].host] = m]
\* The caller of refresh_prefix_index goes on.
Continue(p) == pr' = [pr EXCEPT ![p].pc = pr[p].k, ![p].k = "idle", ![p].force = FALSE]
Return(p) == pr' = [pr EXCEPT ![p] = Idle]

----------------------------------------------------------------------------
(* refresh_prefix_index: probe the tail, list, read footers, reconcile. *)

\* Mutant: a forced refresh is content with a fresh index.
CurrentUnforced(p) == M(p).stamp = "recent" /\ ~ReconcileDue(M(p))

Current(p) == ~pr[p].force /\ M(p).stamp = "recent" /\ ~ReconcileDue(M(p))

RefreshSkipped(p) ==
  /\ pr[p].pc = "refresh" /\ Current(p)
  /\ Continue(p)
  /\ UNCHANGED <<store, aged, doomed, mem, rf, pos, budget>>

RefreshBegins(p) ==
  LET m == M(p)
      whole == ReconcileDue(m) \/ ResolvedMax(m) = 0
  IN /\ pr[p].pc = "refresh" /\ ~Current(p) /\ rf[pr[p].host].by = Nil
     /\ rf' = [rf EXCEPT ![pr[p].host] =
          [NoRefresh EXCEPT !.by = p, !.pc = IF whole THEN "list" ELSE "probe",
             !.q = IF whole THEN 0 ELSE ResolvedMax(m) + 1, !.after = IF whole THEN 0 ELSE ResolvedMax(m),
             !.whole = whole, !.reconcile = ReconcileDue(m)]]
     /\ Goto(p, "wait")
     /\ UNCHANGED <<store, aged, doomed, mem, pos, budget>>

Finish(r, m) ==
  /\ mem' = [mem EXCEPT ![r] = m]
  /\ Continue(rf[r].by)
  /\ rf' = [rf EXCEPT ![r] = NoRefresh]

Probe(r) ==
  LET q == rf[r].q IN
  /\ rf[r].pc = "probe"
  /\ IF q \in live
     THEN /\ mem' = [mem EXCEPT ![r].idx = @ \cup {q}]
          /\ rf' = IF q = rf[r].after + ProbeWindow THEN [rf EXCEPT ![r].q = 0, ![r].pc = "list"]
                   ELSE [rf EXCEPT ![r].q = q + 1]
     ELSE rf' = [rf EXCEPT ![r].pc = "floor"] /\ UNCHANGED mem
  /\ UNCHANGED <<store, aged, doomed, pr, pos, budget>>

\* Absence proves the tail only if the floor, read after it, has not jumped the name.
ProbeFloor(r) ==
  /\ rf[r].pc = "floor"
  /\ IF floor <= rf[r].q
     THEN Finish(r, [mem[r] EXCEPT !.seqFloor = floor, !.stamp = "recent"])
     ELSE /\ rf' = [rf EXCEPT ![r].q = 0, ![r].pc = "list"]
          /\ mem' = [mem EXCEPT ![r].seqFloor = floor]
          /\ UNCHANGED pr
  /\ UNCHANGED <<store, aged, doomed, pos, budget>>

\* One page of the listing; the last one decides which footers are read.
Page(S) == {s \in S : Cardinality({t \in S : t <= s}) <= PageSize}

List(r) ==
  LET f == rf[r]
      page == Page({s \in live : s > MaxOr(f.pass, f.after)})
      pass == f.pass \cup page
  IN /\ f.pc = "list"
     /\ rf' = IF Cardinality(page) = PageSize THEN [rf EXCEPT ![r].pass = pass]
              ELSE [rf EXCEPT ![r].pass = pass, ![r].pc = "footers", ![r].vanished = FALSE,
                              ![r].listed = @ \cup pass,
                              ![r].pending = pass \ (mem[r].idx \cup mem[r].opaque)]
     /\ UNCHANGED <<store, aged, doomed, mem, pr, pos, budget>>

Footer(r) ==
  /\ rf[r].pc = "footers" /\ rf[r].pending # {}
  /\ LET s == Min(rf[r].pending) IN
     /\ rf' = [rf EXCEPT ![r].pending = @ \ {s}, ![r].vanished = @ \/ s \notin live]
     /\ mem' = IF s \in live THEN [mem EXCEPT ![r].idx = @ \cup {s}] ELSE [mem EXCEPT ![r].opaque = @ \cup {s}]
  /\ UNCHANGED <<store, aged, doomed, pr, pos, budget>>

\* Below the highest name listed the listing is the truth; above it the index is kept.
Reconciled(m, f) ==
  LET Keep(S) == IF f.reconcile /\ f.listed # {} THEN {s \in S : s >= Max(f.listed) \/ s \in f.listed} ELSE S
  IN [m EXCEPT !.idx = Keep(@), !.opaque = Keep(@), !.reconciled = @ \/ f.whole,
               !.stamp = IF f.vanished THEN "none" ELSE "recent", !.seqFloor = -1]

\* A footer that vanished may have been merged above the listing: list again past its maximum.
Settle(r) ==
  LET f == rf[r] IN
  /\ f.pc = "footers" /\ f.pending = {}
  /\ IF f.vanished /\ f.relists < MaxRelists
     THEN /\ rf' = [rf EXCEPT ![r].pc = "list", ![r].relists = @ + 1, ![r].pass = {},
                              ![r].after = MaxOr(f.pass, f.after)]
          /\ UNCHANGED <<mem, pr>>
     ELSE Finish(r, Reconciled(mem[r], f))
  /\ UNCHANGED <<store, aged, doomed, pos, budget>>

----------------------------------------------------------------------------
(* certified_seq_floor: a floor read at least as recently as the index lost anything. *)

Certify(p) ==
  LET known == M(p).seqFloor >= 0
      f == IF known THEN M(p).seqFloor ELSE floor
  IN /\ pr[p].pc = "certify" /\ (known \/ rf[pr[p].host].by = Nil)
     /\ Remember(p, [M(p) EXCEPT !.seqFloor = f])
     /\ pr' = [pr EXCEPT ![p].floor = f, ![p].pc = pr[p].k, ![p].k = "idle"]
     /\ UNCHANGED <<store, aged, doomed, rf, pos, budget>>

(* high_watermark *)

\* What asked for the log end goes on with it.
HighKnown(p, h) ==
  pr' = [pr EXCEPT ![p] = [@ EXCEPT !.hw = h, !.tail = 0, !.floor = 0,
           !.pc = CASE pr[p].stage = "read" -> "clamp" [] pr[p].stage = "reset" -> "reset" [] OTHER -> "refresh",
           !.k = IF pr[p].stage \in {"read", "reset"} THEN "idle" ELSE "start"]]

High(p) ==
  LET h == M(p).hint[Reads[p]] IN
  /\ pr[p].pc = "high"
  /\ IF h.fresh THEN HighKnown(p, h.next) ELSE Refreshing(p, "tail")
  /\ UNCHANGED <<store, aged, doomed, mem, rf, pos, budget>>

HighTail(p) ==
  /\ pr[p].pc = "tail"
  /\ pr' = [pr EXCEPT ![p].tail = SubstreamTail(M(p), Reads[p]), ![p].pc = "certify", ![p].k = "coalesced"]
  /\ UNCHANGED <<store, aged, doomed, mem, rf, pos, budget>>

\* The cached watermark stands in for the object while the floor it was read under is the certified one.
HighFromIndex(p) ==
  LET x == Reads[p]
      c == M(p).coalesced[x]
      h == Max({pr[p].tail, c.high, M(p).hint[x].next})
  IN /\ pr[p].pc = "coalesced"
     /\ IF c.floor = pr[p].floor
        THEN Remember(p, MarkListed(M(p), x, h, M(p).stamp # "old")) /\ HighKnown(p, h)
        ELSE pr' = [pr EXCEPT ![p].pc = "certify", ![p].k = "bounds"] /\ UNCHANGED mem
     /\ UNCHANGED <<store, aged, doomed, rf, pos, budget>>

\* One GET of the watermark, cached under the floor read before it.
HighBounds(p) ==
  LET x == Reads[p] IN
  /\ pr[p].pc = "bounds"
  /\ Remember(p, [M(p) EXCEPT !.truncate[x] = wm[x].trunc,
       !.coalesced[x] = [floor |-> pr[p].floor, high |-> wm[x].high, end |-> wm[x].end, at |-> wm[x].at]])
  /\ pr' = [pr EXCEPT ![p].tail = wm[x].high, ![p].pc = "refresh", ![p].k = "recover"]
  /\ UNCHANGED <<store, aged, doomed, rf, pos, budget>>

\* recover_substream_next_offset
HighRecovered(p) ==
  LET x == Reads[p]
      h == Max({SubstreamTail(M(p), x), pr[p].tail, M(p).hint[x].next})
  IN /\ pr[p].pc = "recover"
     /\ Remember(p, MarkListed(M(p), x, h, M(p).stamp # "old"))
     /\ HighKnown(p, h)
     /\ UNCHANGED <<store, aged, doomed, rf, pos, budget>>

----------------------------------------------------------------------------
(* Fetch, at the broker the consumer happens to be connected to *)

StartFetch(p, r) ==
  /\ pr[p].pc = "idle" /\ pos[p] >= 0 /\ Spend("poll")
  /\ pr' = [pr EXCEPT ![p] = [Idle EXCEPT !.pc = "high", !.host = r, !.kind = "fetch", !.stage = "bounds",
                                          !.o = pos[p], !.next = pos[p]]]
  /\ UNCHANGED <<store, aged, doomed, mem, rf, pos>>

\* offset_stage_at: an empty log starts at its end.
LogStart(p) ==
  LET F == Fenced(M(p), Reads[p]) IN
  Max({IF F = <<>> THEN pr[p].hw ELSE Head(F).base, M(p).truncate[Reads[p]]})
Outside(p) == pr[p].o < LogStart(p) \/ pr[p].o > pr[p].hw

\* A position outside the log as this broker sees it is refused only after a forced refresh.
Start(p) ==
  /\ pr[p].pc = "start"
  /\ \/ /\ pr[p].stage = "answer"
        /\ pos' = [pos EXCEPT ![p] = pr[p].next]
        /\ Return(p)
     \/ /\ pr[p].stage = "bounds" /\ Outside(p)
        /\ pr' = [pr EXCEPT ![p].stage = "confirm", ![p].hw = 0, ![p].force = TRUE, ![p].pc = "refresh", ![p].k = "confirm"]
        /\ UNCHANGED pos
     \/ /\ pr[p].stage = "confirm" /\ Outside(p)
        /\ pos' = [pos EXCEPT ![p] = -1]
        /\ Return(p)
     \/ /\ pr[p].stage # "answer" /\ ~Outside(p)
        /\ pr' = [pr EXCEPT ![p].stage = "read", ![p].hw = 0, ![p].pc = "high"]
        /\ UNCHANGED pos
  /\ UNCHANGED <<store, aged, doomed, mem, rf, budget>>

\* offset_stage_refreshed folds the listed tail into the hint, stamped now.
Confirm(p) ==
  LET x == Reads[p]
      t == SubstreamTail(M(p), x)
  IN /\ pr[p].pc = "confirm"
     /\ IF t > 0 THEN Remember(p, MarkListed(M(p), x, t, TRUE)) ELSE UNCHANGED mem
     /\ Goto(p, "high")
     /\ UNCHANGED <<store, aged, doomed, rf, pos, budget>>

\* truncate_floor: from memory, or one GET of the watermark that is kept.
KnownFloor(p) ==
  LET t == M(p).truncate[Reads[p]] IN IF t >= 0 THEN t ELSE wm[Reads[p]].trunc

Answer(p, next) ==
  pr' = [pr EXCEPT ![p] = [Idle EXCEPT !.host = pr[p].host, !.kind = "fetch", !.stage = "answer",
                                       !.pc = "high", !.next = next]]

Clamp(p) ==
  LET o == Max({pr[p].o, KnownFloor(p)}) IN
  /\ pr[p].pc = "clamp"
  /\ IF pr[p].o < pr[p].hw
     THEN /\ Remember(p, [M(p) EXCEPT !.truncate[Reads[p]] = KnownFloor(p)])
          /\ pr' = [pr EXCEPT ![p].o = o, ![p].at = o, ![p].attempts = 0, ![p].pc = "refresh", ![p].k = "plan"]
     ELSE Answer(p, pr[p].next) /\ UNCHANGED mem
  /\ UNCHANGED <<store, aged, doomed, rf, pos, budget>>

Plan(p) ==
  LET Wanted(e) == e.hi > pr[p].o /\ e.base < pr[p].hw
      plan == SelectSeq(Fenced(M(p), Reads[p]), Wanted)
  IN /\ pr[p].pc = "plan"
     /\ pr' = [pr EXCEPT ![p].plan = plan, ![p].at = pr[p].o, ![p].got = FALSE,
                         ![p].pc = IF plan = <<>> THEN "refresh" ELSE "read",
                         ![p].k = IF plan = <<>> THEN "region" ELSE "idle"]
     /\ UNCHANGED <<store, aged, doomed, mem, rf, pos, budget>>

\* What was read is the answer; the request goes on from there or is full.
Served(p, at) ==
  \/ Answer(p, at)
  \/ pr' = [pr EXCEPT ![p] = [Idle EXCEPT !.host = pr[p].host, !.kind = "fetch", !.stage = "read", !.pc = "high",
                                          !.o = at, !.next = at]]

\* A region is read whole unless the byte budget ends inside it.
Read(p) ==
  LET e == Head(pr[p].plan) IN
  /\ pr[p].pc = "read" /\ e.seq \in live
  /\ \/ /\ Len(pr[p].plan) > 1
        /\ pr' = [pr EXCEPT ![p].plan = Tail(@), ![p].at = e.hi, ![p].got = TRUE]
     \/ \E at \in (Max({e.from, pr[p].at}) + 1)..e.hi : Served(p, at)
  /\ UNCHANGED <<store, aged, doomed, mem, rf, pos, budget>>

\* max_wait is over before the next region arrives.
Deadline(p) ==
  /\ pr[p].pc = "read" /\ Spend("deadline")
  /\ IF pr[p].got THEN Served(p, pr[p].at) ELSE Refreshing(p, "region")
  /\ UNCHANGED <<store, aged, doomed, mem, rf, pos>>

Vanished(p) ==
  LET s == Head(pr[p].plan).seq IN
  /\ pr[p].pc = "read" /\ s \notin live
  /\ Remember(p, IndexPrune(M(p), {s}))
  /\ pr' = [pr EXCEPT ![p].attempts = @ + 1, ![p].plan = <<>>, ![p].got = FALSE, ![p].pc = "invalidate",
                      ![p].k = IF pr[p].attempts + 1 < MaxAttempts THEN "plan" ELSE "region"]
  /\ UNCHANGED <<store, aged, doomed, rf, pos, budget>>

Invalidate(p) ==
  /\ pr[p].pc = "invalidate"
  /\ Remember(p, IndexInvalidate(M(p)))
  /\ IF pr[p].kind = "fetch" THEN Goto(p, "refresh") ELSE Return(p)
  /\ UNCHANGED <<store, aged, doomed, rf, pos, budget>>

\* The log holds no segment of the sub-stream, or an expiry has certified the offset dead.
EmptyLog(p) == Fenced(M(p), Reads[p]) = <<>>
DeadGap(p) ==
  LET c == M(p).coalesced[Reads[p]] IN
  c.floor = pr[p].floor /\ c.at = c.high /\ c.end <= pr[p].o /\ pr[p].o < c.at

Region(p) ==
  /\ pr[p].pc = "region"
  /\ IF EmptyLog(p) THEN Answer(p, -1) ELSE pr' = [pr EXCEPT ![p].pc = "certify", ![p].k = "gap"]
  /\ UNCHANGED <<store, aged, doomed, mem, rf, pos, budget>>

Gap(p) ==
  /\ pr[p].pc = "gap"
  /\ Answer(p, IF DeadGap(p) THEN -1 ELSE pr[p].next)
  /\ UNCHANGED <<store, aged, doomed, mem, rf, pos, budget>>

(* ListOffsets EARLIEST, which OFFSET_OUT_OF_RANGE makes the consumer ask for. *)

StartReset(p, r) ==
  /\ pr[p].pc = "idle" /\ pos[p] = -1
  /\ pr' = [pr EXCEPT ![p] = [Idle EXCEPT !.pc = "truncate", !.host = r, !.kind = "earliest", !.stage = "reset"]]
  /\ UNCHANGED <<store, aged, doomed, mem, rf, pos, budget>>

EarliestFloor(p) ==
  /\ pr[p].pc = "truncate"
  /\ Remember(p, [M(p) EXCEPT !.truncate[Reads[p]] = KnownFloor(p)])
  /\ pr' = [pr EXCEPT ![p].o = KnownFloor(p), ![p].pc = "refresh", ![p].k = "earliest"]
  /\ UNCHANGED <<store, aged, doomed, rf, pos, budget>>

\* Mutant: the oldest segment is the one of the lowest name.
EarliestByName(p) ==
  LET S == {s \in M(p).idx : Has(s, Reads[p])} IN
  /\ pr[p].pc = "earliest"
  /\ pr' = IF S = {} THEN [pr EXCEPT ![p].pc = "high"]
           ELSE [pr EXCEPT ![p].hw = obj[Min(S)].ent[Reads[p]].lo, ![p].pc = "reset"]
  /\ UNCHANGED <<store, aged, doomed, mem, rf, pos, budget>>

Earliest(p) ==
  LET F == Fenced(M(p), Reads[p]) IN
  /\ pr[p].pc = "earliest"
  /\ pr' = IF F = <<>> THEN [pr EXCEPT ![p].pc = "high"]
           ELSE [pr EXCEPT ![p].hw = Head(F).base, ![p].pc = "reset"]
  /\ UNCHANGED <<store, aged, doomed, mem, rf, pos, budget>>

Reset(p) ==
  /\ pr[p].pc = "reset"
  /\ pos' = [pos EXCEPT ![p] = Max({pr[p].hw, pr[p].o})]
  /\ Return(p)
  /\ UNCHANGED <<store, aged, doomed, mem, rf, budget>>

----------------------------------------------------------------------------
(* Maintenance of the prefix, by whichever broker's loop gets to it *)

Elsewhere(p, r) == \A q \in Maintainer \ {p} : pr[q].host # r

StartPass(p, r) ==
  /\ pr[p].pc = "idle" /\ Elsewhere(p, r)
  /\ \E kind \in {"expire", "merge", "rewrite"} :
       /\ Spend(kind)
       /\ pr' = [pr EXCEPT ![p] = [Idle EXCEPT !.kind = kind, !.host = r, !.pc = "refresh", !.k = "select"]]
  /\ UNCHANGED <<store, aged, doomed, mem, rf, pos>>

\* Wholly below the truncation floors this broker knows.
Truncated(m, s) == \A x \in Substream : Has(s, x) => m.truncate[x] >= obj[s].ent[x].hi

\* An aged segment goes only while no kept one serves lower offsets of a sub-stream it serves.
Blocked(m, D, s) ==
  \E x \in Substream :
    LET F == Fenced(m, x) IN
    \E i, j \in DOMAIN F : i < j /\ F[j].seq = s /\ F[i].seq \notin D

\* Mutant: the oldest record of a segment decides, not the newest.
ExpirableOldest(m) ==
  LET old == {s \in m.idx : obj[s].of \cap aged # {}}
  IN UNION {D \in SUBSET old : \A s \in D : ~Blocked(m, D, s)}

Expirable(m) ==
  LET cut == {s \in m.idx : Truncated(m, s)}
      old == {s \in m.idx : obj[s].of \subseteq aged}
  IN UNION {D \in SUBSET (cut \cup old) : cut \subseteq D /\ \A s \in D \ cut : ~Blocked(m, D, s)}

\* A gap in the run's offsets that segments outside it serve whole.
Straddles(m, S) ==
  \E x \in Substream :
    LET lows == {obj[s].ent[x].lo : s \in {t \in S : Has(t, x)}}
        gap == {o \in 0..MaxOr(lows, 0) : (\E l \in lows : l <= o) /\ \A s \in S : ~Covers(s, x, o)}
        outside == {e \in ToSet(Fenced(m, x)) : e.seq \notin S}
    IN gap # {} /\ \E o \in gap : \A q \in gap : (\A n \in Min({o, q})..Max({o, q}) : n \in gap) =>
         \E e \in outside : e.from <= q /\ q < e.hi

\* A run of neighbouring names.  Sizes decide where it starts and ends: any of them may be chosen.
Run(m, S) ==
  /\ Cardinality(S) >= 2
  /\ \A s \in m.idx : Min(S) <= s /\ s <= Max(S) => s \in S
  /\ ~Straddles(m, S)

Selections(kind, m) ==
  CASE kind = "expire" -> {Expirable(m)}
    [] kind = "merge" -> {{}} \cup {S \in SUBSET m.idx : Run(m, S)}
    [] OTHER -> {m.idx}

Select(p) ==
  /\ pr[p].pc = "select"
  /\ \E S \in Selections(pr[p].kind, M(p)) :
       IF S = {} THEN Return(p) ELSE pr' = [pr EXCEPT ![p].sel = S, ![p].pc = "lease"]
  /\ UNCHANGED <<store, aged, doomed, mem, rf, pos, budget>>

Losing(S) == {x \in Substream : \E s \in S : Has(s, x)}

AcquireLease(p) ==
  /\ pr[p].pc = "lease"
  /\ IF lease \in {Nil, pr[p].host}
     THEN /\ lease' = pr[p].host
          /\ pr' = CASE pr[p].kind = "expire" -> [pr EXCEPT ![p].pc = "watermarks", ![p].todo = Losing(pr[p].sel)]
                     [] pr[p].kind = "certify" -> [pr EXCEPT ![p].pc = "refresh", ![p].k = "gaps", ![p].force = TRUE]
                     [] OTHER -> [pr EXCEPT ![p].pc = "inputs"]
          /\ doomed' = doomed \cup (IF pr[p].kind = "expire" THEN aged \cap UNION {obj[s].of : s \in pr[p].sel} ELSE {})
     ELSE Return(p) /\ UNCHANGED <<lease, doomed>>
  /\ UNCHANGED <<obj, live, floor, wm, aged, mem, rf, pos, budget>>

\* The tail about to go becomes the durable end, with what stays servable below it.
ExpireWatermark(p) ==
  /\ pr[p].pc = "watermarks"
  /\ LET x == CHOOSE y \in pr[p].todo : TRUE
         F == ToSet(Fenced(M(p), x))
         kept == {e.hi : e \in {f \in F : f.seq \notin pr[p].sel}}
         high == Max({wm[x].high} \cup {e.hi : e \in F})
         left == pr[p].todo \ {x}
     IN /\ wm' = IF F = {} THEN wm
                 ELSE [wm EXCEPT ![x] = [@ EXCEPT !.high = high, !.end = MaxOr(kept, high), !.at = high]]
        /\ Remember(p, [M(p) EXCEPT !.truncate[x] = wm[x].trunc])
        /\ pr' = [pr EXCEPT ![p].todo = left, ![p].pc = IF left = {} THEN "raise" ELSE "watermarks"]
  /\ UNCHANGED <<obj, live, floor, lease, aged, doomed, rf, pos, budget>>

\* Mutant: the floor is raised one name too far.
RaiseFloorPast(p) ==
  LET f == Max(pr[p].sel) + 2 IN
  /\ pr[p].pc = "raise"
  /\ floor' = Max({floor, f})
  /\ IF floor < f THEN Remember(p, [M(p) EXCEPT !.seqFloor = -1]) ELSE UNCHANGED mem
  /\ pr' = [pr EXCEPT ![p].pc = "delete", ![p].todo = pr[p].sel]
  /\ UNCHANGED <<obj, live, wm, lease, aged, doomed, rf, pos, budget>>

\* retire_segments: the floor, the deletes in any order, the prune; an expiry forgets the hints.
RaiseFloor(p) ==
  LET f == Max(pr[p].sel) + 1 IN
  /\ pr[p].pc = "raise"
  /\ floor' = Max({floor, f})
  /\ IF floor < f THEN Remember(p, [M(p) EXCEPT !.seqFloor = -1]) ELSE UNCHANGED mem
  /\ pr' = [pr EXCEPT ![p].pc = "delete", ![p].todo = pr[p].sel]
  /\ UNCHANGED <<obj, live, wm, lease, aged, doomed, rf, pos, budget>>

Retired(p) ==
  LET m == IndexPrune(M(p), pr[p].sel)
  IN Remember(p, IF pr[p].kind = "expire" THEN ForgetHints(m, Losing(pr[p].sel)) ELSE m)

Delete(p) ==
  /\ pr[p].pc = "delete"
  /\ \E s \in pr[p].todo :
       /\ live' = live \ {s}
       /\ IF pr[p].todo = {s} THEN Retired(p) /\ Return(p)
          ELSE pr' = [pr EXCEPT ![p].todo = @ \ {s}] /\ UNCHANGED mem
  /\ UNCHANGED <<obj, floor, wm, lease, aged, doomed, rf, pos, budget>>

\* The regions of x that the fenced view serves from the segments of S.
Regions(m, S, x) == SelectSeq(Fenced(m, x), LAMBDA e : e.seq \in S)
Tiles(R) == \A i \in DOMAIN R : i > 1 => R[i].from = R[i - 1].hi
\* One segment that carries the regions S serves, or none if others serve all of it.
Carrying(m, S) ==
  LET span(R) == IF R = <<>> THEN NoSpan ELSE [lo |-> R[1].from, hi |-> Last(R).hi]
      of(s) == IF \E x \in Substream : Regions(m, {s}, x) # <<>> THEN obj[s].of ELSE {}
      o == [ent |-> [x \in Substream |-> span(Regions(m, S, x))], of |-> UNION {of(s) : s \in S}]
  IN IF o.of = {} THEN <<>> ELSE <<o>>

\* fetch_segment_objects, then what is to be written: one merged segment, or every rewritten one anew.
Inputs(p) ==
  LET m == M(p)
      gone == pr[p].sel \ live
      Carry(acc, s) == acc \o Carrying(m, {s})
  IN /\ pr[p].pc = "inputs"
     /\ \/ /\ gone # {}
           /\ Remember(p, IndexPrune(m, gone))
           /\ Goto(p, "invalidate")
        \/ /\ gone = {} /\ pr[p].kind = "merge" /\ UNCHANGED mem
           /\ IF \A x \in Substream : Tiles(Regions(m, pr[p].sel, x))
              THEN LET out == Carrying(m, pr[p].sel) IN
                   pr' = [pr EXCEPT ![p].out = out, ![p].pc = IF out = <<>> THEN "raise" ELSE "put"]
              ELSE Return(p)
        \/ /\ gone = {} /\ pr[p].kind = "rewrite" /\ UNCHANGED mem
           /\ \E D \in SUBSET {s \in pr[p].sel : Carrying(m, {s}) # <<>>} :
                IF D = {} THEN Return(p)
                ELSE pr' = [pr EXCEPT ![p].sel = D, ![p].pc = "put",
                                      ![p].out = FoldLeft(Carry, <<>>, SetToSortSeq(D, <))]
     /\ UNCHANGED <<store, aged, doomed, rf, pos, budget>>

\* assign_and_create_segment wins the next name.
Put(p) ==
  LET new == Len(obj) + 1 IN
  /\ pr[p].pc = "put"
  /\ obj' = Append(obj, Head(pr[p].out))
  /\ live' = live \cup {new}
  /\ pr' = [pr EXCEPT ![p].out = Tail(@), ![p].next = new,
                      ![p].pc = IF ResolvedMax(M(p)) + 1 < new THEN "refresh" ELSE "insert",
                      ![p].k = "insert", ![p].force = TRUE]
  /\ UNCHANGED <<floor, wm, lease, aged, doomed, mem, rf, pos, budget>>

\* fold_below_won has listed what lies below the name: the segment may be indexed.
Insert(p) ==
  /\ pr[p].pc = "insert"
  /\ Remember(p, IndexInsert(M(p), {pr[p].next}))
  /\ pr' = [pr EXCEPT ![p].force = FALSE, ![p].pc = IF pr[p].out = <<>> THEN "raise" ELSE "put"]
  /\ UNCHANGED <<store, aged, doomed, rf, pos, budget>>

(* certify_prefix_served_ends, once per process *)

StartCertify(p, r) ==
  /\ pr[p].pc = "idle" /\ Elsewhere(p, r) /\ Spend("certify")
  /\ pr' = [pr EXCEPT ![p] = [Idle EXCEPT !.kind = "certify", !.host = r, !.pc = "lease"]]
  /\ UNCHANGED <<store, aged, doomed, mem, rf, pos>>

CertifyTail(p) ==
  LET left == {x \in Substream \ pr[p].sel : Fenced(M(p), x) # <<>>} IN
  /\ pr[p].pc = "gaps"
  /\ IF left = {} THEN Return(p) /\ UNCHANGED mem
     ELSE LET x == CHOOSE y \in left : TRUE
              t == Last(Fenced(M(p), x)).hi
          IN /\ Remember(p, [M(p) EXCEPT !.truncate[x] = wm[x].trunc])
             /\ pr' = [pr EXCEPT ![p].sel = @ \cup {x}, ![p].todo = {x}, ![p].tail = t, ![p].hw = wm[x].high,
                  ![p].pc = IF wm[x].high <= t \/ (wm[x].at = wm[x].high /\ wm[x].end = t) THEN "gaps" ELSE "certified"]
  /\ UNCHANGED <<store, aged, doomed, rf, pos, budget>>

\* Under the CAS only the floor is compared with what was read; the tail is the one of the listing.
CertifyGap(p) ==
  LET x == CHOOSE y \in pr[p].todo : TRUE IN
  /\ pr[p].pc = "certified"
  /\ IF wm[x].high = pr[p].hw
     THEN /\ wm' = [wm EXCEPT ![x].end = pr[p].tail, ![x].at = pr[p].hw]
          /\ Remember(p, ForgetHints(M(p), {x}))
     ELSE UNCHANGED <<wm, mem>>
  /\ Goto(p, "gaps")
  /\ UNCHANGED <<obj, live, floor, lease, aged, doomed, rf, pos, budget>>

----------------------------------------------------------------------------
(* The rest of the system *)

\* A flush at a broker that has folded every name below its own, or at a broker not modelled (Nil).
AppendSegment(r) ==
  /\ Spend("append")
  /\ \E X \in SUBSET Substream \ {{}} :
       LET new == Len(obj) + 1 IN
       /\ obj' = Append(obj, [ent |-> [x \in Substream |->
                    IF x \in X THEN [lo |-> End(x), hi |-> End(x) + 1] ELSE NoSpan], of |-> {new}])
       /\ live' = live \cup {new}
       /\ IF r = Nil THEN UNCHANGED mem
          ELSE /\ Max({ResolvedMax(mem[r]) + 1, mem[r].seqFloor}) = new
               /\ mem' = [mem EXCEPT ![r] = [IndexInsert(@, {new}) EXCEPT !.hint = [x \in Substream |->
                    IF x \in X THEN [@[x] EXCEPT !.next = Max({@, End(x) + 1})] ELSE @[x]]]]
  /\ UNCHANGED <<floor, wm, lease, aged, doomed, rf, pr, pos>>

\* delete_records_before: the floor only rises, and the broker that served the call knows it.
DeleteRecords(r) ==
  /\ Spend("truncate")
  /\ \E x \in Substream : \E before \in 1..End(x) :
       LET t == Max({wm[x].trunc, before}) IN
       /\ wm' = [wm EXCEPT ![x].trunc = t]
       /\ mem' = [mem EXCEPT ![r].truncate[x] = t]
  /\ UNCHANGED <<obj, live, floor, lease, aged, doomed, rf, pr, pos>>

\* Record timestamps need not follow offsets: any flush may come to lie past the threshold.
Age ==
  /\ Spend("age")
  /\ \E f \in UNION {obj[s].of : s \in live} \ aged : aged' = aged \cup {f}
  /\ UNCHANGED <<store, doomed, mem, rf, pr, pos>>

HintLapses(r) ==
  /\ Spend("lapse")
  /\ \E x \in Substream : mem[r].hint[x].fresh /\ mem' = [mem EXCEPT ![r].hint[x].fresh = FALSE]
  /\ UNCHANGED <<store, aged, doomed, rf, pr, pos>>

IndexLapses(r) ==
  /\ mem[r].stamp = "recent" /\ Spend("lapse")
  /\ mem' = [mem EXCEPT ![r].stamp = "old"]
  /\ UNCHANGED <<store, aged, doomed, rf, pr, pos>>

ReconcileLapses(r) ==
  /\ mem[r].reconciled /\ Spend("reconcile")
  /\ mem' = [mem EXCEPT ![r].reconciled = FALSE]
  /\ UNCHANGED <<store, aged, doomed, rf, pr, pos>>

\* The lease outlasts the pass it was taken for.
LeaseLapses ==
  /\ lease # Nil
  /\ \A p \in Maintainer : pr[p].host = lease =>
       pr[p].pc \in {"select", "lease"} \/ (pr[p].pc \in {"refresh", "wait"} /\ pr[p].k = "select")
  /\ lease' = Nil
  /\ UNCHANGED <<obj, live, floor, wm, aged, doomed, mem, rf, pr, pos, budget>>

\* The calls that wait for nothing: a request, a lock, the next poll.
Running(p) ==
  pr[p].pc \in {"high", "tail", "coalesced", "recover", "start", "confirm", "plan", "invalidate", "region", "gap",
               "earliest", "reset", "select", "insert"}

\* A client gives a call up or a request of it fails: its future is dropped, with the refresh it was driving.
Abandon(p) ==
  /\ pr[p].pc # "idle" /\ ~Running(p) /\ Spend("abandon")
  /\ Return(p)
  /\ rf' = [rf EXCEPT ![pr[p].host] = IF @.by = p THEN NoRefresh ELSE @]
  /\ UNCHANGED <<store, aged, doomed, mem, pos>>

Restart(r) ==
  /\ Spend("restart")
  /\ mem' = [mem EXCEPT ![r] = ColdMem]
  /\ rf' = [rf EXCEPT ![r] = NoRefresh]
  /\ pr' = [p \in Proc |-> IF pr[p].host = r THEN Idle ELSE pr[p]]
  /\ UNCHANGED <<store, aged, doomed, pos>>

----------------------------------------------------------------------------
\* Without preemption a call runs on to its next request before another of its broker does.
Turn(r, S) == Preempt \/ \A q \in Proc \ S : pr[q].host = r => ~Running(q)

RefreshStep(r) == Probe(r) \/ ProbeFloor(r) \/ List(r) \/ Footer(r) \/ Settle(r)
HighStep(p) == High(p) \/ HighTail(p) \/ HighFromIndex(p) \/ HighBounds(p) \/ HighRecovered(p)
FetchStep(p) == Start(p) \/ Confirm(p) \/ Clamp(p) \/ Plan(p) \/ Read(p) \/ Vanished(p) \/ Region(p) \/ Gap(p)
EarliestStep(p) == EarliestFloor(p) \/ Earliest(p) \/ Reset(p)
PassStep(p) == \/ Select(p) \/ AcquireLease(p) \/ ExpireWatermark(p) \/ RaiseFloor(p) \/ Delete(p)
               \/ Inputs(p) \/ Put(p) \/ Insert(p) \/ CertifyTail(p) \/ CertifyGap(p)
CallStep(p) == RefreshSkipped(p) \/ RefreshBegins(p) \/ Certify(p) \/ Invalidate(p)
Step(p) == CallStep(p) \/ (p \in Fetcher /\ (HighStep(p) \/ FetchStep(p) \/ EarliestStep(p)))
                       \/ (p \in Maintainer /\ PassStep(p))

Next ==
  \/ \E r \in Replica :
       /\ Turn(r, {})
       /\ \/ RefreshStep(r) \/ HintLapses(r) \/ IndexLapses(r) \/ ReconcileLapses(r)
          \/ Restart(r) \/ AppendSegment(r) \/ DeleteRecords(r)
          \/ \E p \in Fetcher : StartFetch(p, r) \/ StartReset(p, r)
          \/ \E p \in Maintainer : StartPass(p, r) \/ StartCertify(p, r)
  \/ \E p \in Proc : Turn(pr[p].host, {p}) /\ (Step(p) \/ Deadline(p) \/ Abandon(p))
  \/ AppendSegment(Nil) \/ Age \/ LeaseLapses

Spec == Init /\ [][Next]_vars

----------------------------------------------------------------------------
(* Properties *)

\* Names, spans, floors and positions stay within the log that has been written.
TypeOK ==
  /\ \A s \in Names : obj[s].of \subseteq Names
  /\ live \subseteq Names /\ floor \in 0..Len(obj) + 1 /\ lease \in Replica \cup {Nil}
  /\ \A r \in Replica : mem[r].idx \cup mem[r].opaque \subseteq Names /\ mem[r].seqFloor \in -1..floor
  /\ \A p \in Proc : pr[p].host \in Replica \cup {Nil} /\ (pr[p].pc = "idle") = (pr[p].host = Nil)
  /\ \A p \in Fetcher : pos[p] \in -1..End(Reads[p]) /\ pr[p].hw <= End(Reads[p])

Held(x, o) == \E s \in live : Covers(s, x, o)
\* The flush that wrote the offset has not been taken up by an expiry, nor has a DeleteRecords hidden it.
Kept(x, o) == o >= wm[x].trunc /\ \E f \in Names \ doomed : obj[f].of = {f} /\ Covers(f, x, o)
Owed(x, o) == Kept(x, o) /\ Held(x, o)

\* A fetch never serves a region from beyond an offset that is still stored: whatever a merge, a rewrite or
\* an expiry elsewhere does to the segments its index names, fetch_prefix_coalesced restarts rather than skips.
NoSkip ==
  \A p \in Fetcher :
    pr[p].pc = "read" /\ Head(pr[p].plan).seq \in live =>
      \A o \in pr[p].at..(Head(pr[p].plan).from - 1) : ~Owed(Reads[p], o)

\* Where a fetch is about to answer OFFSET_OUT_OF_RANGE.
Refuses(p) ==
  \/ pr[p].pc = "start" /\ pr[p].stage = "confirm" /\ Outside(p)
  \/ pr[p].pc = "region" /\ EmptyLog(p)
  \/ pr[p].pc = "gap" /\ DeadGap(p)

\* OFFSET_OUT_OF_RANGE is never the answer to an offset that is still stored, however stale the index, the
\* hints and the cached watermark of the broker were when the fetch began.
RefusedIsGone == \A p \in Fetcher : Refuses(p) => ~Owed(Reads[p], pr[p].o)

\* EARLIEST never lies above an offset that is still stored: a merge moves low offsets to a high name, and
\* coalesced_earliest_offset goes by offsets.
EarliestHonest ==
  \A p \in Fetcher : pr[p].pc = "reset" => \A o \in 0..(Max({pr[p].hw, pr[p].o}) - 1) : ~Owed(Reads[p], o)

\* What no expiry has taken up and no DeleteRecords has hidden is held by some segment at every moment: merges
\* and rewrites retire their inputs only once what they carry is durable, also when they lose the lease or crash.
Retained == \A x \in Substream : \A o \in 0..(End(x) - 1) : Kept(x, o) => Held(x, o)

\* A certified dead gap holds nothing that is stored: neither an expiry nor certify_prefix_served_ends vouches
\* for offsets that another broker's segments serve.
CertifiedIsDead ==
  \A x \in Substream : wm[x].at = wm[x].high => \A o \in wm[x].end..(wm[x].at - 1) : ~Owed(x, o)

\* OFFSET_OUT_OF_RANGE sends a consumer elsewhere only from a position whose records are not there for it to read:
\* the records of a request whose fetch loop went on into a certified gap are not answered with that error.
ReadIsAnswered == \A p \in Fetcher : Refuses(p) => ~Owed(Reads[p], pos[p])

\* A consumer that has read everything is in range, whatever the broker it asks remembers of the log's end.
CaughtUpInRange == \A p \in Fetcher : Refuses(p) => pr[p].o # End(Reads[p])

==============================================================================
