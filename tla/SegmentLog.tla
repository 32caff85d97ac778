----------------------------- MODULE SegmentLog -----------------------------
(***************************************************************************)
(* The multi-writer segment log of one connector prefix: the create-only   *)
(* segment sequence that assigns offsets (the leaseless flush), and the    *)
(* maintenance passes (expiry, size merge) that retire segments under it.  *)
(*                                                                         *)
(* Durable state is what the object store holds: the segment objects, the  *)
(* sequence floor (seq-floor.json) and the assignment floor of each        *)
(* sub-stream (field high of watermark.json).  Everything else is the      *)
(* memory of a replica.  A flush, a maintenance pass and the readers of    *)
(* one replica share its prefix index.  One action is one object-store     *)
(* request of a replica with the local code up to its next await.          *)
(*                                                                         *)
(* A flush f carries Count[f][x] records for sub-stream x.  Its footer     *)
(* entry for x is [sub, base, cnt, by, at]: offsets base .. base+cnt-1     *)
(* hold the records of flush `by'.  `at' is history: the name under which  *)
(* the entry was first created.  The nonce of a footer is the flush (by),  *)
(* or the pass that merged it: each draws one.                             *)
(***************************************************************************)
EXTENDS Integers

CONSTANTS
    Replica,         \* broker processes
    Flusher,         \* the replicas that flush into the prefix
    Maintainer,      \* the replicas that run maintenance passes
    Substream,       \* (topic, partition) pairs multiplexed into the prefix
    Flush,           \* closed windows
    Count,           \* Count[f][x]: records of sub-stream x in flush f
    Nil,             \* no flush: a merged segment is by none
    MaxPasses,       \* bound: maintenance passes ever started
    BoundedPause,    \* no name is created and retired within one claim
    WatermarkGetFails, WatermarkPutFails, \* faults of watermark.json requests
    FoldBelowFails   \* the refresh of fold_below_won may fail

ASSUME SegmentLogAssumption ==
    /\ Flusher \subseteq Replica /\ Maintainer \subseteq Replica
    /\ Count \in [Flush -> [Substream -> Nat]]
    /\ Nil \notin Flush
    /\ MaxPasses \in Nat
    /\ BoundedPause \in BOOLEAN
    /\ WatermarkGetFails \in BOOLEAN /\ WatermarkPutFails \in BOOLEAN
    /\ FoldBelowFails \in BOOLEAN

VARIABLES
    store,           \* the segment objects [name, by, pass, ents]
    floor,           \* seq-floor.json: next_seq_floor
    high,            \* watermark.json: high, per sub-stream
    net,             \* creates given up by their sender, still in flight
    idx,             \* replica: PrefixIndex, the footers it holds
    cfloor,          \* replica: floor certified for this index, -1 if none
    seq,             \* replica: cached_seq, 0 if none
    hint,            \* replica: cached_high, 0 if none
    wpc, cur,        \* flush: control point, the window being written
    cand, base,      \* flush: claimed name, bases derived so far (-1 if not)
    since,           \* flush, history: names that existed when it last refreshed
    mpc, kind, run,  \* maintenance: control point, pass, names to retire
    pass,            \* maintenance: the nonce of the segment it merges, 0 if idle
    lost, todo,      \* maintenance: sub-streams losing segments, floors to write
    load,            \* maintenance: entries of the merged segment
    mcand,           \* maintenance: claimed name
    next,            \* history: no name >= next was ever created
    made,            \* history: every object ever created
    acked,           \* history: entries whose producers were acknowledged
    expired,         \* history: entries an expiry pass decided to delete
    passes           \* counter of the bound MaxPasses

shared == <<idx, cfloor, seq, hint>>
wvars == <<wpc, cur, cand, base, since>>
mvars == <<mpc, kind, run, pass, lost, todo, load, mcand>>
durable == <<store, floor, high, net>>
history == <<next, made, acked, expired, passes>>
vars == <<durable, shared, wvars, mvars, history>>

Entry == [sub : Substream, base : Nat, cnt : Nat, by : Flush, at : Nat]
Object == [name : Nat, by : Flush \cup {Nil}, pass : Nat, ents : SUBSET Entry]
Request == [obj : Object, since : Nat]

End(e) == e.base + e.cnt
Larger(a, b) == IF a >= b THEN a ELSE b
Names(objs) == {o.name : o \in objs}
Ents(objs) == UNION {o.ents : o \in objs}
Ends(x, es) == {0} \cup {End(e) : e \in {d \in es : d.sub = x}}
Tops(objs) == {0} \cup {o.name + 1 : o \in objs}
IsMax(t, S) == t \in S /\ \A u \in S : u <= t

\* Every entry a flush ever made durable.
Log == Ents(made)

Init ==
    /\ store = {} /\ floor = 0 /\ high = [x \in Substream |-> 0] /\ net = {}
    /\ idx = [r \in Replica |-> {}]
    /\ cfloor = [r \in Replica |-> -1]
    /\ seq = [r \in Replica |-> 0]
    /\ hint = [r \in Replica |-> [x \in Substream |-> 0]]
    /\ wpc = [r \in Replica |-> "idle"]
    /\ cur = [r \in Replica |-> Nil]
    /\ cand = [r \in Replica |-> 0]
    /\ base = [r \in Replica |-> [x \in Substream |-> -1]]
    /\ since = [r \in Replica |-> 0]
    /\ mpc = [r \in Replica |-> "idle"]
    /\ kind = [r \in Replica |-> "expire"]
    /\ run = [r \in Replica |-> {}]
    /\ pass = [r \in Replica |-> 0]
    /\ lost = [r \in Replica |-> {}]
    /\ todo = [r \in Replica |-> {}]
    /\ load = [r \in Replica |-> {}]
    /\ mcand = [r \in Replica |-> 0]
    /\ next = 0 /\ made = {} /\ acked = {} /\ expired = {} /\ passes = 0

-----------------------------------------------------------------------------
(* The object store and the prefix index.                                  *)

Free(n) == n \notin Names(store)

\* A conditional create that finds its name free.
Create(o) ==
    /\ store' = store \cup {o}
    /\ made' = made \cup {o}
    /\ next' = Larger(next, o.name + 1)

\* A create that outlived its sender reaches the store.
LatePut(q) ==
    /\ net' = net \ {q}
    /\ IF Free(q.obj.name) THEN Create(q.obj) ELSE UNCHANGED <<store, made, next>>
    /\ UNCHANGED <<floor, high, shared, wvars, mvars, acked, expired, passes>>

\* probe_prefix_tail: fold the segments that follow the cursor until a name is
\* absent.  The floor read after the absence proves that nothing lies beyond,
\* and is certified for the index.
ProbeTail(r) ==
    \E t \in Tops(idx[r]), a \in Tops(idx[r]) \cup Tops(store) :
      /\ idx[r] # {}
      /\ IsMax(t, Tops(idx[r]))
      /\ a >= t /\ Free(a)
      /\ \A n \in t .. a - 1 : ~Free(n)
      /\ floor <= a
      /\ idx' = [idx EXCEPT ![r] = @ \cup {o \in store : t <= o.name /\ o.name < a}]
      /\ cfloor' = [cfloor EXCEPT ![r] = floor]

\* The incremental listing after the cursor: a new index generation, so no
\* floor is certified for it yet.
ListTail(r) ==
    \E t \in Tops(idx[r]) :
      /\ idx[r] # {}
      /\ IsMax(t, Tops(idx[r]))
      /\ idx' = [idx EXCEPT ![r] = @ \cup {o \in store : t <= o.name}]
      /\ cfloor' = [cfloor EXCEPT ![r] = -1]

\* The listing of a cold index, or of one whose reconcile is due: fold every
\* segment, drop what is not listed below the listing's own maximum.
ListAll(r) ==
    /\ idx' = [idx EXCEPT ![r] = store \cup {o \in @ : \A q \in store : o.name >= q.name}]
    /\ cfloor' = [cfloor EXCEPT ![r] = -1]

\* refresh_prefix_index_inner, past the freshness gate.
Refresh(r) == ProbeTail(r) \/ ListTail(r) \/ ListAll(r)

\* A reader of the replica (fetch, list_offsets) or the start of a pass
\* refreshes the index.
Sync(r) ==
    /\ Refresh(r)
    /\ UNCHANGED <<durable, seq, hint, wvars, mvars, history>>

\* certified_seq_floor: from memory while its generation stands, else read.
Certified(r) == IF cfloor[r] = -1 THEN floor ELSE cfloor[r]

\* Mutant: the claim ignores the sequence floor.
FoldedTailNoFloor(r, c) == IsMax(c, Tops(idx[r]))

\* tail_next_seq_folded: the folded tail or the sequence floor.
FoldedTail(r, c) ==
    \E t \in Tops(idx[r]) :
      IsMax(t, Tops(idx[r])) /\ c = Larger(t, Certified(r))

-----------------------------------------------------------------------------
(* The flush: flush_prefix_coalesced_leaseless.                            *)

\* The flush worker takes a closed window under the prefix flush lock.  A
\* window is flushed again (a producer's retry) only if it left no trace.
StartFlush(w, f) ==
    /\ wpc[w] = "idle"
    /\ \E x \in Substream : Count[f][x] > 0
    /\ \A v \in Replica : cur[v] # f
    /\ \A o \in made : o.by # f
    /\ \A q \in net : q.obj.by # f
    /\ cur' = [cur EXCEPT ![w] = f]
    /\ wpc' = [wpc EXCEPT ![w] = "refresh"]
    /\ UNCHANGED <<durable, shared, mvars, history, cand, base, since>>

\* refresh_prefix_index_forced.
FlushRefresh(w) ==
    /\ wpc[w] = "refresh"
    /\ Refresh(w)
    /\ since' = [since EXCEPT ![w] = next]
    /\ wpc' = [wpc EXCEPT ![w] = "claim"]
    /\ UNCHANGED <<durable, seq, hint, mvars, history, cur, cand, base>>

\* Mutant: the winner's footer is not folded.
FoldWinnerUnfolded(w) ==
    /\ wpc[w] = "fold"
    /\ wpc' = [wpc EXCEPT ![w] = "claim"]
    /\ UNCHANGED <<durable, shared, mvars, history, cur, cand, base, since>>

\* fold_segment_footer: fold the footer of the name lost to a peer; the
\* certified floor is kept.
FoldWinner(w) ==
    /\ wpc[w] = "fold"
    /\ \E o \in store :
         /\ o.name = cand[w]
         /\ idx' = [idx EXCEPT ![w] = @ \cup {o}]
    /\ wpc' = [wpc EXCEPT ![w] = "claim"]
    /\ UNCHANGED <<durable, cfloor, seq, hint, mvars, history, cur, cand, base, since>>

\* The winner's footer cannot be read: refresh instead.
FoldFailed(w) ==
    /\ wpc[w] = "fold"
    /\ wpc' = [wpc EXCEPT ![w] = "refresh"]
    /\ UNCHANGED <<durable, shared, mvars, history, cur, cand, base, since>>

Claim(w) ==
    /\ wpc[w] = "claim"
    /\ \E c \in {floor, cfloor[w]} \cup Tops(idx[w]) :
         /\ FoldedTail(w, c)
         /\ cand' = [cand EXCEPT ![w] = c]
    /\ cfloor' = [cfloor EXCEPT ![w] = Certified(w)]
    /\ base' = [base EXCEPT ![w] = [x \in Substream |-> -1]]
    /\ wpc' = [wpc EXCEPT ![w] = "base"]
    /\ UNCHANGED <<durable, idx, seq, hint, mvars, history, cur, since>>

\* Mutant: the hint advances when offsets are assigned, not when they are durable.
DeriveBaseReserving(w, x) ==
    /\ wpc[w] = "base"
    /\ Count[cur[w]][x] > 0
    /\ base[w][x] = -1
    /\ \E t \in Ends(x, Ents(idx[w])) :
         /\ IsMax(t, Ends(x, Ents(idx[w])))
         /\ base' = [base EXCEPT ![w][x] = Larger(Larger(t, hint[w][x]), high[x])]
         /\ hint' = [hint EXCEPT ![w][x] =
                       Larger(Larger(t, hint[w][x]), high[x]) + Count[cur[w]][x]]
    /\ UNCHANGED <<durable, idx, cfloor, seq, mvars, history, wpc, cur, cand, since>>

\* leaseless_base: the largest of the folded tail, this replica's hint and
\* the persisted floor; a failed read of the floor counts as 0.
DeriveBase(w, x) ==
    /\ wpc[w] = "base"
    /\ Count[cur[w]][x] > 0
    /\ base[w][x] = -1
    /\ \E t \in Ends(x, Ents(idx[w])) :
       \E h \in {high[x]} \cup (IF WatermarkGetFails THEN {0} ELSE {}) :
         /\ IsMax(t, Ends(x, Ents(idx[w])))
         /\ base' = [base EXCEPT ![w][x] = Larger(Larger(t, hint[w][x]), h)]
    /\ UNCHANGED <<durable, shared, mvars, history, wpc, cur, cand, since>>

\* The flush worker returns: what the flush held is gone.
EndFlush(w) ==
    /\ cur' = [cur EXCEPT ![w] = Nil]
    /\ cand' = [cand EXCEPT ![w] = 0]
    /\ base' = [base EXCEPT ![w] = [x \in Substream |-> -1]]
    /\ since' = [since EXCEPT ![w] = 0]
    /\ wpc' = [wpc EXCEPT ![w] = "idle"]

Carried(w) == {x \in Substream : Count[cur[w]][x] > 0}

\* The encoded segment.
Segment(w) ==
    [name |-> cand[w], by |-> cur[w], pass |-> 0,
     ents |-> {[sub |-> x, base |-> base[w][x], cnt |-> Count[cur[w]][x],
                by |-> cur[w], at |-> cand[w]] : x \in Carried(w)}]

\* SegmentCreate::Won and finalize_prefix_flush_leaseless: advance the
\* sequence hint, index the segment, advance the high hints, acknowledge.
Won(w) ==
    /\ seq' = [seq EXCEPT ![w] = Larger(@, cand[w] + 1)]
    /\ idx' = [idx EXCEPT ![w] = @ \cup {Segment(w)}]
    /\ hint' = [hint EXCEPT ![w] =
                  [x \in Substream |->
                     IF x \in Carried(w)
                     THEN Larger(hint[w][x], base[w][x] + Count[cur[w]][x])
                     ELSE hint[w][x]]]
    /\ acked' = acked \cup Segment(w).ents
    /\ EndFlush(w)
    /\ UNCHANGED cfloor

Ready(w) == wpc[w] = "base" /\ \A x \in Carried(w) : base[w][x] # -1

PutOk(w) ==
    /\ Ready(w)
    /\ Free(cand[w])
    /\ Create(Segment(w))
    /\ Won(w)
    /\ UNCHANGED <<floor, high, net, mvars, expired, passes>>

\* Mutant: a lost create is retried one name up with the same bases.
PutExistsBump(w) ==
    /\ Ready(w)
    /\ ~Free(cand[w])
    /\ cand' = [cand EXCEPT ![w] = @ + 1]
    /\ UNCHANGED <<durable, shared, mvars, history, wpc, cur, base, since>>

\* AlreadyExists: SegmentCreate::Lost, remember whose footer to fold.
PutExists(w) ==
    /\ Ready(w)
    /\ ~Free(cand[w])
    /\ wpc' = [wpc EXCEPT ![w] = "fold"]
    /\ UNCHANGED <<durable, shared, mvars, history, cur, cand, base, since>>

\* Any other error: the create landed, or never will, or is still in flight.
PutError(w) ==
    /\ Ready(w)
    /\ \/ Free(cand[w]) /\ Create(Segment(w)) /\ UNCHANGED net
       \/ /\ net' = net \cup {[obj |-> Segment(w), since |-> since[w]]}
          /\ UNCHANGED <<store, made, next>>
       \/ UNCHANGED <<store, made, next, net>>
    /\ wpc' = [wpc EXCEPT ![w] = "probe"]
    /\ UNCHANGED <<floor, high, shared, mvars, acked, expired, passes,
                   cur, cand, base, since>>

\* resolve_segment_create after an ambiguous error: the object at the claimed
\* name is ours iff it carries the flush's nonce, and a peer's otherwise.
ProbeOurs(w) ==
    /\ wpc[w] = "probe"
    /\ \E o \in store : o.name = cand[w] /\ o.by = cur[w]
    /\ Won(w)
    /\ UNCHANGED <<durable, mvars, next, made, expired, passes>>

\* Mutant: any object at the claimed name is taken for a peer's.
ProbeTheirsNoNonce(w) ==
    /\ wpc[w] = "probe"
    /\ \E o \in store : o.name = cand[w]
    /\ wpc' = [wpc EXCEPT ![w] = "fold"]
    /\ UNCHANGED <<durable, shared, mvars, history, cur, cand, base, since>>

ProbeTheirs(w) ==
    /\ wpc[w] = "probe"
    /\ \E o \in store : o.name = cand[w] /\ o.by # cur[w]
    /\ wpc' = [wpc EXCEPT ![w] = "fold"]
    /\ UNCHANGED <<durable, shared, mvars, history, cur, cand, base, since>>

\* fail_prefix_flush: the probe found nothing or failed, a request of the
\* attempt failed, or the attempts are spent.  The producers retry.
FailFlush(w) ==
    /\ wpc[w] # "idle"
    /\ EndFlush(w)
    /\ UNCHANGED <<durable, shared, mvars, history>>

-----------------------------------------------------------------------------
(* Maintenance: expire_prefix_segments, compact_prefix_segments and        *)
(* retire_segments, serialised per prefix by the compaction lease.         *)

\* The pass returns.
EndPass(m) ==
    /\ mpc' = [mpc EXCEPT ![m] = "idle"]
    /\ kind' = [kind EXCEPT ![m] = "expire"]
    /\ run' = [run EXCEPT ![m] = {}]
    /\ pass' = [pass EXCEPT ![m] = 0]
    /\ lost' = [lost EXCEPT ![m] = {}]
    /\ todo' = [todo EXCEPT ![m] = {}]
    /\ load' = [load EXCEPT ![m] = {}]
    /\ mcand' = [mcand EXCEPT ![m] = 0]

Holding(m) == mpc[m] \notin {"idle", "selected"}

\* Any set of indexed segments may be past its retention; the sub-streams it
\* carries lose segments.
SelectExpired(m) ==
    /\ mpc[m] = "idle" /\ passes < MaxPasses
    /\ \E objs \in SUBSET idx[m] :
         /\ objs # {}
         /\ run' = [run EXCEPT ![m] = Names(objs)]
         /\ lost' = [lost EXCEPT ![m] = {e.sub : e \in Ents(objs)}]
         /\ todo' = [todo EXCEPT ![m] = {e.sub : e \in Ents(objs)}]
    /\ kind' = [kind EXCEPT ![m] = "expire"]
    /\ mpc' = [mpc EXCEPT ![m] = "selected"]
    /\ passes' = passes + 1
    /\ pass' = [pass EXCEPT ![m] = passes + 1]
    /\ UNCHANGED <<durable, shared, wvars, load, mcand, next, made, acked, expired>>

\* Any run of at least two indexed segments may be worth merging.
SelectRun(m) ==
    /\ mpc[m] = "idle" /\ passes < MaxPasses
    /\ \E objs \in SUBSET idx[m] :
         /\ \E o, q \in objs : o # q
         /\ run' = [run EXCEPT ![m] = Names(objs)]
    /\ kind' = [kind EXCEPT ![m] = "merge"]
    /\ mpc' = [mpc EXCEPT ![m] = "selected"]
    /\ passes' = passes + 1
    /\ pass' = [pass EXCEPT ![m] = passes + 1]
    /\ UNCHANGED <<durable, shared, wvars, lost, todo, load, mcand, next, made, acked, expired>>

\* acquire_compaction_lease.  The lease serialises the passes as long as no
\* holder pauses past its term.
AcquireLease(m) ==
    /\ mpc[m] = "selected"
    /\ BoundedPause => \A v \in Replica : ~Holding(v)
    /\ mpc' = [mpc EXCEPT ![m] = IF kind[m] = "expire" THEN "high" ELSE "fetch"]
    /\ UNCHANGED <<durable, shared, wvars, kind, run, pass, lost, todo, load, mcand, history>>

\* Mutant: one floor is written for all the sub-streams that lose segments.
WriteHighOnce(m, x) ==
    /\ mpc[m] = "high" /\ x \in todo[m]
    /\ todo' = [todo EXCEPT ![m] = {}]
    /\ \E t \in Ends(x, Ents(idx[m])) :
         /\ IsMax(t, Ends(x, Ents(idx[m])))
         /\ high' = [high EXCEPT ![x] = Larger(@, t)]
    /\ UNCHANGED <<store, floor, net, shared, wvars, mpc, kind, run, pass, lost, load, mcand, history>>

\* Expiry: the watermark CAS of one sub-stream that loses segments raises its
\* assignment floor to the indexed tail.  Its failure is logged and ignored.
WriteHigh(m, x) ==
    /\ mpc[m] = "high" /\ x \in todo[m]
    /\ todo' = [todo EXCEPT ![m] = @ \ {x}]
    /\ \/ \E t \in Ends(x, Ents(idx[m])) :
            /\ IsMax(t, Ends(x, Ents(idx[m])))
            /\ high' = [high EXCEPT ![x] = Larger(@, t)]
       \/ WatermarkPutFails /\ UNCHANGED high
    /\ UNCHANGED <<store, floor, net, shared, wvars, mpc, kind, run, pass, lost, load, mcand, history>>

\* Mutant: the pass retires before it has written the floors.
HighsUnwritten(m) ==
    /\ mpc[m] = "high"
    /\ expired' = expired \cup Ents({o \in store : o.name \in run[m]})
    /\ mpc' = [mpc EXCEPT ![m] = "floor"]
    /\ UNCHANGED <<durable, shared, wvars, kind, run, pass, lost, todo, load, mcand,
                   next, made, acked, passes>>

\* Every floor is written: the pass goes on to retire the expired segments.
HighsWritten(m) ==
    /\ mpc[m] = "high" /\ todo[m] = {}
    /\ expired' = expired \cup Ents({o \in store : o.name \in run[m]})
    /\ mpc' = [mpc EXCEPT ![m] = "floor"]
    /\ UNCHANGED <<durable, shared, wvars, kind, run, pass, lost, todo, load, mcand,
                   next, made, acked, passes>>

\* Of the entries of the run, those the fenced view serves from it: an entry
\* that a higher indexed name outside the run holds too is served from there.
Served(m) ==
    {e \in Ents({o \in idx[m] : o.name \in run[m]}) :
       ~ \E q \in idx[m] : /\ e \in q.ents
                           /\ q.name \notin run[m]
                           /\ \A o \in idx[m] : o.name \in run[m] /\ e \in o.ents
                                                  => o.name < q.name}

\* Merge: GET every segment of the run, and merge what the run serves.
FetchRun(m) ==
    /\ mpc[m] = "fetch"
    /\ run[m] \subseteq Names(store)
    /\ load' = [load EXCEPT ![m] = Served(m)]
    /\ mpc' = [mpc EXCEPT ![m] = IF Served(m) = {} THEN "floor" ELSE "claim"]
    /\ UNCHANGED <<durable, shared, wvars, kind, run, pass, lost, todo, mcand, history>>

\* A segment of the run is gone: it is pruned from the index, the pass yields.
FetchGhost(m) ==
    /\ mpc[m] = "fetch"
    /\ ~(run[m] \subseteq Names(store))
    /\ idx' = [idx EXCEPT ![m] = {o \in @ : o.name \in run[m] => ~Free(o.name)}]
    /\ cfloor' = [cfloor EXCEPT ![m] = -1]
    /\ EndPass(m)
    /\ UNCHANGED <<durable, seq, hint, wvars, history>>

\* assign_and_create_segment, first candidate: the cached sequence or a
\* name-only listing (tail_next_seq), and the live sequence floor.
MergeClaim(m) ==
    /\ mpc[m] = "claim"
    /\ \E t \in Tops(store) :
         /\ IsMax(t, Tops(store))
         /\ mcand' = [mcand EXCEPT ![m] =
                        Larger(IF seq[m] # 0 THEN seq[m] ELSE t, floor)]
    /\ mpc' = [mpc EXCEPT ![m] = "put"]
    /\ UNCHANGED <<durable, shared, wvars, kind, run, pass, lost, todo, load, history>>

Merged(m) == [name |-> mcand[m], by |-> Nil, pass |-> pass[m], ents |-> load[m]]

\* Won: advance the sequence hint.
MergeOk(m) ==
    /\ mpc[m] = "put" /\ Free(mcand[m])
    /\ Create(Merged(m))
    /\ seq' = [seq EXCEPT ![m] = Larger(@, mcand[m] + 1)]
    /\ mpc' = [mpc EXCEPT ![m] = "insert"]
    /\ UNCHANGED <<floor, high, net, idx, cfloor, hint, wvars, kind, run, pass, lost, todo, load,
                   mcand, acked, expired, passes>>

\* The won name follows the cursor, or the refresh of fold_below_won failed:
\* index the merged segment.
InsertMerged(m) ==
    /\ mpc[m] = "insert"
    /\ \E t \in Tops(idx[m]) :
         IsMax(t, Tops(idx[m])) /\ (mcand[m] <= t \/ FoldBelowFails)
    /\ idx' = [idx EXCEPT ![m] = @ \cup {Merged(m)}]
    /\ mpc' = [mpc EXCEPT ![m] = "floor"]
    /\ UNCHANGED <<durable, cfloor, seq, hint, wvars, kind, run, pass, lost, todo, load, mcand,
                   history>>

\* fold_below_won: names lie between the cursor and the won name; fold them
\* before the merged segment is indexed.
FoldBelowWon(m) ==
    /\ mpc[m] = "insert"
    /\ \E t \in Tops(idx[m]) :
         /\ IsMax(t, Tops(idx[m])) /\ t < mcand[m]
         /\ idx' = [idx EXCEPT ![m] = @ \cup ({o \in store : t <= o.name} \cup {Merged(m)})]
    /\ cfloor' = [cfloor EXCEPT ![m] = -1]
    /\ mpc' = [mpc EXCEPT ![m] = "floor"]
    /\ UNCHANGED <<durable, seq, hint, wvars, kind, run, pass, lost, todo, load, mcand, history>>

\* Mutant: a merge that loses its name retires its run all the same.
MergeLostRetires(m) ==
    /\ \/ mpc[m] = "put" /\ ~Free(mcand[m])
       \/ mpc[m] = "probe" /\ \E o \in store : o.name = mcand[m] /\ o.pass # pass[m]
    /\ Refresh(m)
    /\ mpc' = [mpc EXCEPT ![m] = "floor"]
    /\ UNCHANGED <<durable, seq, hint, wvars, kind, run, pass, lost, todo, load, mcand, history>>

\* Lost: back off, refresh by force, claim the folded tail.
MergeLost(m) ==
    /\ \/ mpc[m] = "put" /\ ~Free(mcand[m])
       \/ mpc[m] = "probe" /\ \E o \in store : o.name = mcand[m] /\ o.pass # pass[m]
    /\ Refresh(m)
    /\ mpc' = [mpc EXCEPT ![m] = "reclaim"]
    /\ UNCHANGED <<durable, seq, hint, wvars, kind, run, pass, lost, todo, load, mcand, history>>

MergeReclaim(m) ==
    /\ mpc[m] = "reclaim"
    /\ \E c \in {floor, cfloor[m]} \cup Tops(idx[m]) :
         /\ FoldedTail(m, c)
         /\ mcand' = [mcand EXCEPT ![m] = c]
    /\ cfloor' = [cfloor EXCEPT ![m] = Certified(m)]
    /\ mpc' = [mpc EXCEPT ![m] = "put"]
    /\ UNCHANGED <<durable, idx, seq, hint, wvars, kind, run, pass, lost, todo, load, history>>

\* Mutant: an ambiguous create is taken for a success.
MergeErrorAdopts(m) ==
    /\ mpc[m] = "put"
    /\ \/ Free(mcand[m]) /\ Create(Merged(m)) /\ UNCHANGED net
       \/ UNCHANGED <<store, made, next, net>>
    /\ mpc' = [mpc EXCEPT ![m] = "insert"]
    /\ UNCHANGED <<floor, high, shared, wvars, kind, run, pass, lost, todo, load, mcand,
                   acked, expired, passes>>

\* Any other error: the create landed, or never will, or is still in flight.
MergeError(m) ==
    /\ mpc[m] = "put"
    /\ \/ Free(mcand[m]) /\ Create(Merged(m)) /\ UNCHANGED net
       \/ /\ net' = net \cup {[obj |-> Merged(m), since |-> mcand[m]]}
          /\ UNCHANGED <<store, made, next>>
       \/ UNCHANGED <<store, made, next, net>>
    /\ mpc' = [mpc EXCEPT ![m] = "probe"]
    /\ UNCHANGED <<floor, high, shared, wvars, kind, run, pass, lost, todo, load, mcand,
                   acked, expired, passes>>

\* resolve_segment_create after an ambiguous error found the merged segment.
\* (A peer's segment is MergeLost, no answer is Abort: the run stays.)
MergeProbeOurs(m) ==
    /\ mpc[m] = "probe"
    /\ \E o \in store : o.name = mcand[m] /\ o.pass = pass[m]
    /\ seq' = [seq EXCEPT ![m] = Larger(@, mcand[m] + 1)]
    /\ mpc' = [mpc EXCEPT ![m] = "insert"]
    /\ UNCHANGED <<durable, idx, cfloor, hint, wvars, kind, run, pass, lost, todo, load, mcand, history>>

\* The timing assumption: no name at or above the point a claim started from
\* is retired before that claim, and the create it sent, are over.
Settled(n) ==
    BoundedPause =>
      /\ \A w \in Replica : wpc[w] \notin {"idle", "refresh"} => n < since[w]
      /\ \A m \in Replica : mpc[m] = "put" => n < mcand[m]
      /\ \A q \in net : n < q.since

\* Mutant: the floor stops at the highest name retired.
RaiseFloorShort(m) ==
    /\ mpc[m] = "floor"
    /\ \A n \in run[m] : Settled(n)
    /\ \E t \in run[m] :
         /\ IsMax(t, run[m])
         /\ floor' = Larger(floor, t)
    /\ cfloor' = [cfloor EXCEPT ![m] = -1]
    /\ mpc' = [mpc EXCEPT ![m] = "delete"]
    /\ UNCHANGED <<store, high, net, idx, seq, hint, wvars, kind, run, pass, lost, todo, load,
                   mcand, history>>

\* Mutant: the floor is overwritten instead of raised.
RaiseFloorOverwrites(m) ==
    /\ mpc[m] = "floor"
    /\ \A n \in run[m] : Settled(n)
    /\ \E t \in {n + 1 : n \in run[m]} :
         /\ IsMax(t, {n + 1 : n \in run[m]})
         /\ floor' = t
    /\ cfloor' = [cfloor EXCEPT ![m] = -1]
    /\ mpc' = [mpc EXCEPT ![m] = "delete"]
    /\ UNCHANGED <<store, high, net, idx, seq, hint, wvars, kind, run, pass, lost, todo, load,
                   mcand, history>>

\* retire_segments: raise_seq_floor write-ahead of the deletes.
RaiseFloor(m) ==
    /\ mpc[m] = "floor"
    /\ \A n \in run[m] : Settled(n)
    /\ \E t \in {n + 1 : n \in run[m]} :
         /\ IsMax(t, {n + 1 : n \in run[m]})
         /\ floor' = Larger(floor, t)
    /\ cfloor' = [cfloor EXCEPT ![m] = -1]
    /\ mpc' = [mpc EXCEPT ![m] = "delete"]
    /\ UNCHANGED <<store, high, net, idx, seq, hint, wvars, kind, run, pass, lost, todo, load,
                   mcand, history>>

\* A bulk delete removes its objects in any order.
Delete(m, n) ==
    /\ mpc[m] = "delete" /\ n \in run[m] /\ ~Free(n)
    /\ store' = {o \in store : o.name # n}
    /\ UNCHANGED <<floor, high, net, shared, wvars, mvars, history>>

\* Every object is gone: prune the index, and after an expiry forget the
\* high hints of the sub-streams that lost segments.
Retired(m) ==
    /\ mpc[m] = "delete" /\ \A n \in run[m] : Free(n)
    /\ idx' = [idx EXCEPT ![m] = {o \in @ : o.name \notin run[m]}]
    /\ cfloor' = [cfloor EXCEPT ![m] = -1]
    /\ hint' = [hint EXCEPT ![m] =
                  [x \in Substream |-> IF x \in lost[m] THEN 0 ELSE hint[m][x]]]
    /\ EndPass(m)
    /\ UNCHANGED <<durable, seq, wvars, history>>

\* A request of the pass fails, or the lease is held elsewhere.
Abort(m) ==
    /\ mpc[m] # "idle"
    /\ EndPass(m)
    /\ UNCHANGED <<durable, shared, wvars, history>>

\* The replica restarts with empty memory.
Crash(r) ==
    /\ idx' = [idx EXCEPT ![r] = {}]
    /\ cfloor' = [cfloor EXCEPT ![r] = -1]
    /\ seq' = [seq EXCEPT ![r] = 0]
    /\ hint' = [hint EXCEPT ![r] = [x \in Substream |-> 0]]
    /\ EndFlush(r)
    /\ EndPass(r)
    /\ UNCHANGED <<durable, history>>

FlushStep(w) ==
    \/ \E f \in Flush : StartFlush(w, f)
    \/ FlushRefresh(w) \/ FoldWinner(w) \/ FoldFailed(w) \/ Claim(w)
    \/ \E x \in Substream : DeriveBase(w, x)
    \/ PutOk(w) \/ PutExists(w) \/ PutError(w)
    \/ ProbeOurs(w) \/ ProbeTheirs(w) \/ FailFlush(w)

MaintenanceStep(m) ==
    \/ SelectExpired(m) \/ SelectRun(m) \/ AcquireLease(m)
    \/ \E x \in Substream : WriteHigh(m, x)
    \/ HighsWritten(m)
    \/ FetchRun(m) \/ FetchGhost(m) \/ MergeClaim(m)
    \/ MergeOk(m) \/ InsertMerged(m) \/ FoldBelowWon(m)
    \/ MergeLost(m) \/ MergeReclaim(m) \/ MergeError(m) \/ MergeProbeOurs(m)
    \/ RaiseFloor(m) \/ Retired(m) \/ Abort(m)
    \/ \E n \in run[m] : Delete(m, n)

Next ==
    \/ \E w \in Flusher : FlushStep(w)
    \/ \E m \in Maintainer : MaintenanceStep(m)
    \/ \E r \in Replica : Sync(r) \/ Crash(r)
    \/ \E q \in net : LatePut(q)

Spec == Init /\ [][Next]_vars

\* A flush whose requests succeed, against peers that may do anything.
FlushProgress(w) ==
    \/ FlushRefresh(w) \/ FoldWinner(w) \/ FoldFailed(w) \/ Claim(w)
    \/ \E x \in Substream : DeriveBase(w, x)
    \/ PutOk(w) \/ PutExists(w)

\* Flushes that meet no error and no restart, beside readers and maintenance:
\* the flush worker always runs on.
ProgressNext ==
    \/ \E w \in Flusher : FlushProgress(w) \/ \E f \in Flush : StartFlush(w, f)
    \/ \E m \in Maintainer : MaintenanceStep(m)
    \/ \E r \in Replica : Sync(r)
    \/ \E q \in net : LatePut(q)

ProgressSpec ==
    Init /\ [][ProgressNext]_vars /\ \A w \in Flusher : WF_vars(FlushProgress(w))

-----------------------------------------------------------------------------
(* Properties.                                                             *)

TypeOK ==
    /\ store \subseteq Object /\ made \subseteq Object
    /\ floor \in Nat /\ next \in Nat /\ passes \in Nat
    /\ high \in [Substream -> Nat]
    /\ net \subseteq Request
    /\ idx \in [Replica -> SUBSET Object]
    /\ cfloor \in [Replica -> Nat \cup {-1}]
    /\ seq \in [Replica -> Nat]
    /\ hint \in [Replica -> [Substream -> Nat]]
    /\ wpc \in [Replica -> {"idle", "refresh", "fold", "claim", "base", "probe"}]
    /\ cur \in [Replica -> Flush \cup {Nil}]
    /\ \A r \in Replica :
         /\ wpc[r] # "idle" => cur[r] \in Flush
         /\ wpc[r] = "probe" => \A x \in Carried(r) : base[r][x] # -1
    /\ cand \in [Replica -> Nat]
    /\ base \in [Replica -> [Substream -> Nat \cup {-1}]]
    /\ since \in [Replica -> Nat]
    /\ mpc \in [Replica -> {"idle", "selected", "high", "fetch", "claim", "put",
                            "probe", "insert", "reclaim", "floor", "delete"}]
    /\ kind \in [Replica -> {"expire", "merge"}]
    /\ run \in [Replica -> SUBSET Nat]
    /\ pass \in [Replica -> Nat]
    /\ lost \in [Replica -> SUBSET Substream]
    /\ todo \in [Replica -> SUBSET Substream]
    /\ load \in [Replica -> SUBSET Entry]
    /\ mcand \in [Replica -> Nat]
    /\ acked \subseteq Entry /\ expired \subseteq Entry

\* A segment name is created at most once in the life of the prefix, whoever
\* creates it and whatever was retired in between: the create-only PUT of
\* flush_prefix_coalesced_leaseless and assign_and_create_segment never
\* succeeds on a freed name.
NameNeverReused == \A o, q \in made : o.name = q.name => o = q

\* Two durable entries of a sub-stream never share an offset, and the name
\* order is the offset order: leaseless_base never hands out an offset twice.
OffsetsUnique ==
    \A d, e \in Log : d.sub = e.sub /\ d # e =>
      /\ d.at # e.at
      /\ d.at < e.at => End(d) <= e.base

\* No offset is skipped: every entry begins at 0 or where another entry of
\* its sub-stream ended (leaseless_base never overshoots the log end).
Gapless ==
    \A e \in Log : e.base = 0 \/ \E d \in Log : d.sub = e.sub /\ End(d) = e.base

\* An entry whose producers were acknowledged is in a live segment until an
\* expiry pass has decided to delete it: neither a merge, nor a half-finished
\* retirement, nor a crash loses it.
AckedRetained == acked \subseteq Ents(store) \cup expired

\* Each window is in the log at most once, although an ambiguous create is
\* probed, retried under another name, and may land after its sender gave up.
FlushedOnce ==
    \A d, e \in Log : d.by = e.by /\ d.sub = e.sub => d = e

\* What is durable is enough for a cold replica to find the end of the log:
\* every offset ever written is below a live entry's end or below the
\* persisted floor (recover_substream_next_offset after any crash).
EndRecoverable ==
    \A e \in Log : \/ End(e) <= high[e.sub]
                   \/ \E d \in Ents(store) : d.sub = e.sub /\ End(e) <= End(d)

\* The sequence floor is written ahead of every delete: a name that was
\* created and is gone is below the floor.
FloorAhead == \A o \in made : Free(o.name) => o.name < floor

\* Every window that a flush worker takes is acknowledged in the end: a lost
\* create, a failed fold and a concurrent retirement only ever delay it.
FlushAcked ==
    \A f \in Flush, w \in Replica : cur[w] = f ~> \E e \in acked : e.by = f

-----------------------------------------------------------------------------
(* The inductive invariant.                                                *)

\* Every name from n on that exists is live.
LiveFrom(n) == \A k \in n .. next - 1 : ~Free(k)

\* The index, or the sequence floor, reaches the names the flush started from.
IndexReaches(w) == since[w] = 0 \/ \E o \in idx[w] : since[w] <= o.name + 1

Claiming(w) == wpc[w] \notin {"idle", "refresh"}

\* What is created is dense up to next, and what is gone is below the floor.
SpineInv ==
    /\ store \subseteq made
    /\ \A o \in made : o.name < next
    /\ NameNeverReused
    /\ \A n \in 0 .. next - 1 : ~Free(n) \/ n < floor
    /\ floor <= next

\* What a replica remembers are names that exist, or existed.
MemoryInv ==
    \A r \in Replica :
      /\ cfloor[r] <= floor /\ seq[r] <= next
      /\ \A o \in idx[r] : o.name < next
      /\ \A n \in run[r] : n < next
      /\ mpc[r] = "insert" => mcand[r] < next

\* A claim lies between its start and next, with every name from its start on
\* still live: it finds its name taken, or it creates next.
ClaimInv ==
    /\ \A q \in net : q.since <= q.obj.name /\ q.obj.name <= next /\ LiveFrom(q.since)
    /\ \A w \in Replica :
         /\ Claiming(w) => /\ since[w] <= next /\ LiveFrom(since[w])
                           /\ since[w] <= floor \/ IndexReaches(w)
         /\ wpc[w] = "claim" /\ cfloor[w] # -1 => since[w] <= cfloor[w] \/ IndexReaches(w)
         /\ wpc[w] \in {"fold", "base", "probe"} => since[w] <= cand[w] /\ cand[w] <= next
         /\ mpc[w] = "put" => mcand[w] <= next /\ LiveFrom(mcand[w])
         /\ mpc[w] = "reclaim" => cfloor[w] \in {-1, floor}

\* One pass holds the lease, and deletes only names below the floor that no
\* claim started from or above.
LeaseInv ==
    /\ \A m, v \in Replica : Holding(m) /\ Holding(v) => m = v
    /\ \A m \in Replica : mpc[m] = "delete" => \A n \in run[m] : n < floor /\ Settled(n)

NameInv == SpineInv /\ MemoryInv /\ ClaimInv /\ LeaseInv

\* Windows: one replica writes a window, and at most one object carries its
\* nonce; what is still in flight of it is that object, or is doomed.
WindowInv ==
    /\ \A w \in Replica : wpc[w] = "idle" <=> cur[w] = Nil
    /\ \A v, w \in Replica : cur[v] = cur[w] /\ cur[v] # Nil => v = w
    /\ \A w \in Replica : \A o \in made :
         wpc[w] # "idle" /\ o.by = cur[w] => wpc[w] = "probe" /\ o = Segment(w)
    /\ \A w \in Replica : \A q \in net :
         wpc[w] # "idle" /\ q.obj.by = cur[w] =>
           q.obj.name < next \/ (wpc[w] = "probe" /\ q.obj = Segment(w))
    /\ \A o, p \in made : o.by = p.by /\ o.by # Nil => o = p
    /\ \A o \in made, q \in net : o.by = q.obj.by /\ o.by # Nil => q.obj.name < next
    /\ \A p, q \in net : p.obj.by = q.obj.by /\ p.obj.by # Nil =>
         p.obj = q.obj \/ p.obj.name < next \/ q.obj.name < next

\* The segment o, created or in flight, is the one the pass of m merges.
Merges(m, o) ==
    /\ mpc[m] \notin {"selected", "high", "fetch"}
    /\ o.by = Nil /\ o.ents = load[m]

\* Passes: a pass has its nonce to itself, and the segment it merges is created
\* above the run it selected.
PassInv ==
    /\ \A o \in made : o.pass <= passes
    /\ \A q \in net : q.obj.pass <= passes
    /\ \A m \in Replica : pass[m] <= passes /\ (mpc[m] # "idle" => pass[m] # 0)
    /\ \A m, v \in Replica : pass[m] = pass[v] /\ pass[m] # 0 => m = v
    /\ \A m \in Replica : mpc[m] # "idle" =>
         /\ \A q \in net : q.obj.pass = pass[m] => Merges(m, q.obj)
         /\ \A o \in made : o.pass = pass[m] =>
              Merges(m, o) /\ \A n \in run[m] : n < o.name

\* A flush's segment holds entries of its own, one for each sub-stream; a
\* merged segment holds entries of the log.
Formed(o) ==
    /\ o.by # Nil => /\ \A e \in o.ents : e.at = o.name /\ e.by = o.by
                     /\ \A d, e \in o.ents : d.sub = e.sub => d = e
                     /\ o.pass = 0
    /\ o.by = Nil => o.ents \subseteq Log

\* Every entry is in the segment of its flush; memories hold entries of the log.
OriginInv ==
    /\ \A o \in made : Formed(o)
    /\ \A q \in net : Formed(q.obj)
    /\ \A e \in Log : \E p \in made : p.name = e.at /\ p.by = e.by /\ e \in p.ents
    /\ \A o \in made : \A e \in o.ents : e.at <= o.name
    /\ acked \subseteq Log /\ expired \subseteq Log
    /\ \A r \in Replica :
         /\ idx[r] \subseteq made /\ load[r] \subseteq Log
         /\ mpc[r] = "insert" => Merged(r) \in made

\* Copies: an entry is expired, or its highest copy is live.
CopyInv ==
    \A e \in Log : \/ e \in expired
                   \/ \E p \in store : /\ e \in p.ents
                                      /\ \A q \in made : e \in q.ents => q.name <= p.name

\* A copy of e was created above every copy of e in the names ns.
Higher(e, ns) ==
    \E q \in made : /\ e \in q.ents
                    /\ \A p \in made : p.name \in ns /\ e \in p.ents => p.name < q.name

\* Runs: what a pass is about to delete is expired, or has a higher copy.
RunInv ==
    \A m \in Replica :
      /\ mpc[m] # "idle" => \A o \in store : o.name \in run[m] => o \in idx[m]
      /\ mpc[m] \in {"claim", "put", "probe", "insert", "reclaim"} =>
           \A o \in store : o.name \in run[m] =>
             \A e \in o.ents : e \in load[m] \/ Higher(e, run[m])
      /\ mpc[m] \in {"floor", "delete"} =>
           \A o \in store : o.name \in run[m] =>
             \A e \in o.ents : e \in expired \/ Higher(e, run[m])

ContentInv == WindowInv /\ PassInv /\ OriginInv /\ CopyInv /\ RunInv

Low(e) == End(e) <= high[e.sub]

\* Expiry writes the assignment floors before it deletes.
LowInv ==
    /\ \A e \in expired : Low(e)
    /\ \A m \in Replica :
         mpc[m] = "high" \/ (mpc[m] = "selected" /\ kind[m] = "expire") =>
           \A o \in store : o.name \in run[m] =>
             \A e \in o.ents : e.sub \in todo[m] \/ Low(e)

\* b is 0, or an entry of x ends there.
Edge(x, b) == b = 0 \/ \E d \in Log : d.sub = x /\ End(d) = b

\* Every offset that a base may be derived from is the end of an entry.
EdgeInv ==
    /\ Gapless
    /\ \A x \in Substream : Edge(x, high[x])
    /\ \A r \in Replica : \A x \in Substream :
         Edge(x, hint[r][x]) /\ (base[r][x] # -1 => Edge(x, base[r][x]))
    /\ \A q \in net : \A e \in q.obj.ents : Edge(e.sub, e.base)

\* The index of r holds every live segment below n.
Covers(r, n) == \A p \in store : p.name < n => p \in idx[r]

\* An index has no hole, and a claim starts from an index without one.
CoverInv ==
    \A r \in Replica :
      /\ \A o \in idx[r] : Covers(r, o.name + 1)
      /\ Claiming(r) => Covers(r, since[r]) /\ floor <= since[r]
      /\ wpc[r] \in {"fold", "base", "probe"} => Covers(r, cand[r])

\* No entry of x ends above b.
Above(x, b) == \A e \in Log : e.sub = x => End(e) <= b

\* A claim that can still succeed has its bases above the log.
OffsetInv ==
    /\ \A w \in Replica : wpc[w] \in {"base", "probe"} /\ cand[w] = next =>
         \A x \in Substream : base[w][x] # -1 => Above(x, base[w][x])
    /\ \A q \in net : q.obj.by # Nil /\ q.obj.name = next =>
         \A e \in q.obj.ents : Above(e.sub, e.base)
    /\ OffsetsUnique
=============================================================================
