------------------------- MODULE SegmentLog_proofs --------------------------
(* Proofs about SegmentLog for every number of replicas, sub-streams,      *)
(* flushes and passes: first the names of the segments, then what they     *)
(* hold, which entries are created, copied and deleted, and which offsets  *)
(* they get.                                                               *)
EXTENDS SegmentLog, TLAPS

-----------------------------------------------------------------------------
(* Facts about the operators.                                              *)

\* Larger is the maximum of two numbers: Rust's max, which folds every floor.
LEMMA LargerFacts ==
    ASSUME NEW a \in Int, NEW b \in Int
    PROVE  /\ Larger(a, b) \in {a, b}
           /\ a <= Larger(a, b) /\ b <= Larger(a, b)
           /\ \A c \in Int : a <= c /\ b <= c => Larger(a, b) <= c
BY DEF Larger

\* What names and offsets, which are counted from 0, need of the order.
LEMMA NatUnary ==
    /\ 0 \in Nat
    /\ \A a \in Nat : a \in Int /\ a + 1 \in Nat /\ a < a + 1 /\ a + 1 # 0 /\ 0 <= a /\ ~(a < 0) /\ a <= a /\ ~(a < a)
BY SMT

\* Two names are in one order or in the other.
LEMMA NatTotal == \A a, b \in Nat : a < b \/ b <= a
BY SMT

\* A name below another one.
LEMMA NatStrict ==
    \A a, b \in Nat : a < b => a # b /\ ~(b <= a) /\ ~(b < a) /\ a <= b /\ a + 1 <= b /\ a < b + 1 /\ a \in 0 .. b - 1
BY SMT

\* A name below the next one.
LEMMA NatBelow ==
    \A a, b \in Nat : (a < b + 1 => a <= b) /\ (a <= b => (a = b \/ a < b) /\ a <= b + 1 /\ a # b + 1)
BY SMT

\* The order is transitive.
LEMMA NatTransitive ==
    \A a, b, c \in Nat : /\ a <= b /\ b <= c => a <= c
                         /\ a <= b /\ b < c => a < c /\ a # c
                         /\ a < b /\ b <= c => a < c /\ a # c
BY SMT

\* Offsets add up to offsets.
LEMMA NatSum == \A a, b \in Nat : a + b \in Nat
BY SMT

\* The larger of two offsets.
LEMMA LargerNat ==
    \A a, b \in Nat : /\ Larger(a, b) \in Nat /\ (Larger(a, b) = a \/ Larger(a, b) = b)
                      /\ a <= Larger(a, b) /\ b <= Larger(a, b)
                      /\ \A c \in Nat : a <= c /\ b <= c => Larger(a, b) <= c
BY SMT DEF Larger

\* What a request in flight carries.
LEMMA RequestObject == \A o, n : [obj |-> o, since |-> n].obj = o
BY SMT

\* What an entry of a segment carries.
LEMMA EntryFields ==
    \A x, b, c, f, n : LET e == [sub |-> x, base |-> b, cnt |-> c, by |-> f, at |-> n]
                       IN  e.sub = x /\ e.base = b /\ e.cnt = c /\ e.by = f /\ e.at = n
BY SMT

\* A create that lands keeps the store, the history and next well-typed.
LEMMA CreateType ==
    ASSUME TypeOK, NEW o \in Object, Create(o)
    PROVE  store' \subseteq Object /\ made' \subseteq Object /\ next' \in Nat
BY SMTT(40) DEF TypeOK, Create, Object, Larger

\* Each of the three ways to refresh an index keeps it a set of objects.
LEMMA RefreshType ==
    ASSUME TypeOK, NEW r \in Replica, Refresh(r)
    PROVE  idx' \in [Replica -> SUBSET Object] /\ cfloor' \in [Replica -> Nat \cup {-1}]
<1>1. CASE ProbeTail(r)
  BY <1>1 DEF TypeOK, ProbeTail
<1>2. CASE ListTail(r)
  BY <1>2 DEF TypeOK, ListTail
<1>3. CASE ListAll(r)
  BY <1>3, Zenon DEF TypeOK, ListAll
<1> QED
  BY <1>1, <1>2, <1>3, Zenon DEF Refresh

\* What a flush encodes once all its bases are derived is a segment object.
LEMMA SegmentType ==
    ASSUME TypeOK, NEW w \in Replica, Ready(w)
    PROVE  Segment(w) \in Object
<1>1. cur[w] \in Flush
  BY Zenon DEF TypeOK, Ready
<1>2. \A x \in Carried(w) : base[w][x] \in Nat /\ Count[cur[w]][x] \in Nat
  BY <1>1, SegmentLogAssumption DEF TypeOK, Ready, Carried
<1>3. cand[w] \in Nat
  BY Zenon DEF TypeOK
<1>4. Carried(w) \subseteq Substream
  BY Zenon DEF Carried
<1> QED
  BY <1>1, <1>2, <1>3, <1>4 DEF Segment, Object, Entry

\* A claimed name (tail_next_seq_folded) is a natural number.
LEMMA ClaimType ==
    ASSUME TypeOK, NEW r \in Replica, NEW c, FoldedTail(r, c)
    PROVE  c \in Nat /\ Certified(r) \in Nat
BY DEF TypeOK, FoldedTail, Certified, Tops, Larger, Object

\* The tail that leaseless_base folds from an index is an offset.
LEMMA TailType ==
    ASSUME TypeOK, NEW r \in Replica, NEW x \in Substream, NEW t \in Ends(x, Ents(idx[r]))
    PROVE  t \in Nat
BY DEF TypeOK, Ends, End, Ents, Object, Entry

\* The name-only listing (tail_next_seq) yields a name.
LEMMA TopType ==
    ASSUME TypeOK, NEW t \in Tops(store)
    PROVE  t \in Nat
BY DEF TypeOK, Tops, Object

\* leaseless_base derives an offset.
LEMMA BaseType ==
    ASSUME TypeOK, NEW w \in Replica, NEW x \in Substream, DeriveBase(w, x)
    PROVE  base' \in [Replica -> [Substream -> Nat \cup {-1}]]
<1>1. PICK t \in Ends(x, Ents(idx[w])), h \in Nat :
        base' = [base EXCEPT ![w][x] = Larger(Larger(t, hint[w][x]), h)]
  BY Zenon DEF DeriveBase, TypeOK
<1>2. t \in Nat
  BY TailType, Zenon
<1> QED
  BY <1>1, <1>2 DEF TypeOK, Larger

\* What a merge encodes is a segment object.
LEMMA MergedType ==
    ASSUME TypeOK, NEW m \in Replica
    PROVE  Merged(m) \in Object
BY Zenon DEF TypeOK, Merged, Object

\* What a run serves are entries of the log.
LEMMA ServedType ==
    ASSUME TypeOK, NEW m \in Replica
    PROVE  Served(m) \subseteq Entry
BY SMTT(40) DEF TypeOK, Served, Ents, Object

\* A flush that probes its ambiguous create still knows the segment it sent.
LEMMA SegmentProbe ==
    ASSUME TypeOK, NEW w \in Replica, wpc[w] = "probe"
    PROVE  Segment(w) \in Object
<1>1. cur[w] \in Flush
  BY Zenon DEF TypeOK
<1>2. \A x \in Carried(w) : base[w][x] \in Nat /\ Count[cur[w]][x] \in Nat
  BY <1>1, SegmentLogAssumption, SMTT(40) DEF TypeOK, Carried
<1> QED
  BY <1>1, <1>2 DEF Segment, Object, Entry, TypeOK, Carried

\* A won flush leaves the memory of its replica well-typed.
LEMMA WonType ==
    ASSUME TypeOK, NEW w \in Replica, wpc[w] # "idle", Segment(w) \in Object, Won(w),
           \A x \in Carried(w) : base[w][x] # -1
    PROVE  /\ seq' \in [Replica -> Nat] /\ idx' \in [Replica -> SUBSET Object]
           /\ hint' \in [Replica -> [Substream -> Nat]] /\ acked' \subseteq Entry
           /\ cfloor' = cfloor
           /\ cur' \in [Replica -> Flush \cup {Nil}]
           /\ wpc' \in [Replica -> {"idle", "refresh", "fold", "claim", "base", "probe"}]
           /\ \A r \in Replica :
                /\ wpc'[r] # "idle" => cur'[r] \in Flush
                /\ wpc'[r] = "probe" => \A x \in Carried(r)' : base'[r][x] # -1
           /\ cand' \in [Replica -> Nat]
           /\ base' \in [Replica -> [Substream -> Nat \cup {-1}]]
           /\ since' \in [Replica -> Nat]
<1>1. \A x \in Carried(w) : base[w][x] + Count[cur[w]][x] \in Nat
  BY SegmentLogAssumption, SMTT(40) DEF TypeOK, Carried
<1>2. hint' \in [Replica -> [Substream -> Nat]]
  BY <1>1 DEF TypeOK, Won, Larger
<1>3. acked' \subseteq Entry
  BY Zenon DEF TypeOK, Won, Object
<1> QED
  BY <1>2, <1>3, SMTT(40) DEF TypeOK, Won, EndFlush, Larger, Carried

\* Every step of the log keeps every variable in its type.
LEMMA TypeStep ==
    ASSUME TypeOK, [Next]_vars
    PROVE  TypeOK'
<1> USE SegmentLogAssumption
<1>1. ASSUME NEW w \in Replica, NEW f \in Flush, StartFlush(w, f)
       PROVE  TypeOK'
  BY <1>1, Zenon DEF TypeOK, Carried, durable, shared, wvars, mvars, history, StartFlush
<1>2. ASSUME NEW w \in Replica, FlushRefresh(w)
       PROVE  TypeOK'
  BY <1>2, RefreshType, Zenon
     DEF TypeOK, Carried, durable, shared, wvars, mvars, history, FlushRefresh
<1>3. ASSUME NEW w \in Replica, FoldWinner(w)
       PROVE  TypeOK'
  BY <1>3, SMTT(40) DEF TypeOK, Carried, durable, shared, wvars, mvars, history, FoldWinner
<1>4. ASSUME NEW w \in Replica, FoldFailed(w)
       PROVE  TypeOK'
  BY <1>4, SMTT(40) DEF TypeOK, Carried, durable, shared, wvars, mvars, history, FoldFailed
<1>5. ASSUME NEW w \in Replica, Claim(w)
       PROVE  TypeOK'
  BY <1>5, ClaimType, SMTT(40) DEF TypeOK, Carried, durable, shared, wvars, mvars, history, Claim
<1>6. ASSUME NEW w \in Replica, NEW x \in Substream, DeriveBase(w, x)
       PROVE  TypeOK'
  <2>1. /\ base' \in [Replica -> [Substream -> Nat \cup {-1}]]
        /\ wpc[w] = "base"
        /\ \A r \in Replica : r # w => base'[r] = base[r]
    BY <1>6, BaseType, Zenon DEF TypeOK, DeriveBase
  <2> QED
    BY <1>6, <2>1 DEF TypeOK, Carried, durable, shared, wvars, mvars, history, DeriveBase
<1>7. ASSUME NEW w \in Replica, PutOk(w)
       PROVE  TypeOK'
  BY <1>7, SegmentType, CreateType, WonType, Zenon
     DEF TypeOK, Carried, durable, shared, wvars, mvars, history, PutOk, Ready
<1>8. ASSUME NEW w \in Replica, PutExists(w)
       PROVE  TypeOK'
  BY <1>8, Zenon DEF TypeOK, Carried, durable, shared, wvars, mvars, history, PutExists, Ready
<1>9. ASSUME NEW w \in Replica, PutError(w)
       PROVE  TypeOK'
  BY <1>9, SegmentType, CreateType, SMTT(40)
     DEF TypeOK, Carried, durable, shared, wvars, mvars, history, PutError, Ready, Request
<1>10. ASSUME NEW w \in Replica, ProbeOurs(w)
       PROVE  TypeOK'
  BY <1>10, WonType, SegmentProbe, Zenon
     DEF TypeOK, Carried, durable, shared, wvars, mvars, history, ProbeOurs
<1>11. ASSUME NEW w \in Replica, ProbeTheirs(w)
       PROVE  TypeOK'
  BY <1>11, Zenon DEF TypeOK, Carried, durable, shared, wvars, mvars, history, ProbeTheirs
<1>12. ASSUME NEW w \in Replica, FailFlush(w)
       PROVE  TypeOK'
  BY <1>12, Zenon
     DEF TypeOK, Carried, durable, shared, wvars, mvars, history, FailFlush, EndFlush
<1>13. ASSUME NEW w \in Replica, SelectExpired(w)
       PROVE  TypeOK'
  BY <1>13, SMTT(40) DEF TypeOK, Carried, durable, shared, wvars, mvars, history, SelectExpired, Names,
     Ents, Object, Entry
<1>14. ASSUME NEW w \in Replica, SelectRun(w)
       PROVE  TypeOK'
  BY <1>14
     DEF TypeOK, Carried, durable, shared, wvars, mvars, history, SelectRun, Names, Object
<1>15. ASSUME NEW w \in Replica, AcquireLease(w)
       PROVE  TypeOK'
  BY <1>15, Zenon DEF TypeOK, Carried, durable, shared, wvars, mvars, history, AcquireLease
<1>16. ASSUME NEW w \in Replica, NEW x \in Substream, WriteHigh(w, x)
       PROVE  TypeOK'
  <2>1. high' \in [Substream -> Nat]
    <3>1. \A t \in Ends(x, Ents(idx[w])) : Larger(high[x], t) \in Nat
      BY TailType, Zenon DEF TypeOK, Larger
    <3>2. high \in [Substream -> Nat]
      BY Zenon DEF TypeOK
    <3>3. \/ \E t \in Ends(x, Ents(idx[w])) : high' = [high EXCEPT ![x] = Larger(high[x], t)]
          \/ high' = high
      BY <1>16, Zenon DEF WriteHigh
    <3> QED
      BY <3>1, <3>2, <3>3
  <2> QED
    BY <1>16, <2>1, Zenon
       DEF TypeOK, Carried, durable, shared, wvars, mvars, history, WriteHigh
<1>17. ASSUME NEW w \in Replica, HighsWritten(w)
       PROVE  TypeOK'
  BY <1>17
     DEF TypeOK, Carried, durable, shared, wvars, mvars, history, HighsWritten, Ents, Object
<1>18. ASSUME NEW w \in Replica, FetchRun(w)
       PROVE  TypeOK'
  BY <1>18, ServedType, Zenon
     DEF TypeOK, Carried, durable, shared, wvars, mvars, history, FetchRun
<1>19. ASSUME NEW w \in Replica, FetchGhost(w)
       PROVE  TypeOK'
  BY <1>19, Zenon
     DEF TypeOK, Carried, durable, shared, wvars, mvars, history, FetchGhost, EndPass
<1>20. ASSUME NEW w \in Replica, MergeClaim(w)
       PROVE  TypeOK'
  BY <1>20, TopType, SMTT(40)
     DEF TypeOK, Carried, durable, shared, wvars, mvars, history, MergeClaim, Larger
<1>21. ASSUME NEW w \in Replica, MergeOk(w)
       PROVE  TypeOK'
  BY <1>21, MergedType, CreateType, SMTT(40)
     DEF TypeOK, Carried, durable, shared, wvars, mvars, history, MergeOk, Larger
<1>22. ASSUME NEW w \in Replica, InsertMerged(w)
       PROVE  TypeOK'
  BY <1>22, MergedType, SMTT(40)
     DEF TypeOK, Carried, durable, shared, wvars, mvars, history, InsertMerged
<1>23. ASSUME NEW w \in Replica, FoldBelowWon(w)
       PROVE  TypeOK'
  BY <1>23, MergedType, SMTT(40)
     DEF TypeOK, Carried, durable, shared, wvars, mvars, history, FoldBelowWon
<1>24. ASSUME NEW w \in Replica, MergeLost(w)
       PROVE  TypeOK'
  BY <1>24, RefreshType, Zenon
     DEF TypeOK, Carried, durable, shared, wvars, mvars, history, MergeLost
<1>25. ASSUME NEW w \in Replica, MergeReclaim(w)
       PROVE  TypeOK'
  BY <1>25, ClaimType, Zenon
     DEF TypeOK, Carried, durable, shared, wvars, mvars, history, MergeReclaim
<1>26. ASSUME NEW w \in Replica, MergeError(w)
       PROVE  TypeOK'
  <2>1. Merged(w) \in Object /\ mcand[w] \in Nat
    BY MergedType, Zenon DEF TypeOK
  <2>2. store' \subseteq Object /\ made' \subseteq Object /\ next' \in Nat
    BY <1>26, <2>1, CreateType, Zenon DEF MergeError, TypeOK
  <2>3. net' \subseteq Request
    BY <1>26, <2>1, SMTT(40) DEF MergeError, TypeOK, Request
  <2> QED
    BY <1>26, <2>2, <2>3, Zenon DEF TypeOK, Carried, shared, wvars, MergeError
<1>35. ASSUME NEW w \in Replica, MergeProbeOurs(w)
       PROVE  TypeOK'
  BY <1>35, SMTT(40) DEF TypeOK, Carried, durable, shared, wvars, mvars, history, MergeProbeOurs, Larger
<1>27. ASSUME NEW w \in Replica, RaiseFloor(w)
       PROVE  TypeOK'
  BY <1>27, SMTT(40) DEF TypeOK, Carried, durable, shared, wvars, mvars, history, RaiseFloor, Larger
<1>28. ASSUME NEW w \in Replica, Retired(w)
       PROVE  TypeOK'
  BY <1>28 DEF TypeOK, Carried, durable, shared, wvars, mvars, history, Retired, EndPass
<1>29. ASSUME NEW w \in Replica, Abort(w)
       PROVE  TypeOK'
  BY <1>29, Zenon DEF TypeOK, Carried, durable, shared, wvars, mvars, history, Abort, EndPass
<1>30. ASSUME NEW w \in Replica, NEW n \in run[w], Delete(w, n)
       PROVE  TypeOK'
  BY <1>30, Zenon DEF TypeOK, Carried, durable, shared, wvars, mvars, history, Delete
<1>31. ASSUME NEW w \in Replica, Sync(w)
       PROVE  TypeOK'
  BY <1>31, RefreshType, Zenon
     DEF TypeOK, Carried, durable, shared, wvars, mvars, history, Sync
<1>32. ASSUME NEW w \in Replica, Crash(w)
       PROVE  TypeOK'
  BY <1>32, Zenon
     DEF TypeOK, Carried, durable, shared, wvars, mvars, history, Crash, EndFlush, EndPass
<1>33. ASSUME NEW q \in net, LatePut(q)
       PROVE  TypeOK'
  BY <1>33, CreateType, Zenon
     DEF TypeOK, Carried, durable, shared, wvars, mvars, history, LatePut, Request
<1>34. CASE UNCHANGED vars
  BY <1>34, Zenon DEF vars, TypeOK, Carried, durable, shared, wvars, mvars, history
<1> QED
  BY <1>1, <1>2, <1>3, <1>4, <1>5, <1>6, <1>7, <1>8, <1>9, <1>10, <1>11, <1>12, <1>13, <1>14,
     <1>15, <1>16, <1>17, <1>18, <1>19, <1>20, <1>21, <1>22, <1>23, <1>24, <1>25, <1>26,
     <1>27, <1>28, <1>29, <1>30, <1>31, <1>32, <1>33, <1>34, <1>35, Zenon
       DEF Next, FlushStep, MaintenanceStep
-----------------------------------------------------------------------------
(* Names.  Throughout, no holder pauses past its term (BoundedPause).      *)

\* What a step can do to the segment objects and the sequence floor.
LEMMA StoreSteps ==
    ASSUME [Next]_vars
    PROVE  \/ UNCHANGED <<store, made, next, floor>>
           \/ floor' = floor /\ \E w \in Replica : Ready(w) /\ Free(cand[w]) /\ Create(Segment(w))
           \/ floor' = floor /\ \E m \in Replica : mpc[m] = "put" /\ Free(mcand[m]) /\ Create(Merged(m))
           \/ floor' = floor /\ \E q \in net : Free(q.obj.name) /\ Create(q.obj)
           \/ \E m \in Replica : RaiseFloor(m)
           \/ \E m \in Replica : \E n \in run[m] : Delete(m, n)
<1> USE SegmentLogAssumption DEF durable, history
<1>1. ASSUME NEW w \in Replica, FlushStep(w)
      PROVE  \/ UNCHANGED <<store, made, next, floor>>
             \/ floor' = floor /\ Ready(w) /\ Free(cand[w]) /\ Create(Segment(w))
  BY <1>1, Zenon
     DEF FlushStep, StartFlush, FlushRefresh, FoldWinner, FoldFailed, Claim, DeriveBase,
       PutOk, PutExists, PutError, ProbeOurs, ProbeTheirs, FailFlush
<1>2. ASSUME NEW m \in Replica, MaintenanceStep(m)
      PROVE  \/ UNCHANGED <<store, made, next, floor>>
             \/ floor' = floor /\ mpc[m] = "put" /\ Free(mcand[m]) /\ Create(Merged(m))
             \/ RaiseFloor(m)
             \/ \E n \in run[m] : Delete(m, n)
  BY <1>2, Zenon
     DEF MaintenanceStep, SelectExpired, SelectRun, AcquireLease, WriteHigh, HighsWritten,
       FetchRun, FetchGhost, MergeClaim, MergeOk, InsertMerged, FoldBelowWon, MergeLost,
       MergeReclaim, MergeError, MergeProbeOurs, Retired, Abort
<1>3. ASSUME NEW r \in Replica, Sync(r) \/ Crash(r)
      PROVE  UNCHANGED <<store, made, next, floor>>
  BY <1>3, Zenon DEF Sync, Crash
<1>4. ASSUME NEW q \in net, LatePut(q)
      PROVE  \/ UNCHANGED <<store, made, next, floor>>
             \/ floor' = floor /\ Free(q.obj.name) /\ Create(q.obj)
  BY <1>4, Zenon DEF LatePut
<1>5. CASE UNCHANGED vars
  BY <1>5, Zenon DEF vars
<1> QED
  BY <1>1, <1>2, <1>3, <1>4, <1>5, Zenon DEF Next

\* The object a create may carry: the segment of a flush that has its bases,
\* the segment of a merge that has its name, or a create still in flight.
Sent(o) ==
    \/ \E w \in Replica : Ready(w) /\ o = Segment(w)
    \/ \E m \in Replica : mpc[m] = "put" /\ o = Merged(m)
    \/ \E q \in net : o = q.obj

\* A create that succeeds creates the name next: every name from the start of
\* its claim up to next is taken.
LEMMA Lands ==
    ASSUME TypeOK, NameInv, NEW o, Sent(o), Free(o.name), Create(o)
    PROVE  o \in Object /\ o.name = next /\ next' = next + 1
<1> DEFINE Goal == o \in Object /\ o.name = next /\ next' = next + 1
<1>1. ASSUME o \in Object, NEW s \in Nat, s <= o.name, o.name <= next, LiveFrom(s)
      PROVE  Goal
  <2>1. o.name \in Nat /\ next \in Nat
    BY <1>1, Zenon DEF TypeOK, Object
  <2>2. o.name = next
    BY <1>1, <2>1 DEF LiveFrom
  <2> QED
    BY <1>1, <2>1, <2>2 DEF Create, Larger
<1>2. ASSUME NEW w \in Replica, Ready(w), o = Segment(w)
      PROVE  Goal
  <2>1. Segment(w) \in Object /\ Segment(w).name = cand[w]
    BY <1>2, SegmentType, Zenon DEF Segment
  <2>2. since[w] \in Nat /\ since[w] <= cand[w] /\ cand[w] <= next /\ LiveFrom(since[w])
    BY <1>2, Zenon DEF TypeOK, NameInv, ClaimInv, Ready, Claiming
  <2> QED
    BY <1>1, <1>2, <2>1, <2>2, Zenon
<1>3. ASSUME NEW m \in Replica, mpc[m] = "put", o = Merged(m)
      PROVE  Goal
  <2>1. Merged(m) \in Object /\ Merged(m).name = mcand[m]
    BY MergedType, Zenon DEF Merged
  <2>2. mcand[m] \in Nat /\ mcand[m] <= next /\ LiveFrom(mcand[m])
    BY <1>3, Zenon DEF TypeOK, NameInv, ClaimInv
  <2> QED
    BY <1>1, <1>3, <2>1, <2>2
<1>4. ASSUME NEW q \in net, o = q.obj
      PROVE  Goal
  <2>1. q.obj \in Object /\ q.since \in Nat
    BY Zenon DEF TypeOK, Request
  <2>2. q.since <= q.obj.name /\ q.obj.name <= next /\ LiveFrom(q.since)
    BY Zenon DEF NameInv, ClaimInv
  <2> QED
    BY <1>1, <1>4, <2>1, <2>2, Zenon
<1> QED
  BY <1>2, <1>3, <1>4, Zenon DEF Sent

\* What a step does to the segment objects: nothing, one create of the name
\* next, a raised floor, or one delete.
LEMMA StoreChange ==
    ASSUME TypeOK, NameInv, [Next]_vars
    PROVE  \/ UNCHANGED <<store, made, next, floor>>
           \/ \E o \in Object : /\ o.name = next /\ next' = next + 1 /\ floor' = floor
                                /\ store' = store \cup {o} /\ made' = made \cup {o}
                                /\ Sent(o)
           \/ \E m \in Replica : RaiseFloor(m)
           \/ \E m \in Replica : \E n \in run[m] : Delete(m, n)
<1>1. ASSUME NEW w \in Replica, Ready(w), Free(cand[w]), Create(Segment(w))
      PROVE  Sent(Segment(w)) /\ Free(Segment(w).name)
  BY <1>1, Zenon DEF Sent, Segment
<1>2. ASSUME NEW m \in Replica, mpc[m] = "put", Free(mcand[m]), Create(Merged(m))
      PROVE  Sent(Merged(m)) /\ Free(Merged(m).name)
  BY <1>2, Zenon DEF Sent, Merged
<1>3. ASSUME NEW q \in net
      PROVE  Sent(q.obj)
  BY Zenon DEF Sent
<1>4. \/ UNCHANGED <<store, made, next, floor>>
      \/ floor' = floor /\ \E o : Sent(o) /\ Free(o.name) /\ Create(o)
      \/ \E m \in Replica : RaiseFloor(m)
      \/ \E m \in Replica : \E n \in run[m] : Delete(m, n)
  BY <1>1, <1>2, <1>3, StoreSteps, Zenon
<1>5. ASSUME NEW o, Sent(o), Free(o.name), Create(o)
      PROVE  /\ o \in Object /\ o.name = next /\ next' = next + 1
             /\ store' = store \cup {o} /\ made' = made \cup {o}
  BY <1>5, Lands, Zenon DEF Create
<1> QED
  BY <1>4, <1>5, Zenon

\* A name is taken when an object of the store carries it.
LEMMA Taken ==
    /\ \A n : ~Free(n) <=> \E o \in store : o.name = n
    /\ (\A n : ~Free(n) <=> \E o \in store : o.name = n)'
BY Zenon DEF Free, Names

\* The names ever created stay dense, and what is deleted is below the floor.
LEMMA SpineStep ==
    ASSUME TypeOK, NameInv, [Next]_vars
    PROVE  SpineInv'
<1> USE Taken DEF NameInv, SpineInv, NameNeverReused
<1>1. CASE UNCHANGED <<store, made, next, floor>>
  BY <1>1, Zenon
<1>2. ASSUME NEW o \in Object, o.name = next, next' = next + 1, floor' = floor,
             store' = store \cup {o}, made' = made \cup {o}
      PROVE  SpineInv'
  <2>1. \A n : ~Free(n)' <=> n = next \/ ~Free(n)
    BY <1>2, Zenon
  <2>2. ASSUME NEW n \in 0 .. next' - 1
        PROVE  ~Free(n)' \/ n < floor'
    <3>1. n = next \/ n \in 0 .. next - 1
      BY <1>2, SMTT(40) DEF TypeOK
    <3> QED
      BY <1>2, <2>1, <3>1, Zenon
  <2>3. (\A p \in made : p.name < next)'
    BY <1>2, SMTT(40) DEF TypeOK, Object
  <2>4. (\A p, q \in made : p.name = q.name => p = q)'
    BY <1>2, SMTT(40) DEF TypeOK, Object
  <2> QED
    BY <1>2, <2>2, <2>3, <2>4 DEF TypeOK
<1>3. ASSUME NEW m \in Replica, RaiseFloor(m)
      PROVE  SpineInv'
  <2>1. PICK t \in {n + 1 : n \in run[m]} : floor' = Larger(floor, t)
    BY <1>3, Zenon DEF RaiseFloor
  <2>2. PICK n \in run[m] : t = n + 1
    BY <2>1, Zenon
  <2>3. n \in Nat /\ next \in Nat
    BY <2>2, Zenon DEF TypeOK
  <2>4. n < next
    BY <2>2, Zenon DEF MemoryInv
  <2>5. t \in Nat /\ t <= next
    BY <2>2, <2>3, <2>4, SMTT(40)
  <2> QED
    BY <1>3, <2>1, <2>5 DEF RaiseFloor, history, Larger, TypeOK, Object
<1>4. ASSUME NEW m \in Replica, NEW n \in run[m], Delete(m, n)
      PROVE  SpineInv'
  <2>1. n < floor
    BY <1>4, Zenon DEF LeaseInv, Delete
  <2> QED
    BY <1>4, <2>1 DEF Delete, history, TypeOK, Object
<1> QED
  BY <1>1, <1>2, <1>3, <1>4, StoreChange, Zenon

\* A stretch of live names stays live as long as no pass deletes in it.
LEMMA LiveKept ==
    ASSUME TypeOK, NameInv, [Next]_vars, NEW k \in Nat, k <= next, LiveFrom(k),
           \A m \in Replica : mpc[m] = "delete" => \A n \in run[m] : n < k
    PROVE  LiveFrom(k)' /\ k <= next' /\ next <= next'
<1> USE Taken DEF LiveFrom
<1>1. CASE UNCHANGED <<store, made, next, floor>>
  BY <1>1, SMTT(40) DEF TypeOK
<1>2. ASSUME NEW o \in Object, o.name = next, next' = next + 1, store' = store \cup {o}
      PROVE  LiveFrom(k)' /\ k <= next' /\ next <= next'
  <2>1. \A n : ~Free(n)' <=> n = next \/ ~Free(n)
    BY <1>2, Zenon
  <2>2. ASSUME NEW n \in k .. next' - 1
        PROVE  ~Free(n)'
    <3>1. n = next \/ n \in k .. next - 1
      BY <1>2, SMTT(40) DEF TypeOK
    <3> QED
      BY <1>2, <2>1, <3>1, Zenon
  <2> QED
    BY <1>2, <2>2 DEF TypeOK
<1>3. ASSUME NEW m \in Replica, RaiseFloor(m)
      PROVE  LiveFrom(k)' /\ k <= next' /\ next <= next'
  BY <1>3, SMTT(40) DEF RaiseFloor, history, TypeOK
<1>4. ASSUME NEW m \in Replica, NEW n \in run[m], Delete(m, n)
      PROVE  LiveFrom(k)' /\ k <= next' /\ next <= next'
  BY <1>4, SMTT(40) DEF Delete, history, TypeOK, Object
<1> QED
  BY <1>1, <1>2, <1>3, <1>4, StoreChange, Zenon

\* The names only grow in number, and the floor only rises.
LEMMA Monotone ==
    ASSUME TypeOK, NameInv, [Next]_vars
    PROVE  next <= next' /\ floor <= floor' /\ made \subseteq made'
<1>1. ASSUME NEW m \in Replica, RaiseFloor(m)
      PROVE  next' = next /\ floor <= floor' /\ made' = made
  <2>1. PICK t \in {n + 1 : n \in run[m]} : floor' = Larger(floor, t)
    BY <1>1, Zenon DEF RaiseFloor
  <2> QED
    BY <1>1, <2>1 DEF RaiseFloor, history, Larger, TypeOK
<1> QED
  BY <1>1, StoreChange, SMTT(40) DEF Delete, history, TypeOK
\* What a refresh folds is live, and what it certifies is the live floor.
LEMMA RefreshFacts ==
    ASSUME TypeOK, NEW r \in Replica, Refresh(r)
    PROVE  /\ idx'[r] \subseteq idx[r] \cup store
           /\ cfloor'[r] \in {-1, floor}
           /\ \A s \in Replica : s # r => idx'[s] = idx[s] /\ cfloor'[s] = cfloor[s]
<1>1. idx \in [Replica -> SUBSET Object] /\ cfloor \in [Replica -> Nat \cup {-1}]
  BY Zenon DEF TypeOK
<1>2. CASE ProbeTail(r)
  BY <1>1, <1>2, Zenon DEF ProbeTail
<1>3. CASE ListTail(r)
  BY <1>1, <1>3, Zenon DEF ListTail
<1>4. CASE ListAll(r)
  BY <1>1, <1>4, Zenon DEF ListAll
<1> QED
  BY <1>2, <1>3, <1>4, Zenon DEF Refresh

\* What a step adds to the memory of a replica.
LEMMA MemoryEffect ==
    ASSUME TypeOK, [Next]_vars, NEW r \in Replica
    PROVE  /\ \A o \in idx'[r] : o \in idx[r] \/ (\E p \in store' : p.name = o.name)
                                 \/ (o.name = mcand[r] /\ mpc[r] = "insert")
           /\ cfloor'[r] \in {-1, floor, cfloor[r]}
           /\ seq'[r] \in {0, seq[r]} \/ \E o \in store' : seq'[r] = Larger(seq[r], o.name + 1)
           /\ \A n \in run'[r] : n \in run[r] \/ \E o \in idx[r] : o.name = n
           /\ mpc'[r] = "insert" => \/ mpc[r] = "insert" /\ mcand'[r] = mcand[r]
                                    \/ \E o \in store' : o.name = mcand'[r]
<1> DEFINE Goal ==
           /\ \A o \in idx'[r] : o \in idx[r] \/ (\E p \in store' : p.name = o.name)
                                 \/ (o.name = mcand[r] /\ mpc[r] = "insert")
           /\ cfloor'[r] \in {-1, floor, cfloor[r]}
           /\ seq'[r] \in {0, seq[r]} \/ \E o \in store' : seq'[r] = Larger(seq[r], o.name + 1)
           /\ \A n \in run'[r] : n \in run[r] \/ \E o \in idx[r] : o.name = n
           /\ mpc'[r] = "insert" => \/ mpc[r] = "insert" /\ mcand'[r] = mcand[r]
                                    \/ \E o \in store' : o.name = mcand'[r]
<1>0. /\ idx \in [Replica -> SUBSET Object] /\ cfloor \in [Replica -> Nat \cup {-1}]
      /\ seq \in [Replica -> Nat] /\ run \in [Replica -> SUBSET Nat]
      /\ mcand \in [Replica -> Nat] /\ DOMAIN mpc = Replica
  BY Zenon DEF TypeOK
<1>1. CASE UNCHANGED <<idx, cfloor, seq, run, mpc, mcand>>
  BY <1>0, <1>1, Zenon
<1>2. ASSUME NEW w \in Replica, FlushStep(w)
      PROVE  Goal
  <2>1. CASE FlushRefresh(w)
    BY <1>0, <2>1, RefreshFacts, Zenon DEF FlushRefresh, durable, mvars
  <2>2. CASE FoldWinner(w)
    BY <1>0, <2>2 DEF FoldWinner, durable, mvars
  <2>3. CASE Claim(w)
    BY <1>0, <2>3, Zenon DEF Claim, Certified, durable, mvars
  <2>4. CASE PutOk(w)
    <3>1. Segment(w) \in store' /\ Segment(w).name = cand[w]
      BY <2>4, Zenon DEF PutOk, Create, Segment
    <3>2. /\ seq' = [seq EXCEPT ![w] = Larger(@, cand[w] + 1)]
          /\ idx' = [idx EXCEPT ![w] = @ \cup {Segment(w)}]
          /\ UNCHANGED <<cfloor, run, mpc, mcand>>
      BY <2>4, Zenon DEF PutOk, Won, mvars
    <3> QED
      BY <1>0, <3>1, <3>2, Zenon
  <2>5. CASE ProbeOurs(w)
    <3>1. Segment(w).name = cand[w]
      BY Zenon DEF Segment
    <3>2. store' = store /\ \E o \in store' : o.name = cand[w]
      BY <2>5, Zenon DEF ProbeOurs, durable
    <3>3. /\ seq' = [seq EXCEPT ![w] = Larger(@, cand[w] + 1)]
          /\ idx' = [idx EXCEPT ![w] = @ \cup {Segment(w)}]
          /\ UNCHANGED <<cfloor, run, mpc, mcand>>
      BY <2>5, Zenon DEF ProbeOurs, Won, mvars
    <3> QED
      BY <1>0, <3>1, <3>2, <3>3, Zenon
  <2> QED
    BY <1>1, <1>2, <2>1, <2>2, <2>3, <2>4, <2>5, Zenon
       DEF FlushStep, StartFlush, FoldFailed, DeriveBase,
       PutExists, PutError, ProbeTheirs, FailFlush, shared, mvars
<1>3. ASSUME NEW m \in Replica, MaintenanceStep(m)
      PROVE  Goal
  <2>1. CASE SelectExpired(m) \/ SelectRun(m)
    BY <1>0, <2>1 DEF SelectExpired, SelectRun, Names, shared
  <2>2. CASE AcquireLease(m) \/ HighsWritten(m) \/ FetchRun(m) \/ MergeClaim(m) \/ MergeError(m)
    BY <1>0, <2>2, Zenon
       DEF AcquireLease, HighsWritten, FetchRun, MergeClaim, MergeError, shared
  <2>3. CASE FetchGhost(m) \/ Abort(m)
    BY <1>0, <2>3 DEF FetchGhost, Abort, EndPass, shared
  <2>4. CASE MergeOk(m)
    <3>1. Merged(m) \in store' /\ Merged(m).name = mcand[m]
      BY <2>4, Zenon DEF MergeOk, Create, Merged
    <3>2. /\ seq' = [seq EXCEPT ![m] = Larger(@, mcand[m] + 1)]
          /\ mpc' = [mpc EXCEPT ![m] = "insert"]
          /\ UNCHANGED <<idx, cfloor, run, mcand>>
      BY <2>4, Zenon DEF MergeOk
    <3> QED
      BY <1>0, <3>1, <3>2, Zenon
  <2>0. Merged(m).name = mcand[m]
    BY Zenon DEF Merged
  <2>5. CASE InsertMerged(m)
    <3>1. /\ mpc[m] = "insert" /\ mpc' = [mpc EXCEPT ![m] = "floor"]
          /\ idx' = [idx EXCEPT ![m] = @ \cup {Merged(m)}]
          /\ UNCHANGED <<cfloor, seq, run, mcand>>
      BY <2>5, Zenon DEF InsertMerged
    <3> QED
      BY <1>0, <2>0, <3>1, Zenon
  <2>6. CASE FoldBelowWon(m)
    <3>1. /\ mpc[m] = "insert" /\ mpc' = [mpc EXCEPT ![m] = "floor"] /\ store' = store
          /\ cfloor' = [cfloor EXCEPT ![m] = -1]
          /\ UNCHANGED <<seq, run, mcand>>
      BY <2>6, Zenon DEF FoldBelowWon, durable
    <3>2. PICK t : idx' = [idx EXCEPT ![m] = @ \cup ({o \in store : t <= o.name} \cup {Merged(m)})]
      BY <2>6, Zenon DEF FoldBelowWon
    <3>3. \A o \in idx'[r] : o \in idx[r] \/ (\E p \in store' : p.name = o.name)
                                \/ (o.name = mcand[r] /\ mpc[r] = "insert")
      BY <1>0, <2>0, <3>1, <3>2, Zenon
    <3> QED
      BY <1>0, <3>1, <3>3, Zenon
  <2>7. CASE MergeLost(m)
    BY <1>0, <2>7, RefreshFacts, Zenon DEF MergeLost, durable
  <2>8. CASE MergeReclaim(m)
    BY <1>0, <2>8, Zenon DEF MergeReclaim, Certified
  <2>9. CASE RaiseFloor(m)
    BY <1>0, <2>9, Zenon DEF RaiseFloor
  <2>10. CASE Retired(m)
    BY <1>0, <2>10, Zenon DEF Retired, EndPass
  <2>11. CASE MergeProbeOurs(m)
    <3>1. \E o \in store' : o.name = mcand[m]
      BY <2>11, Zenon DEF MergeProbeOurs, durable
    <3>2. /\ seq' = [seq EXCEPT ![m] = Larger(@, mcand[m] + 1)]
          /\ mpc' = [mpc EXCEPT ![m] = "insert"]
          /\ UNCHANGED <<idx, cfloor, run, mcand>>
      BY <2>11, Zenon DEF MergeProbeOurs
    <3> QED
      BY <1>0, <3>1, <3>2, Zenon
  <2> QED
    BY <1>1, <1>3, <2>1, <2>2, <2>3, <2>4, <2>5, <2>6, <2>7, <2>8, <2>9, <2>10, <2>11, Zenon
    DEF MaintenanceStep, WriteHigh, Delete, shared, mvars
<1>4. ASSUME NEW s \in Replica, Sync(s) \/ Crash(s)
      PROVE  Goal
  <2>1. CASE Sync(s)
    BY <1>0, <2>1, RefreshFacts, Zenon DEF Sync, durable, mvars
  <2>2. CASE Crash(s)
    BY <1>0, <2>2, Zenon DEF Crash, EndPass
  <2> QED
    BY <1>4, <2>1, <2>2, Zenon
<1>5. ASSUME NEW q \in net, LatePut(q)
      PROVE  Goal
  BY <1>1, <1>5, Zenon DEF LatePut, shared, mvars
<1> QED
  BY <1>1, <1>2, <1>3, <1>4, <1>5, SegmentLogAssumption, Zenon DEF Next, vars, shared, mvars

\* A replica remembers only names that exist, or existed.
LEMMA MemoryStep ==
    ASSUME TypeOK, TypeOK', NameInv, SpineInv', [Next]_vars
    PROVE  MemoryInv'
<1> SUFFICES ASSUME NEW r \in Replica
             PROVE  /\ cfloor'[r] <= floor' /\ seq'[r] <= next'
                    /\ \A o \in idx'[r] : o.name < next'
                    /\ \A n \in run'[r] : n < next'
                    /\ mpc'[r] = "insert" => mcand'[r] < next'
  BY Zenon DEF MemoryInv
<1>1. next <= next' /\ floor <= floor' /\ next \in Nat /\ next' \in Nat /\ floor \in Nat /\ floor' \in Nat
  BY Monotone, Zenon DEF TypeOK
<1>2. /\ \A o \in idx[r] : o.name < next
      /\ \A n \in run[r] : n < next
      /\ cfloor[r] <= floor /\ seq[r] <= next
      /\ mpc[r] = "insert" => mcand[r] < next
  BY Zenon DEF NameInv, MemoryInv
<1>a. idx[r] \subseteq Object /\ store' \subseteq Object
  BY Zenon DEF TypeOK
<1>b. run[r] \subseteq Nat /\ seq[r] \in Nat /\ cfloor[r] \in Nat \cup {-1} /\ mcand[r] \in Nat
  BY Zenon DEF TypeOK
<1>c. /\ \A o \in store' : o.name < next' /\ o.name \in Nat
      /\ \A o \in idx[r] : o.name \in Nat
  <2>1. store' \subseteq made' /\ \A o \in made' : o.name < next'
    BY Zenon DEF SpineInv
  <2> QED
    BY <1>a, <2>1 DEF Object
<1>e. /\ \A o \in idx'[r] : o \in idx[r] \/ (\E p \in store' : p.name = o.name)
                              \/ (o.name = mcand[r] /\ mpc[r] = "insert")
      /\ cfloor'[r] \in {-1, floor, cfloor[r]}
      /\ seq'[r] \in {0, seq[r]} \/ \E o \in store' : seq'[r] = Larger(seq[r], o.name + 1)
      /\ \A n \in run'[r] : n \in run[r] \/ \E o \in idx[r] : o.name = n
      /\ mpc'[r] = "insert" => \/ mpc[r] = "insert" /\ mcand'[r] = mcand[r]
                               \/ \E o \in store' : o.name = mcand'[r]
  BY MemoryEffect, Zenon
<1>4. ASSUME NEW o \in idx'[r] PROVE o.name < next'
  <2>1. CASE o \in idx[r]
    <3>1. o.name < next /\ o.name \in Nat
      BY <1>2, <1>c, <2>1, Zenon
    <3> QED
      BY <1>1, <3>1
  <2>2. CASE \E p \in store' : p.name = o.name
    BY <1>c, <2>2, Zenon
  <2>3. CASE o.name = mcand[r] /\ mpc[r] = "insert"
    BY <1>1, <1>2, <1>b, <2>3, SMTT(40)
  <2> QED
    BY <1>e, <2>1, <2>2, <2>3, Zenon
<1>5. cfloor'[r] <= floor'
  BY <1>1, <1>2, <1>b, <1>e, SMTT(40)
<1>6. seq'[r] <= next'
  BY <1>1, <1>2, <1>b, <1>c, <1>e, SMTT(40) DEF Larger
<1>7. \A n \in run'[r] : n < next'
  BY <1>1, <1>2, <1>b, <1>c, <1>e, SMTT(40)
<1>8. mpc'[r] = "insert" => mcand'[r] < next'
  BY <1>1, <1>2, <1>b, <1>c, <1>e
<1> QED
  BY <1>4, <1>5, <1>6, <1>7, <1>8, Zenon

\* How a replica comes to each control point of a claim, a retry or a delete.
LEMMA ControlEffect ==
    ASSUME TypeOK, [Next]_vars, NEW w \in Replica
    PROVE  /\ Claiming(w)' => (Claiming(w) /\ since'[w] = since[w]) \/ FlushRefresh(w)
           /\ wpc'[w] = "claim" => wpc[w] = "claim" \/ FlushRefresh(w) \/ FoldWinner(w)
           /\ wpc'[w] \in {"fold", "base", "probe"} =>
                (wpc[w] \in {"fold", "base", "probe"} /\ cand'[w] = cand[w]) \/ Claim(w)
           /\ mpc'[w] = "put" => \/ mpc[w] = "put" /\ mcand'[w] = mcand[w]
                                 \/ MergeClaim(w) \/ MergeReclaim(w)
           /\ mpc'[w] = "reclaim" => mpc[w] = "reclaim" \/ MergeLost(w)
           /\ mpc'[w] = "delete" => run'[w] = run[w] /\ (mpc[w] = "delete" \/ RaiseFloor(w))
           /\ Holding(w)' => Holding(w) \/ AcquireLease(w)
<1> USE DEF Claiming, Holding
<1> DEFINE Flushing ==
             /\ Claiming(w)' => (Claiming(w) /\ since'[w] = since[w]) \/ FlushRefresh(w)
             /\ wpc'[w] = "claim" => wpc[w] = "claim" \/ FlushRefresh(w) \/ FoldWinner(w)
             /\ wpc'[w] \in {"fold", "base", "probe"} =>
                  (wpc[w] \in {"fold", "base", "probe"} /\ cand'[w] = cand[w]) \/ Claim(w)
           Maintaining ==
             /\ mpc'[w] = "put" => \/ mpc[w] = "put" /\ mcand'[w] = mcand[w]
                                   \/ MergeClaim(w) \/ MergeReclaim(w)
             /\ mpc'[w] = "reclaim" => mpc[w] = "reclaim" \/ MergeLost(w)
             /\ mpc'[w] = "delete" => run'[w] = run[w] /\ (mpc[w] = "delete" \/ RaiseFloor(w))
             /\ Holding(w)' => Holding(w) \/ AcquireLease(w)
<1>0. /\ DOMAIN wpc = Replica /\ DOMAIN since = Replica /\ DOMAIN cand = Replica
      /\ DOMAIN mpc = Replica /\ DOMAIN mcand = Replica /\ DOMAIN run = Replica
      /\ wpc = [r \in Replica |-> wpc[r]] /\ mpc = [r \in Replica |-> mpc[r]]
      /\ since = [r \in Replica |-> since[r]] /\ cand = [r \in Replica |-> cand[r]]
      /\ mcand = [r \in Replica |-> mcand[r]] /\ run = [r \in Replica |-> run[r]]
  BY Zenon DEF TypeOK
<1>1. UNCHANGED <<wpc, since, cand>> => Flushing
  BY Zenon
<1>2. UNCHANGED <<mpc, mcand, run>> => Maintaining
  BY Zenon
<1>3. ASSUME NEW v \in Replica, FlushStep(v)
      PROVE  Flushing /\ Maintaining
  <2>1. UNCHANGED mvars
    BY <1>3, Zenon
       DEF FlushStep, StartFlush, FlushRefresh, FoldWinner, FoldFailed, Claim, DeriveBase,
         PutOk, PutExists, PutError, ProbeOurs, ProbeTheirs, FailFlush
  <2>2. ASSUME (\E f \in Flush : StartFlush(v, f)) \/ FlushRefresh(v) \/ FoldWinner(v) \/ FoldFailed(v)
        PROVE  Flushing
    BY <1>0, <2>2, Zenon DEF StartFlush, FlushRefresh, FoldWinner, FoldFailed
  <2>3. ASSUME Claim(v) \/ \E x \in Substream : DeriveBase(v, x)
        PROVE  Flushing
    BY <1>0, <2>3, Zenon DEF Claim, DeriveBase
  <2>4. ASSUME PutExists(v) \/ PutError(v) \/ ProbeTheirs(v)
        PROVE  Flushing
    BY <1>0, <2>4, Zenon DEF PutExists, PutError, ProbeTheirs, Ready
  <2>5. ASSUME PutOk(v) \/ ProbeOurs(v) \/ FailFlush(v)
        PROVE  Flushing
    <3>1. EndFlush(v)
      BY <2>5, Zenon DEF PutOk, ProbeOurs, FailFlush, Won
    <3> QED
      BY <1>0, <3>1, Zenon DEF EndFlush
  <2> QED
    BY <1>2, <1>3, <2>1, <2>2, <2>3, <2>4, <2>5, Zenon DEF FlushStep, mvars
<1>4. ASSUME NEW v \in Replica, MaintenanceStep(v)
      PROVE  Flushing /\ Maintaining
  <2>1. UNCHANGED wvars
    BY <1>4, Zenon
       DEF MaintenanceStep, SelectExpired, SelectRun, AcquireLease, WriteHigh, HighsWritten,
         FetchRun, FetchGhost, MergeClaim, MergeOk, InsertMerged, FoldBelowWon, MergeLost,
         MergeReclaim, MergeError, MergeProbeOurs, RaiseFloor, Retired, Abort, Delete
  <2>2. ASSUME SelectExpired(v) \/ SelectRun(v) \/ AcquireLease(v) \/ HighsWritten(v) \/ FetchRun(v)
        PROVE  Maintaining
    BY <1>0, <2>2, Zenon DEF SelectExpired, SelectRun, AcquireLease, HighsWritten, FetchRun
  <2>3. ASSUME MergeClaim(v) \/ MergeOk(v) \/ InsertMerged(v) \/ FoldBelowWon(v) \/ MergeLost(v)
        PROVE  Maintaining
    BY <1>0, <2>3, Zenon DEF MergeClaim, MergeOk, InsertMerged, FoldBelowWon, MergeLost
  <2>4. ASSUME MergeReclaim(v) \/ MergeError(v) \/ MergeProbeOurs(v) \/ RaiseFloor(v)
        PROVE  Maintaining
    BY <1>0, <2>4, Zenon DEF MergeReclaim, MergeError, MergeProbeOurs, RaiseFloor
  <2>5. ASSUME FetchGhost(v) \/ Retired(v) \/ Abort(v)
        PROVE  Maintaining
    <3>1. EndPass(v)
      BY <2>5, Zenon DEF FetchGhost, Retired, Abort
    <3> QED
      BY <1>0, <3>1, Zenon DEF EndPass
  <2> QED
    BY <1>1, <1>2, <1>4, <2>1, <2>2, <2>3, <2>4, <2>5, Zenon
    DEF MaintenanceStep, WriteHigh, Delete, wvars, mvars
<1>5. ASSUME NEW s \in Replica, Sync(s)
      PROVE  Flushing /\ Maintaining
  BY <1>1, <1>2, <1>5, Zenon DEF Sync, wvars, mvars
<1>6. ASSUME NEW s \in Replica, Crash(s)
      PROVE  Flushing /\ Maintaining
  BY <1>0, <1>6, Zenon DEF Crash, EndFlush, EndPass
<1>7. ASSUME NEW q \in net, LatePut(q)
      PROVE  Flushing /\ Maintaining
  BY <1>1, <1>2, <1>7, Zenon DEF LatePut, wvars, mvars
<1> QED
  BY <1>1, <1>2, <1>3, <1>4, <1>5, <1>6, <1>7, SegmentLogAssumption, Zenon
     DEF Next, vars, wvars, mvars

\* A create comes in flight from a flush or a merge that gives it up.
LEMMA NetEffect ==
    ASSUME TypeOK, [Next]_vars, NEW q \in net'
    PROVE  \/ q \in net
           \/ \E w \in Replica : Ready(w) /\ q = [obj |-> Segment(w), since |-> since[w]]
           \/ \E m \in Replica : mpc[m] = "put" /\ q = [obj |-> Merged(m), since |-> mcand[m]]
<1> DEFINE Goal ==
           \/ q \in net
           \/ \E w \in Replica : Ready(w) /\ q = [obj |-> Segment(w), since |-> since[w]]
           \/ \E m \in Replica : mpc[m] = "put" /\ q = [obj |-> Merged(m), since |-> mcand[m]]
<1>1. ASSUME NEW w \in Replica, FlushStep(w)
      PROVE  Goal
  BY <1>1, Zenon
     DEF FlushStep, StartFlush, FlushRefresh, FoldWinner, FoldFailed, Claim, DeriveBase,
       PutOk, PutExists, PutError, ProbeOurs, ProbeTheirs, FailFlush, durable
<1>2. ASSUME NEW m \in Replica, MaintenanceStep(m)
      PROVE  Goal
  BY <1>2, Zenon
     DEF MaintenanceStep, SelectExpired, SelectRun, AcquireLease, WriteHigh, HighsWritten,
       FetchRun, FetchGhost, MergeClaim, MergeOk, InsertMerged, FoldBelowWon, MergeLost,
       MergeReclaim, MergeError, MergeProbeOurs, RaiseFloor, Retired, Abort, Delete, durable
<1>3. ASSUME NEW r \in Replica, Sync(r) \/ Crash(r)
      PROVE  Goal
  BY <1>3, Zenon DEF Sync, Crash, durable
<1>4. ASSUME NEW p \in net, LatePut(p)
      PROVE  Goal
  BY <1>4, Zenon DEF LatePut
<1> QED
  BY <1>1, <1>2, <1>3, <1>4, SegmentLogAssumption, Zenon DEF Next, vars, durable

\* The lease stays with one pass, which deletes below every claim.
LEMMA LeaseStep ==
    ASSUME BoundedPause, TypeOK, TypeOK', NameInv, [Next]_vars
    PROVE  LeaseInv'
<1>1. ASSUME NEW m \in Replica, NEW v \in Replica, Holding(m)', Holding(v)'
      PROVE  m = v
  <2>1. ASSUME NEW u \in Replica, AcquireLease(u)
        PROVE  \A s \in Replica : Holding(s)' => s = u
    <3>1. \A s \in Replica : ~Holding(s)
      BY <2>1, Zenon DEF AcquireLease
    <3>2. mpc' = [mpc EXCEPT ![u] = IF kind[u] = "expire" THEN "high" ELSE "fetch"]
      BY <2>1, Zenon DEF AcquireLease
    <3> QED
      BY <3>1, <3>2 DEF Holding, TypeOK
  <2> QED
    BY <1>1, <2>1, ControlEffect, Zenon DEF NameInv, LeaseInv
<1>2. ASSUME NEW m \in Replica, mpc'[m] = "delete", NEW n \in run'[m]
      PROVE  n < floor' /\ n \in run[m] /\ Settled(n)
  <2>0. run'[m] = run[m] /\ floor \in Nat /\ floor' \in Nat /\ n \in Nat
    BY <1>2, ControlEffect, Zenon DEF TypeOK
  <2>1. CASE mpc[m] = "delete"
    <3>1. n \in run[m] /\ n < floor /\ Settled(n)
      BY <1>2, <2>0, <2>1, Zenon DEF NameInv, LeaseInv
    <3>2. floor <= floor'
      BY Monotone, Zenon
    <3> QED
      BY <2>0, <3>1, <3>2
  <2>2. CASE RaiseFloor(m)
    <3>1. PICK t \in {k + 1 : k \in run[m]} : IsMax(t, {k + 1 : k \in run[m]}) /\ floor' = Larger(floor, t)
      BY <2>2, Zenon DEF RaiseFloor
    <3>2. n + 1 <= t /\ t \in Nat
      <4>1. run[m] \subseteq Nat
        BY Zenon DEF TypeOK
      <4>2. n + 1 <= t
        BY <1>2, <2>0, <3>1, Zenon DEF IsMax
      <4> QED
        BY <3>1, <4>1, <4>2
    <3>3. n < floor'
      BY <2>0, <3>1, <3>2 DEF Larger
    <3> QED
      BY <1>2, <2>0, <2>2, <3>3, Zenon DEF RaiseFloor
  <2> QED
    BY <1>2, <2>1, <2>2, ControlEffect, Zenon
<1>3. ASSUME NEW m \in Replica, mpc'[m] = "delete", NEW n \in run'[m]
      PROVE  Settled(n)'
  <2>0. Settled(n) /\ n \in Nat /\ n < next
    BY <1>2, <1>3, Zenon DEF NameInv, MemoryInv, TypeOK
  <2>1. ASSUME NEW w \in Replica, wpc'[w] \notin {"idle", "refresh"}
        PROVE  n < since'[w]
    <3>1. (Claiming(w) /\ since'[w] = since[w]) \/ FlushRefresh(w)
      BY <2>1, ControlEffect, Zenon DEF Claiming
    <3>2. FlushRefresh(w) => since'[w] = next
      BY DEF FlushRefresh, TypeOK
    <3> QED
      BY <2>0, <3>1, <3>2, Zenon DEF Claiming, Settled
  <2>2. ASSUME NEW v \in Replica, mpc'[v] = "put"
        PROVE  n < mcand'[v]
    BY <1>1, <1>3, <2>2, Zenon DEF Holding
  <2>3. ASSUME NEW q \in net'
        PROVE  n < q.since
    <3>1. CASE q \in net
      BY <2>0, <3>1, Zenon DEF Settled
    <3>2. ASSUME NEW w \in Replica, Ready(w), q = [obj |-> Segment(w), since |-> since[w]]
          PROVE  n < q.since
      BY <2>0, <3>2, Zenon DEF Settled, Ready
    <3>3. ASSUME NEW v \in Replica, mpc[v] = "put", q = [obj |-> Merged(v), since |-> mcand[v]]
          PROVE  n < q.since
      BY <2>0, <3>3, Zenon DEF Settled
    <3> QED
      BY <3>1, <3>2, <3>3, NetEffect, Zenon
  <2> QED
    BY <2>1, <2>2, <2>3, Zenon DEF Settled
<1> QED
  BY <1>1, <1>2, <1>3, Zenon DEF LeaseInv

\* An indexed object leaves the index only if the index keeps a higher name, or
\* the object is deleted and so below the floor, or the replica restarts.
LEMMA IndexEffect ==
    ASSUME TypeOK, NameInv, [Next]_vars, NEW r \in Replica, NEW o \in idx[r]
    PROVE  \/ o \in idx'[r]
           \/ cfloor'[r] = -1 /\ \E p \in idx'[r] : o.name <= p.name
           \/ cfloor'[r] = -1 /\ o.name < floor
           \/ wpc'[r] = "idle"
<1> DEFINE Goal ==
           \/ o \in idx'[r]
           \/ cfloor'[r] = -1 /\ \E p \in idx'[r] : o.name <= p.name
           \/ cfloor'[r] = -1 /\ o.name < floor
           \/ wpc'[r] = "idle"
<1>0. /\ idx \in [Replica -> SUBSET Object] /\ cfloor \in [Replica -> Nat \cup {-1}]
      /\ store \subseteq Object /\ o.name \in Nat
      /\ wpc = [s \in Replica |-> wpc[s]]
  BY SMTT(40) DEF TypeOK, Object
<1>1. ASSUME Free(o.name)
      PROVE  o.name < floor
  BY <1>0, <1>1 DEF NameInv, SpineInv, MemoryInv, TypeOK
<1>2. CASE UNCHANGED idx
  BY <1>2, Zenon
<1>3. ASSUME NEW s \in Replica, Refresh(s)
      PROVE  Goal
  <2>1. CASE ProbeTail(s)
    BY <1>0, <2>1, Zenon DEF ProbeTail
  <2>2. CASE ListTail(s)
    BY <1>0, <2>2, Zenon DEF ListTail
  <2>3. CASE ListAll(s)
    <3>1. CASE s = r /\ \E q \in store : o.name < q.name
      <4>1. PICK q \in store : o.name < q.name
        BY <3>1, Zenon
      <4>2. q \in idx'[r] /\ cfloor'[r] = -1 /\ o.name <= q.name
        BY <1>0, <2>3, <3>1, <4>1 DEF ListAll, Object
      <4> QED
        BY <4>2, Zenon
    <3>2. CASE s = r /\ ~ \E q \in store : o.name < q.name
      <4>1. \A q \in store : o.name >= q.name
        BY <1>0, <3>2 DEF Object
      <4> QED
        BY <1>0, <2>3, <3>2, <4>1, Zenon DEF ListAll
    <3>3. CASE s # r
      BY <1>0, <2>3, <3>3, Zenon DEF ListAll
    <3> QED
      BY <3>1, <3>2, <3>3, Zenon
  <2> QED
    BY <1>3, <2>1, <2>2, <2>3, Zenon DEF Refresh
<1>4. ASSUME NEW w \in Replica, FlushStep(w)
      PROVE  Goal
  <2>1. CASE FlushRefresh(w)
    BY <1>3, <2>1, Zenon DEF FlushRefresh
  <2>2. CASE FoldWinner(w)
    BY <1>0, <2>2, Zenon DEF FoldWinner
  <2>3. CASE PutOk(w) \/ ProbeOurs(w)
    BY <1>0, <2>3, Zenon DEF PutOk, ProbeOurs, Won
  <2> QED
    BY <1>2, <1>4, <2>1, <2>2, <2>3, Zenon
       DEF FlushStep, StartFlush, FoldFailed, Claim, DeriveBase,
       PutExists, PutError, ProbeTheirs, FailFlush, shared
<1>5. ASSUME NEW m \in Replica, MaintenanceStep(m)
      PROVE  Goal
  <2>1. CASE FetchGhost(m)
    BY <1>0, <1>1, <2>1, Zenon DEF FetchGhost
  <2>2. CASE InsertMerged(m) \/ FoldBelowWon(m)
    BY <1>0, <2>2 DEF InsertMerged, FoldBelowWon
  <2>3. CASE MergeLost(m)
    BY <1>3, <2>3, Zenon DEF MergeLost
  <2>4. CASE Retired(m)
    BY <1>0, <1>1, <2>4, Zenon DEF Retired
  <2> QED
    BY <1>2, <1>5, <2>1, <2>2, <2>3, <2>4, Zenon
       DEF MaintenanceStep, SelectExpired, SelectRun, AcquireLease,
       WriteHigh, HighsWritten, FetchRun, MergeClaim, MergeOk, MergeReclaim, MergeError, MergeProbeOurs, RaiseFloor,
       Abort, Delete, shared
<1>6. ASSUME NEW s \in Replica, Sync(s) \/ Crash(s)
      PROVE  Goal
  <2>1. CASE Sync(s)
    BY <1>3, <2>1, Zenon DEF Sync
  <2>2. CASE Crash(s)
    BY <1>0, <2>2, Zenon DEF Crash, EndFlush
  <2> QED
    BY <1>6, <2>1, <2>2, Zenon
<1>7. ASSUME NEW q \in net, LatePut(q)
      PROVE  Goal
  BY <1>2, <1>7, Zenon DEF LatePut, shared
<1> QED
  BY <1>2, <1>4, <1>5, <1>6, <1>7, SegmentLogAssumption, Zenon DEF Next, vars, shared

\* A refresh brings the index, or the floor, to every name that exists; a floor
\* certified by it is certified with an index that reaches them.
LEMMA RefreshReaches ==
    ASSUME TypeOK, NameInv, NEW r \in Replica, Refresh(r)
    PROVE  /\ next = 0 \/ next <= floor \/ \E o \in idx'[r] : next <= o.name + 1
           /\ cfloor'[r] # -1 => next = 0 \/ \E o \in idx'[r] : next <= o.name + 1
<1>0. /\ idx \in [Replica -> SUBSET Object] /\ cfloor \in [Replica -> Nat \cup {-1}]
      /\ store \subseteq Object /\ next \in Nat /\ floor \in Nat
  BY Zenon DEF TypeOK
<1>1. next = 0 \/ next <= floor \/ \E o \in store : o.name = next - 1
  BY <1>0, Taken DEF NameInv, SpineInv
<1>2. \A o \in store : o.name < next /\ o.name \in Nat
  BY <1>0, Zenon DEF NameInv, SpineInv, Object
<1>3. \A t \in Tops(idx[r]) : t \in Nat /\ (t = 0 \/ \E o \in idx[r] : t = o.name + 1)
  BY <1>0, SMTT(40) DEF Tops, Object
<1>4. CASE ProbeTail(r)
  <2>1. PICK t \in Tops(idx[r]), a \in Tops(idx[r]) \cup Tops(store) :
          /\ a >= t /\ Free(a)
          /\ \A n \in t .. a - 1 : ~Free(n)
          /\ floor <= a
          /\ idx' = [idx EXCEPT ![r] = @ \cup {o \in store : t <= o.name /\ o.name < a}]
    BY <1>4, Zenon DEF ProbeTail
  <2>2. t \in Nat /\ a \in Nat
    BY <1>0, <1>3, <2>1, SMTT(40) DEF Tops, Object
  <2>3. next <= a
    BY <1>0, <2>1, <2>2, SMTT(40) DEF NameInv, SpineInv
  <2>4. CASE t = a
    BY <1>0, <1>3, <2>1, <2>2, <2>3, <2>4
  <2>5. CASE t < a
    <3>1. PICK o \in store : o.name = a - 1
      BY <2>1, <2>2, <2>5, Taken, SMTT(40)
    <3>2. o \in idx'[r] /\ next <= o.name + 1
      BY <1>0, <2>1, <2>2, <2>3, <2>5, <3>1, SMTT(40)
    <3> QED
      BY <3>2, Zenon
  <2> QED
    BY <2>1, <2>2, <2>4, <2>5
<1>5. CASE ListTail(r)
  <2>1. PICK t \in Tops(idx[r]) :
          /\ idx' = [idx EXCEPT ![r] = @ \cup {o \in store : t <= o.name}]
          /\ cfloor' = [cfloor EXCEPT ![r] = -1]
    BY <1>5, Zenon DEF ListTail
  <2>2. CASE t < next
    BY <1>0, <1>1, <1>3, <2>1, <2>2, SMTT(40)
  <2>3. CASE next <= t
    BY <1>0, <1>3, <2>1, <2>3, SMTT(40)
  <2> QED
    BY <1>0, <1>3, <2>2, <2>3
<1>6. CASE ListAll(r)
  BY <1>0, <1>1, <1>6 DEF ListAll
<1> QED
  BY <1>4, <1>5, <1>6, Zenon DEF Refresh

\* Every claim stays between its start and next, its names live.
LEMMA ClaimStep ==
    ASSUME BoundedPause, TypeOK, TypeOK', NameInv, SpineInv', LeaseInv', [Next]_vars
    PROVE  ClaimInv'
<1>0. /\ next \in Nat /\ next' \in Nat /\ floor \in Nat /\ floor' \in Nat
      /\ next <= next' /\ floor <= floor' /\ floor <= next
      /\ since \in [Replica -> Nat] /\ cand \in [Replica -> Nat] /\ mcand \in [Replica -> Nat]
      /\ cfloor \in [Replica -> Nat \cup {-1}] /\ idx \in [Replica -> SUBSET Object]
      /\ idx' \in [Replica -> SUBSET Object]
  BY Monotone, Zenon DEF TypeOK, NameInv, SpineInv
<1>1. ASSUME NEW k \in Nat, k <= next, LiveFrom(k),
             \A m \in Replica : mpc[m] = "delete" => \A n \in run[m] : n < k
      PROVE  LiveFrom(k)' /\ k <= next'
  BY <1>1, LiveKept, Zenon
<1>2. ASSUME NEW w \in Replica, Claiming(w)
      PROVE  /\ since[w] <= next' /\ \A k \in Nat : k = since[w] => LiveFrom(k)'
             /\ wpc[w] \in {"fold", "base", "probe"} => since[w] <= cand[w] /\ cand[w] <= next
  <2>1. \A m \in Replica : mpc[m] = "delete" => \A n \in run[m] : n < since[w]
    BY <1>2, Zenon DEF NameInv, LeaseInv, Settled, Claiming
  <2>2. since[w] \in Nat /\ since[w] <= next /\ LiveFrom(since[w])
    BY <1>0, <1>2, Zenon DEF NameInv, ClaimInv
  <2>3. wpc[w] \in {"fold", "base", "probe"} => since[w] <= cand[w] /\ cand[w] <= next
    BY Zenon DEF NameInv, ClaimInv
  <2> QED
    BY <1>0, <1>1, <2>1, <2>2, <2>3, Zenon
<1>3. ASSUME NEW m \in Replica, mpc[m] = "put"
      PROVE  mcand[m] <= next' /\ \A k \in Nat : k = mcand[m] => LiveFrom(k)'
  <2>1. \A v \in Replica : mpc[v] = "delete" => \A n \in run[v] : n < mcand[m]
    BY <1>3, Zenon DEF NameInv, LeaseInv, Settled
  <2>2. mcand[m] \in Nat /\ mcand[m] <= next /\ LiveFrom(mcand[m])
    BY <1>0, <1>3, Zenon DEF NameInv, ClaimInv
  <2> QED
    BY <1>0, <1>1, <2>1, <2>2, Zenon
<1>4. ASSUME NEW q \in net'
      PROVE  q.since <= q.obj.name /\ q.obj.name <= next' /\ LiveFrom(q.since)'
  <2>1. CASE q \in net
    <3>1. \A v \in Replica : mpc[v] = "delete" => \A n \in run[v] : n < q.since
      BY <2>1, Zenon DEF NameInv, LeaseInv, Settled
    <3>2. q.since \in Nat /\ q.obj.name \in Nat
      BY <2>1, Zenon DEF TypeOK, Request, Object
    <3>3. q.since <= q.obj.name /\ q.obj.name <= next /\ LiveFrom(q.since)
      BY <2>1, Zenon DEF NameInv, ClaimInv
    <3>4. q.since <= next
      BY <1>0, <3>2, <3>3, SMTT(40)
    <3> QED
      BY <1>0, <1>1, <3>1, <3>2, <3>3, <3>4
  <2>2. ASSUME NEW w \in Replica, Ready(w), q = [obj |-> Segment(w), since |-> since[w]]
        PROVE  q.since <= q.obj.name /\ q.obj.name <= next' /\ LiveFrom(q.since)'
    <3>1. q.since = since[w] /\ q.obj.name = cand[w]
      BY <2>2, Zenon DEF Segment
    <3>2. Claiming(w) /\ wpc[w] = "base"
      BY <2>2, Zenon DEF Ready, Claiming
    <3> QED
      BY <1>0, <1>2, <3>1, <3>2
  <2>3. ASSUME NEW m \in Replica, mpc[m] = "put", q = [obj |-> Merged(m), since |-> mcand[m]]
        PROVE  q.since <= q.obj.name /\ q.obj.name <= next' /\ LiveFrom(q.since)'
    <3>1. q.since = mcand[m] /\ q.obj.name = mcand[m]
      BY <2>3, Zenon DEF Merged
    <3> QED
      BY <1>0, <1>3, <2>3, <3>1
  <2> QED
    BY <2>1, <2>2, <2>3, NetEffect, Zenon
<1>5. ASSUME NEW w \in Replica, FlushRefresh(w)
      PROVE  /\ since'[w] = next /\ next' = next /\ floor' = floor /\ wpc'[w] = "claim"
             /\ since'[w] <= floor' \/ IndexReaches(w)'
             /\ cfloor'[w] # -1 => IndexReaches(w)'
  <2>1. /\ since' = [since EXCEPT ![w] = next] /\ wpc' = [wpc EXCEPT ![w] = "claim"]
        /\ next' = next /\ floor' = floor /\ Refresh(w)
    BY <1>5, Zenon DEF FlushRefresh, history, durable
  <2>2. since'[w] = next /\ wpc'[w] = "claim"
    BY <2>1 DEF TypeOK
  <2> QED
    BY <2>1, <2>2, RefreshReaches, Zenon DEF IndexReaches
<1>6. ASSUME NEW w \in Replica, Claiming(w), since'[w] = since[w], Claiming(w)', IndexReaches(w)
      PROVE  IndexReaches(w)' \/ (cfloor'[w] = -1 /\ since'[w] <= floor')
  <2>1. CASE since[w] = 0
    BY <1>6, <2>1, Zenon DEF IndexReaches
  <2>2. ASSUME NEW o \in idx[w], since[w] <= o.name + 1
        PROVE  IndexReaches(w)' \/ (cfloor'[w] = -1 /\ since'[w] <= floor')
    <3>1. wpc'[w] # "idle"
      BY <1>6, Zenon DEF Claiming
    <3>2. o.name \in Nat /\ since[w] \in Nat
      BY <1>0 DEF Object
    <3>3. CASE o \in idx'[w]
      BY <1>6, <2>2, <3>3, Zenon DEF IndexReaches
    <3>4. ASSUME NEW p \in idx'[w], o.name <= p.name
          PROVE  IndexReaches(w)'
      <4>1. p.name \in Nat
        BY <1>0, SMTT(40) DEF Object
      <4>2. since'[w] <= p.name + 1
        BY <1>6, <2>2, <3>2, <3>4, <4>1, SMTT(40)
      <4> QED
        BY <4>2, Zenon DEF IndexReaches
    <3>5. CASE cfloor'[w] = -1 /\ o.name < floor
      BY <1>0, <1>6, <2>2, <3>2, <3>5
    <3> QED
      BY <3>1, <3>3, <3>4, <3>5, IndexEffect, Zenon
  <2> QED
    BY <1>6, <2>1, <2>2, Zenon DEF IndexReaches
<1>7. ASSUME NEW w \in Replica, Claiming(w)'
      PROVE  /\ since'[w] <= next' /\ LiveFrom(since[w])'
             /\ since'[w] <= floor' \/ IndexReaches(w)'
  <2>1. CASE FlushRefresh(w)
    <3>1. since'[w] = next' /\ next' \in Nat
      BY <1>0, <1>5, <2>1, Zenon
    <3>2. since'[w] <= next' /\ \A k \in since'[w] .. next' - 1 : FALSE
      <4>1. \A s \in Nat : s <= s /\ \A k \in s .. s - 1 : FALSE
        OBVIOUS
      <4> QED
        BY <3>1, <4>1, Zenon
    <3>3. LiveFrom(since[w])'
      BY <3>2, Zenon DEF LiveFrom
    <3> QED
      BY <1>5, <2>1, <3>2, <3>3, Zenon
  <2>2. CASE Claiming(w) /\ since'[w] = since[w]
    <3>1. LiveFrom(since[w])' /\ since'[w] <= next'
      BY <1>0, <1>2, <2>2, Zenon DEF LiveFrom
    <3>2. since[w] <= floor \/ IndexReaches(w)
      BY <2>2, Zenon DEF NameInv, ClaimInv
    <3>3. since[w] <= floor => since'[w] <= floor'
      BY <1>0, <2>2
    <3> QED
      BY <1>6, <1>7, <2>2, <3>1, <3>2, <3>3, Zenon
  <2> QED
    BY <1>7, <2>1, <2>2, ControlEffect, Zenon
<1>8. ASSUME NEW w \in Replica, wpc'[w] = "claim", cfloor'[w] # -1
      PROVE  since'[w] <= cfloor'[w] \/ IndexReaches(w)'
  <2>0. Claiming(w)'
    BY <1>8, Zenon DEF Claiming
  <2>1. CASE FlushRefresh(w)
    BY <1>5, <1>8, <2>1, Zenon
  <2>2. CASE FoldWinner(w)
    <3>1. PICK o \in store : o.name = cand[w] /\ idx' = [idx EXCEPT ![w] = @ \cup {o}]
      BY <2>2, Zenon DEF FoldWinner
    <3>2. o \in idx'[w] /\ since' = since /\ wpc[w] = "fold"
      BY <1>0, <2>2, <3>1, Zenon DEF FoldWinner
    <3>3. since[w] <= o.name + 1
      BY <1>0, <3>1, <3>2 DEF NameInv, ClaimInv
    <3> QED
      BY <3>2, <3>3, Zenon DEF IndexReaches
  <2>3. CASE wpc[w] = "claim" /\ since'[w] = since[w]
    <3>0. Claiming(w)
      BY <2>3, Zenon DEF Claiming
    <3>1. cfloor'[w] \in {floor, cfloor[w]}
      BY <1>8, MemoryEffect, Zenon
    <3>2. CASE cfloor'[w] = floor
      <4>1. since[w] <= floor \/ IndexReaches(w)
        BY <3>0, Zenon DEF NameInv, ClaimInv
      <4> QED
        BY <1>6, <1>8, <2>0, <2>3, <3>0, <3>2, <4>1, Zenon
    <3>3. CASE cfloor'[w] = cfloor[w]
      <4>1. since[w] <= cfloor[w] \/ IndexReaches(w)
        BY <1>8, <2>3, <3>3, Zenon DEF NameInv, ClaimInv
      <4> QED
        BY <1>6, <1>8, <2>0, <2>3, <3>0, <3>3, <4>1, Zenon
    <3> QED
      BY <3>1, <3>2, <3>3, Zenon
  <2> QED
    BY <1>8, <2>0, <2>1, <2>2, <2>3, ControlEffect, Zenon
<1>9. ASSUME NEW w \in Replica, NEW c, FoldedTail(w, c)
      PROVE  /\ c \in Nat /\ c <= next
             /\ Certified(w) <= c
             /\ IndexReaches(w) => since[w] <= c
  <2>1. PICK t \in Tops(idx[w]) : IsMax(t, Tops(idx[w])) /\ c = Larger(t, Certified(w))
    BY <1>9, Zenon DEF FoldedTail
  <2>2. \A o \in idx[w] : o.name \in Nat /\ o.name < next /\ o.name + 1 <= t
    BY <1>0, <2>1, SMTT(40) DEF Tops, IsMax, Object, NameInv, MemoryInv
  <2>3. t \in Nat /\ t <= next
    BY <1>0, <2>1, <2>2, SMTT(40) DEF Tops
  <2>4. Certified(w) \in Nat /\ Certified(w) <= next
    BY <1>0, SMTT(40) DEF Certified, NameInv, MemoryInv
  <2>5. c \in Nat /\ c <= next /\ Certified(w) <= c /\ t <= c
    BY <1>0, <2>1, <2>3, <2>4, SMTT(40) DEF Larger
  <2>6. IndexReaches(w) => since[w] <= c
    BY <1>0, <2>2, <2>3, <2>5 DEF IndexReaches
  <2> QED
    BY <2>5, <2>6, Zenon
<1>10. ASSUME NEW w \in Replica, wpc'[w] \in {"fold", "base", "probe"}
       PROVE  since'[w] <= cand'[w] /\ cand'[w] <= next'
  <2>1. CASE Claim(w)
    <3>1. PICK c : FoldedTail(w, c) /\ cand' = [cand EXCEPT ![w] = c]
      BY <2>1, Zenon DEF Claim
    <3>2. cand'[w] = c /\ since'[w] = since[w] /\ wpc[w] = "claim" /\ Claiming(w)
      BY <1>0, <2>1, <3>1, Zenon DEF Claim, Claiming
    <3>3. since[w] <= Certified(w) \/ IndexReaches(w)
      BY <1>0, <3>2, Zenon DEF NameInv, ClaimInv, Certified
    <3>4. Certified(w) \in Nat
      BY <1>0, Zenon DEF Certified
    <3> QED
      BY <1>0, <1>9, <3>1, <3>2, <3>3, <3>4
  <2>2. CASE wpc[w] \in {"fold", "base", "probe"} /\ cand'[w] = cand[w]
    <3>1. Claiming(w) /\ Claiming(w)'
      BY <1>10, <2>2, Zenon DEF Claiming
    <3>2. ~FlushRefresh(w)
      BY <2>2, Zenon DEF FlushRefresh
    <3>3. since'[w] = since[w]
      BY <3>1, <3>2, ControlEffect, Zenon
    <3> QED
      BY <1>0, <1>2, <2>2, <3>1, <3>3
  <2> QED
    BY <1>10, <2>1, <2>2, ControlEffect, Zenon
<1>11. ASSUME NEW k \in Nat, floor <= k, k <= next, next' = next, store' = store
       PROVE  LiveFrom(k)'
  <2>1. \A n \in k .. next - 1 : ~Free(n)
    BY <1>0, <1>11 DEF NameInv, SpineInv
  <2> QED
    BY <1>11, <2>1, Taken, Zenon DEF LiveFrom
<1>12. ASSUME NEW m \in Replica, mpc'[m] = "put"
       PROVE  mcand'[m] <= next' /\ LiveFrom(mcand[m])'
  <2>1. CASE mpc[m] = "put" /\ mcand'[m] = mcand[m]
    BY <1>0, <1>3, <2>1, Zenon DEF LiveFrom
  <2>2. CASE MergeClaim(m)
    <3>1. PICK t \in Tops(store) :
            mcand' = [mcand EXCEPT ![m] = Larger(IF seq[m] # 0 THEN seq[m] ELSE t, floor)]
      BY <2>2, Zenon DEF MergeClaim
    <3>2. t \in Nat /\ t <= next
      <4>1. \A o \in store : o.name < next /\ o.name \in Nat
        BY Zenon DEF NameInv, SpineInv, TypeOK, Object
      <4> QED
        BY <1>0, <3>1, <4>1 DEF Tops
    <3>3. seq[m] \in Nat /\ seq[m] <= next
      BY Zenon DEF TypeOK, NameInv, MemoryInv
    <3>4. mcand'[m] \in Nat /\ floor <= mcand'[m] /\ mcand'[m] <= next
      BY <1>0, <3>1, <3>2, <3>3 DEF Larger
    <3>5. next' = next /\ store' = store
      BY <2>2, Zenon DEF MergeClaim, durable, history
    <3> QED
      BY <1>11, <3>4, <3>5, Zenon DEF LiveFrom
  <2>3. CASE MergeReclaim(m)
    <3>1. PICK c : FoldedTail(m, c) /\ mcand' = [mcand EXCEPT ![m] = c]
      BY <2>3, Zenon DEF MergeReclaim
    <3>2. mcand'[m] = c /\ Certified(m) = floor
      BY <1>0, <2>3, <3>1, Zenon DEF MergeReclaim, Certified, NameInv, ClaimInv
    <3>3. next' = next /\ store' = store
      BY <2>3, Zenon DEF MergeReclaim, durable, history
    <3>4. c \in Nat /\ floor <= c /\ c <= next
      BY <1>9, <3>1, <3>2, Zenon
    <3> QED
      BY <1>11, <3>2, <3>3, <3>4, Zenon DEF LiveFrom
  <2> QED
    BY <1>12, <2>1, <2>2, <2>3, ControlEffect, Zenon
<1>13. ASSUME NEW m \in Replica, mpc'[m] = "reclaim"
       PROVE  cfloor'[m] \in {-1, floor'}
  <2>1. CASE MergeLost(m)
    BY <2>1, RefreshFacts, Zenon DEF MergeLost, durable
  <2>2. CASE mpc[m] = "reclaim"
    <3>1. cfloor'[m] \in {-1, floor}
      BY <2>2, MemoryEffect, Zenon DEF NameInv, ClaimInv
    <3>2. \A v \in Replica : ~RaiseFloor(v)
      BY <2>2, Zenon DEF NameInv, LeaseInv, RaiseFloor, Holding
    <3>3. floor' = floor
      <4>1. ASSUME NEW v \in Replica, NEW n \in run[v], Delete(v, n)
            PROVE  floor' = floor
        BY <4>1, Zenon DEF Delete
      <4> QED
        BY <3>2, <4>1, StoreChange, Zenon
    <3> QED
      BY <3>1, <3>3, Zenon
  <2> QED
    BY <1>13, <2>1, <2>2, ControlEffect, Zenon
<1> QED
  BY <1>4, <1>7, <1>8, <1>10, <1>12, <1>13, Zenon DEF ClaimInv

-----------------------------------------------------------------------------
(* Theorems.                                                               *)

\* In the initial state nothing exists.
LEMMA InitFacts ==
    ASSUME Init
    PROVE  TypeOK /\ NameInv
<1>1. TypeOK
  BY SegmentLogAssumption, Zenon DEF Init, TypeOK, Object, Request, Entry
<1>2. SpineInv
  <2>1. store = {} /\ made = {} /\ floor = 0 /\ next = 0
    BY Zenon DEF Init
  <2>2. \A n \in 0 .. 0 - 1 : FALSE
    OBVIOUS
  <2>3. 0 <= 0
    OBVIOUS
  <2> QED
    BY <2>1, <2>2, <2>3, Zenon DEF SpineInv, NameNeverReused
<1>3. MemoryInv
  <2>1. \A r \in Replica : /\ cfloor[r] = -1 /\ seq[r] = 0 /\ idx[r] = {} /\ run[r] = {}
                           /\ mpc[r] = "idle" /\ floor = 0 /\ next = 0
    BY Zenon DEF Init
  <2>2. -1 <= 0 /\ 0 <= 0
    OBVIOUS
  <2> QED
    BY <2>1, <2>2, Zenon DEF MemoryInv
<1>4. ClaimInv
  BY Zenon DEF Init, ClaimInv, Claiming
<1>5. LeaseInv
  BY Zenon DEF Init, LeaseInv, Holding
<1> QED
  BY <1>1, <1>2, <1>3, <1>4, <1>5, Zenon DEF NameInv

\* Every variable keeps its type, whatever the interleaving and the faults: the
\* handlers never leave a control point, a name or an offset ill-formed.
THEOREM TypeCorrect == Spec => []TypeOK
<1>1. Init => TypeOK
  BY InitFacts, Zenon
<1>2. TypeOK /\ [Next]_vars => TypeOK'
  BY TypeStep, Zenon
<1> QED
  BY <1>1, <1>2, PTL DEF Spec

\* The names and the floors stay consistent, provided that no claim outlives
\* the retirement of the names it started from.
THEOREM NamesConsistent == BoundedPause => (Spec => []NameInv)
<1> SUFFICES ASSUME BoundedPause PROVE Spec => []NameInv
  BY Zenon
<1>1. Init => TypeOK /\ NameInv
  BY InitFacts, Zenon
<1>2. TypeOK /\ NameInv /\ [Next]_vars => TypeOK' /\ NameInv'
  <2> SUFFICES ASSUME TypeOK, NameInv, [Next]_vars
               PROVE  TypeOK' /\ NameInv'
    BY Zenon
  <2>1. TypeOK'
    BY TypeStep, Zenon
  <2>2. SpineInv'
    BY SpineStep, Zenon
  <2>3. MemoryInv'
    BY <2>1, <2>2, MemoryStep, Zenon
  <2>4. LeaseInv'
    BY <2>1, LeaseStep, Zenon
  <2>5. ClaimInv'
    BY <2>1, <2>2, <2>4, ClaimStep, Zenon
  <2> QED
    BY <2>1, <2>2, <2>3, <2>4, <2>5, Zenon DEF NameInv
<1> QED
  BY <1>1, <1>2, PTL DEF Spec

\* A segment name is created at most once: the create-only PUT of a flush or a
\* merge never succeeds on a name that was retired.
THEOREM NamesNeverReused == BoundedPause => (Spec => []NameNeverReused)
<1>1. NameInv => NameNeverReused
  BY Zenon DEF NameInv, SpineInv
<1> QED
  BY <1>1, NamesConsistent, PTL

\* The sequence floor is ahead of every delete: retire_segments writes it
\* before the first object goes.
THEOREM FloorWriteAhead == BoundedPause => (Spec => []FloorAhead)
<1>1. TypeOK /\ NameInv => FloorAhead
  <2> SUFFICES ASSUME TypeOK, NameInv, NEW o \in made, Free(o.name)
               PROVE  o.name < floor
    BY Zenon DEF FloorAhead
  <2>1. o.name \in Nat /\ o.name < next /\ next \in Nat
    BY Zenon DEF TypeOK, Object, NameInv, SpineInv
  <2> QED
    BY <2>1 DEF NameInv, SpineInv
<1> QED
  BY <1>1, NamesConsistent, TypeCorrect, PTL

-----------------------------------------------------------------------------
(* Windows.                                                                *)

\* A replica that claims has its window to itself until it sends it: nothing
\* that could still be created carries its nonce.
Unsent(w) ==
    /\ \A o \in made : o.by # cur[w]
    /\ \A q \in net : q.obj.by = cur[w] => q.obj.name < next

\* What a step that sends nothing does to the window of a replica.
Turn(v) ==
    \/ /\ wpc'[v] = wpc[v] /\ cur'[v] = cur[v] /\ cand'[v] = cand[v] /\ base'[v] = base[v]
    \/ wpc'[v] = "idle" /\ cur'[v] = Nil
    \/ wpc[v] # "idle" /\ wpc'[v] # "idle" /\ cur'[v] = cur[v] /\ Unsent(v)

\* A lost claim is unsent again: its name went to another nonce.
LEMMA LostUnsent ==
    ASSUME TypeOK, NameInv, WindowInv, NEW w \in Replica, wpc[w] = "probe",
           NEW o \in store, o.name = cand[w], o.by # cur[w]
    PROVE  Unsent(w)
<1>0. Segment(w).name = cand[w] /\ Segment(w).by = cur[w] /\ o \in made /\ o.name < next
  BY Zenon DEF Segment, NameInv, SpineInv
<1>1. ASSUME NEW p \in made, p.by = cur[w]
      PROVE  FALSE
  <2>1. p = Segment(w)
    BY <1>1, Zenon DEF WindowInv
  <2> QED
    BY <1>0, <1>1, <2>1, Zenon DEF NameInv, SpineInv, NameNeverReused
<1>2. ASSUME NEW q \in net, q.obj.by = cur[w]
      PROVE  q.obj.name < next
  <2>1. q.obj.name < next \/ q.obj = Segment(w)
    BY <1>2, Zenon DEF WindowInv
  <2> QED
    BY <1>0, <2>1, Zenon
<1> QED
  BY <1>1, <1>2, Zenon DEF Unsent

\* A flush that has not sent its window is unsent.
LEMMA ClaimUnsent ==
    ASSUME WindowInv, NEW w \in Replica, wpc[w] \notin {"idle", "probe"}
    PROVE  Unsent(w)
BY Zenon DEF WindowInv, Unsent

\* Steps that create nothing and send nothing keep the windows apart.
LEMMA WindowTurn ==
    ASSUME TypeOK, WindowInv, made' = made, net' = net, next' = next,
           \A v \in Replica : Turn(v)
    PROVE  WindowInv'
<1>1. ASSUME NEW w \in Replica
      PROVE  /\ (wpc[w] = "idle" <=> cur[w] = Nil)'
             /\ cur'[w] = Nil \/ cur'[w] = cur[w]
             /\ \A o \in made : wpc'[w] # "idle" /\ o.by = cur'[w] =>
                                  wpc'[w] = "probe" /\ o = Segment(w)'
             /\ \A q \in net : wpc'[w] # "idle" /\ q.obj.by = cur'[w] =>
                  q.obj.name < next \/ (wpc'[w] = "probe" /\ q.obj = Segment(w)')
  <2>1. CASE wpc'[w] = wpc[w] /\ cur'[w] = cur[w] /\ cand'[w] = cand[w] /\ base'[w] = base[w]
    <3>1. Segment(w)' = Segment(w)
      BY <2>1, Zenon DEF Segment, Carried
    <3> QED
      BY <2>1, <3>1, Zenon DEF WindowInv
  <2>2. CASE wpc'[w] = "idle" /\ cur'[w] = Nil
    BY <2>2, Zenon
  <2>3. CASE wpc[w] # "idle" /\ wpc'[w] # "idle" /\ cur'[w] = cur[w] /\ Unsent(w)
    BY <2>3, Zenon DEF WindowInv, Unsent
  <2> QED
    BY <2>1, <2>2, <2>3, Zenon DEF Turn
<1>2. ASSUME NEW v \in Replica, NEW w \in Replica, cur'[v] = cur'[w], cur'[v] # Nil
      PROVE  v = w
  <2>1. cur'[v] = cur[v] /\ cur'[w] = cur[w]
    BY <1>1, <1>2, Zenon
  <2> QED
    BY <1>2, <2>1, Zenon DEF WindowInv
<1>3. /\ \A o, p \in made' : o.by = p.by /\ o.by # Nil => o = p
      /\ \A o \in made', q \in net' : o.by = q.obj.by /\ o.by # Nil => q.obj.name < next'
      /\ \A p, q \in net' : p.obj.by = q.obj.by /\ p.obj.by # Nil =>
           p.obj = q.obj \/ p.obj.name < next' \/ q.obj.name < next'
  BY Zenon DEF WindowInv
<1>4. /\ \A w \in Replica : \A o \in made' :
           wpc'[w] # "idle" /\ o.by = cur'[w] => wpc'[w] = "probe" /\ o = Segment(w)'
      /\ \A w \in Replica : \A q \in net' :
           wpc'[w] # "idle" /\ q.obj.by = cur'[w] =>
             q.obj.name < next' \/ (wpc'[w] = "probe" /\ q.obj = Segment(w)')
  BY <1>1, Zenon
<1>5. \A w \in Replica : (wpc[w] = "idle" <=> cur[w] = Nil)'
  BY <1>1, Zenon
<1> QED
  BY <1>2, <1>3, <1>4, <1>5, Zenon DEF WindowInv

\* What a step that sends nothing does to the windows.
LEMMA Turns ==
    ASSUME TypeOK, NameInv, WindowInv, NEW w \in Replica,
           \/ FlushRefresh(w) \/ FoldWinner(w) \/ FoldFailed(w) \/ Claim(w)
           \/ (\E x \in Substream : DeriveBase(w, x)) \/ PutExists(w) \/ ProbeOurs(w)
           \/ ProbeTheirs(w) \/ FailFlush(w) \/ Crash(w)
    PROVE  /\ made' = made /\ net' = net /\ next' = next
           /\ \A v \in Replica : Turn(v)
<1>0. /\ wpc = [r \in Replica |-> wpc[r]] /\ cur = [r \in Replica |-> cur[r]]
      /\ cand = [r \in Replica |-> cand[r]] /\ base = [r \in Replica |-> base[r]]
  BY Zenon DEF TypeOK
<1> DEFINE Goal == /\ made' = made /\ net' = net /\ next' = next
                   /\ \A v \in Replica : Turn(v)
<1>1. CASE FlushRefresh(w) \/ FoldWinner(w) \/ FoldFailed(w)
  <2>1. Unsent(w)
    BY <1>1, ClaimUnsent, Zenon DEF FlushRefresh, FoldWinner, FoldFailed
  <2> QED
    BY <1>0, <1>1, <2>1, Zenon DEF FlushRefresh, FoldWinner, FoldFailed, Turn, durable, history
<1>2. CASE Claim(w) \/ \E x \in Substream : DeriveBase(w, x)
  <2>1. Unsent(w)
    BY <1>2, ClaimUnsent, Zenon DEF Claim, DeriveBase
  <2>2. wpc[w] # "idle" /\ wpc'[w] # "idle" /\ cur'[w] = cur[w]
    BY <1>0, <1>2, Zenon DEF Claim, DeriveBase
  <2>3. \A v \in Replica : v # w => wpc'[v] = wpc[v] /\ cur'[v] = cur[v]
                                   /\ cand'[v] = cand[v] /\ base'[v] = base[v]
    BY <1>0, <1>2, Zenon DEF Claim, DeriveBase
  <2> QED
    BY <1>2, <2>1, <2>2, <2>3, Zenon DEF Claim, DeriveBase, Turn, durable, history
<1>3. CASE PutExists(w) \/ ProbeTheirs(w)
  <2>1. Unsent(w)
    BY <1>3, ClaimUnsent, LostUnsent, Zenon DEF PutExists, ProbeTheirs, Ready
  <2> QED
    BY <1>0, <1>3, <2>1, Zenon DEF PutExists, ProbeTheirs, Ready, Turn, durable, history
<1>4. CASE ProbeOurs(w) \/ FailFlush(w) \/ Crash(w)
  <2>1. EndFlush(w) /\ made' = made /\ net' = net /\ next' = next
    BY <1>4, Zenon DEF ProbeOurs, FailFlush, Crash, Won, durable, history
  <2> QED
    BY <1>0, <2>1, Zenon DEF EndFlush, Turn
<1> QED
  BY <1>1, <1>2, <1>3, <1>4, Zenon

\* The order of names survives a growth of next.
LEMMA StillBelow ==
    ASSUME TypeOK, next' = next + 1
    PROVE  \A q \in net : q.obj.name < next => q.obj.name < next'
<1>1. next \in Nat /\ \A q \in net : q.obj.name \in Nat
  BY Zenon DEF TypeOK, Request, Object
<1> QED
  BY <1>1, NatStrict, Zenon

\* A flush creates its window.
LEMMA WindowCreate ==
    ASSUME TypeOK, WindowInv, NEW w \in Replica, Ready(w), cand[w] = next, next' = next + 1,
           made' = made \cup {Segment(w)}, net' = net,
           \A v \in Replica : v # w => /\ wpc'[v] = wpc[v] /\ cur'[v] = cur[v]
                                      /\ cand'[v] = cand[v] /\ base'[v] = base[v],
           \/ wpc'[w] = "idle" /\ cur'[w] = Nil
           \/ wpc'[w] = "probe" /\ cur'[w] = cur[w] /\ cand'[w] = cand[w] /\ base'[w] = base[w]
    PROVE  WindowInv'
<1> DEFINE o == Segment(w)
<1>0. o.by = cur[w] /\ o.by # Nil /\ wpc[w] # "idle" /\ o.name = next
  BY Zenon DEF Segment, Ready, WindowInv
<1>1. Unsent(w)
  BY ClaimUnsent, Zenon DEF Ready
<1>2. \A v \in Replica : v # w => Segment(v)' = Segment(v)
  BY Zenon DEF Segment, Carried
<1>3. wpc'[w] = "probe" => Segment(w)' = o
  BY Zenon DEF Segment, Carried
<1>4. \A q \in net : q.obj.name < next => q.obj.name < next'
  BY StillBelow, Zenon
<1>5. ASSUME NEW v \in Replica
      PROVE  /\ (wpc[v] = "idle" <=> cur[v] = Nil)'
             /\ \A p \in made' : wpc'[v] # "idle" /\ p.by = cur'[v] =>
                                   wpc'[v] = "probe" /\ p = Segment(v)'
             /\ \A q \in net' : wpc'[v] # "idle" /\ q.obj.by = cur'[v] =>
                  q.obj.name < next' \/ (wpc'[v] = "probe" /\ q.obj = Segment(v)')
  <2>1. CASE v = w
    BY <1>0, <1>1, <1>3, <1>4, <2>1, Zenon DEF Unsent
  <2>2. CASE v # w
    <3>1. wpc[v] # "idle" => cur[v] # o.by
      BY <1>0, <2>2, Zenon DEF WindowInv
    <3>2. /\ wpc'[v] = wpc[v] /\ cur'[v] = cur[v] /\ Segment(v)' = Segment(v)
          /\ \A p \in made' : p.by = o.by \/ p \in made
      BY <1>2, <2>2, Zenon
    <3>3. /\ wpc[v] = "idle" <=> cur[v] = Nil
          /\ \A p \in made : wpc[v] # "idle" /\ p.by = cur[v] => wpc[v] = "probe" /\ p = Segment(v)
          /\ \A q \in net : wpc[v] # "idle" /\ q.obj.by = cur[v] =>
               q.obj.name < next \/ (wpc[v] = "probe" /\ q.obj = Segment(v))
      BY Zenon DEF WindowInv
    <3> QED
      BY <1>4, <3>1, <3>2, <3>3, Zenon
  <2> QED
    BY <2>1, <2>2, Zenon
<1>6. \A u, v \in Replica : cur'[u] = cur'[v] /\ cur'[u] # Nil => u = v
  <2>1. \A v \in Replica : cur'[v] = Nil \/ cur'[v] = cur[v]
    BY Zenon
  <2>2. \A u, v \in Replica : cur[u] = cur[v] /\ cur[u] # Nil => u = v
    BY Zenon DEF WindowInv
  <2> QED
    <3> SUFFICES ASSUME NEW u \in Replica, NEW v \in Replica, cur'[u] = cur'[v], cur'[u] # Nil
                 PROVE  u = v
      BY Zenon
    <3>1. cur'[u] = cur[u] /\ cur'[v] = cur[v]
      BY <2>1, Zenon
    <3> QED
      BY <2>2, <3>1, Zenon
<1>7. \A p, q \in made' : p.by = q.by /\ p.by # Nil => p = q
  BY <1>0, <1>1, Zenon DEF WindowInv, Unsent
<1>8. \A p \in made', q \in net' : p.by = q.obj.by /\ p.by # Nil => q.obj.name < next'
  BY <1>0, <1>1, <1>4, Zenon DEF WindowInv, Unsent
<1>9. \A p, q \in net' : p.obj.by = q.obj.by /\ p.obj.by # Nil =>
        p.obj = q.obj \/ p.obj.name < next' \/ q.obj.name < next'
  BY <1>4, Zenon DEF WindowInv
<1> QED
  BY <1>5, <1>6, <1>7, <1>8, <1>9, Zenon DEF WindowInv

\* A flush sends its window and does not learn whether it landed.
LEMMA WindowSend ==
    ASSUME TypeOK, WindowInv, NEW w \in Replica, Ready(w), next' = next, made' = made,
           NEW n, net' = net \cup {[obj |-> Segment(w), since |-> n]},
           \A v \in Replica : /\ v # w => wpc'[v] = wpc[v]
                              /\ cur'[v] = cur[v] /\ cand'[v] = cand[v] /\ base'[v] = base[v],
           wpc'[w] = "probe"
    PROVE  WindowInv'
<1> DEFINE o == Segment(w)
<1>0. o.by = cur[w] /\ o.by # Nil /\ wpc[w] # "idle"
  BY Zenon DEF Segment, Ready, WindowInv
<1>1. Unsent(w)
  BY ClaimUnsent, Zenon DEF Ready
<1>2. \A v \in Replica : Segment(v)' = Segment(v)
  BY Zenon DEF Segment, Carried
<1>3. \A q \in net' : q \in net \/ q.obj = o
  OBVIOUS
<1>4. ASSUME NEW v \in Replica
      PROVE  /\ (wpc[v] = "idle" <=> cur[v] = Nil)'
             /\ \A p \in made' : wpc'[v] # "idle" /\ p.by = cur'[v] =>
                                   wpc'[v] = "probe" /\ p = Segment(v)'
             /\ \A q \in net' : wpc'[v] # "idle" /\ q.obj.by = cur'[v] =>
                  q.obj.name < next' \/ (wpc'[v] = "probe" /\ q.obj = Segment(v)')
  <2>1. CASE v = w
    BY <1>0, <1>1, <1>2, <1>3, <2>1, Zenon DEF Unsent
  <2>2. CASE v # w
    <3>1. wpc[v] # "idle" => cur[v] # o.by
      BY <1>0, <2>2, Zenon DEF WindowInv
    <3>2. /\ wpc'[v] = wpc[v] /\ cur'[v] = cur[v] /\ Segment(v)' = Segment(v)
          /\ \A q \in net' : q.obj.by = o.by \/ q \in net
      BY <1>2, <1>3, <2>2, Zenon
    <3>3. /\ wpc[v] = "idle" <=> cur[v] = Nil
          /\ \A p \in made : wpc[v] # "idle" /\ p.by = cur[v] => wpc[v] = "probe" /\ p = Segment(v)
          /\ \A q \in net : wpc[v] # "idle" /\ q.obj.by = cur[v] =>
               q.obj.name < next \/ (wpc[v] = "probe" /\ q.obj = Segment(v))
      BY Zenon DEF WindowInv
    <3> QED
      BY <3>1, <3>2, <3>3, Zenon
  <2> QED
    BY <2>1, <2>2, Zenon
<1>5. \A u, v \in Replica : cur'[u] = cur'[v] /\ cur'[u] # Nil => u = v
  <2>1. \A u, v \in Replica : cur[u] = cur[v] /\ cur[u] # Nil => u = v
    BY Zenon DEF WindowInv
  <2> QED
    BY <2>1, Zenon
<1>6. \A p \in made', q \in net' : p.by = q.obj.by /\ p.by # Nil => q.obj.name < next'
  BY <1>0, <1>1, <1>3, Zenon DEF WindowInv, Unsent
<1>7. \A p, q \in net' : p.obj.by = q.obj.by /\ p.obj.by # Nil =>
        p.obj = q.obj \/ p.obj.name < next' \/ q.obj.name < next'
  <2>1. \A q \in net : q.obj.by = o.by => q.obj.name < next'
    BY <1>0, <1>1, Zenon DEF Unsent
  <2>2. \A p, q \in net : p.obj.by = q.obj.by /\ p.obj.by # Nil =>
          p.obj = q.obj \/ p.obj.name < next' \/ q.obj.name < next'
    BY Zenon DEF WindowInv
  <2>3. ASSUME NEW p \in net', NEW q \in net', p.obj.by = q.obj.by, p.obj.by # Nil
        PROVE  p.obj = q.obj \/ p.obj.name < next' \/ q.obj.name < next'
    <3>1. CASE p \in net /\ q \in net
      BY <2>2, <2>3, <3>1, Zenon
    <3>2. CASE p.obj = o
      BY <1>3, <2>1, <2>3, <3>2, Zenon
    <3>3. CASE q.obj = o
      BY <1>3, <2>1, <2>3, <3>3, Zenon
    <3> QED
      BY <1>3, <3>1, <3>2, <3>3, Zenon
  <2> QED
    BY <2>3, Zenon
<1>8. \A p, q \in made' : p.by = q.by /\ p.by # Nil => p = q
  BY Zenon DEF WindowInv
<1> QED
  BY <1>4, <1>5, <1>6, <1>7, <1>8, Zenon DEF WindowInv

\* A merge creates or sends a segment of no flush.
LEMMA WindowMerge ==
    ASSUME TypeOK, WindowInv, UNCHANGED wvars,
           next' = next \/ next' = next + 1,
           \A o \in made' : o \in made \/ o.by = Nil,
           \A q \in net' : q \in net \/ q.obj.by = Nil
    PROVE  WindowInv'
<1>1. wpc' = wpc /\ cur' = cur /\ \A v \in Replica : Segment(v)' = Segment(v)
  BY Zenon DEF wvars, Segment, Carried
<1>2. \A q \in net : q.obj.name < next => q.obj.name < next'
  BY StillBelow, Zenon
<1>3. /\ \A w \in Replica : wpc[w] = "idle" <=> cur[w] = Nil
      /\ \A v, w \in Replica : cur[v] = cur[w] /\ cur[v] # Nil => v = w
  BY Zenon DEF WindowInv
<1>4. ASSUME NEW w \in Replica, wpc[w] # "idle"
      PROVE  /\ \A o \in made' : o.by = cur[w] => wpc[w] = "probe" /\ o = Segment(w)
             /\ \A q \in net' : q.obj.by = cur[w] =>
                  q.obj.name < next' \/ (wpc[w] = "probe" /\ q.obj = Segment(w))
  <2>1. cur[w] # Nil
    BY <1>3, <1>4, Zenon
  <2>2. \A o \in made : o.by = cur[w] => wpc[w] = "probe" /\ o = Segment(w)
    BY <1>4, Zenon DEF WindowInv
  <2>3. \A q \in net : q.obj.by = cur[w] =>
          q.obj.name < next \/ (wpc[w] = "probe" /\ q.obj = Segment(w))
    BY <1>4, Zenon DEF WindowInv
  <2> QED
    BY <1>2, <2>1, <2>2, <2>3, Zenon
<1>5. \A o, p \in made' : o.by = p.by /\ o.by # Nil => o = p
  BY Zenon DEF WindowInv
<1>6. \A o \in made', q \in net' : o.by = q.obj.by /\ o.by # Nil => q.obj.name < next'
  <2>1. \A o \in made, q \in net : o.by = q.obj.by /\ o.by # Nil => q.obj.name < next
    BY Zenon DEF WindowInv
  <2> QED
    BY <1>2, <2>1, Zenon
<1>7. \A p, q \in net' : p.obj.by = q.obj.by /\ p.obj.by # Nil =>
        p.obj = q.obj \/ p.obj.name < next' \/ q.obj.name < next'
  <2>1. \A p, q \in net : p.obj.by = q.obj.by /\ p.obj.by # Nil =>
          p.obj = q.obj \/ p.obj.name < next \/ q.obj.name < next
    BY Zenon DEF WindowInv
  <2> QED
    BY <1>2, <2>1, Zenon
<1> QED
  BY <1>1, <1>3, <1>4, <1>5, <1>6, <1>7, Zenon DEF WindowInv

\* A create in flight lands: nothing else carries its nonce.
LEMMA WindowLate ==
    ASSUME TypeOK, WindowInv, UNCHANGED wvars, NEW q \in net, q.obj.name = next,
           next' = next + 1, made' = made \cup {q.obj}, net' = net \ {q}
    PROVE  WindowInv'
<1>0. next \in Nat /\ ~(q.obj.name < next) /\ q.obj.name < next'
  <2>1. next \in Nat
    BY Zenon DEF TypeOK
  <2> QED
    BY <2>1, NatUnary, Zenon
<1>1. wpc' = wpc /\ cur' = cur /\ \A v \in Replica : Segment(v)' = Segment(v)
  BY Zenon DEF wvars, Segment, Carried
<1>2. \A p \in net : p.obj.name < next => p.obj.name < next'
  BY StillBelow, Zenon
<1>3. /\ \A w \in Replica : wpc[w] = "idle" <=> cur[w] = Nil
      /\ \A v, w \in Replica : cur[v] = cur[w] /\ cur[v] # Nil => v = w
  BY Zenon DEF WindowInv
<1>4. ASSUME NEW w \in Replica, wpc[w] # "idle"
      PROVE  /\ \A o \in made' : o.by = cur[w] => wpc[w] = "probe" /\ o = Segment(w)
             /\ \A p \in net' : p.obj.by = cur[w] =>
                  p.obj.name < next' \/ (wpc[w] = "probe" /\ p.obj = Segment(w))
  <2>1. \A o \in made : o.by = cur[w] => wpc[w] = "probe" /\ o = Segment(w)
    BY <1>4, Zenon DEF WindowInv
  <2>2. \A p \in net : p.obj.by = cur[w] =>
          p.obj.name < next \/ (wpc[w] = "probe" /\ p.obj = Segment(w))
    BY <1>4, Zenon DEF WindowInv
  <2> QED
    BY <1>0, <1>2, <2>1, <2>2, Zenon
<1>5. \A o \in made, p \in net : o.by = p.obj.by /\ o.by # Nil => p.obj.name < next
  BY Zenon DEF WindowInv
<1>6. \A o, p \in made' : o.by = p.by /\ o.by # Nil => o = p
  <2>1. \A o, p \in made : o.by = p.by /\ o.by # Nil => o = p
    BY Zenon DEF WindowInv
  <2> QED
    BY <1>0, <1>5, <2>1, Zenon
<1>7. \A s, p \in net : s.obj.by = p.obj.by /\ s.obj.by # Nil =>
        s.obj = p.obj \/ s.obj.name < next \/ p.obj.name < next
  BY Zenon DEF WindowInv
<1>8. \A o \in made', p \in net' : o.by = p.obj.by /\ o.by # Nil => p.obj.name < next'
  BY <1>0, <1>2, <1>5, <1>7, Zenon
<1>9. \A s, p \in net' : s.obj.by = p.obj.by /\ s.obj.by # Nil =>
        s.obj = p.obj \/ s.obj.name < next' \/ p.obj.name < next'
  BY <1>2, <1>7, Zenon
<1> QED
  BY <1>1, <1>3, <1>4, <1>6, <1>8, <1>9, Zenon DEF WindowInv

\* A flush takes a window that nothing carries.
LEMMA WindowStart ==
    ASSUME TypeOK, WindowInv, NEW w \in Replica, NEW f \in Flush, StartFlush(w, f)
    PROVE  WindowInv'
<1>0. /\ wpc = [r \in Replica |-> wpc[r]] /\ cur = [r \in Replica |-> cur[r]]
  BY Zenon DEF TypeOK
<1>1. /\ made' = made /\ net' = net /\ next' = next /\ cand' = cand /\ base' = base
      /\ \A o \in made : o.by # f
      /\ \A q \in net : q.obj.by # f
      /\ \A v \in Replica : cur[v] # f
      /\ wpc'[w] = "refresh" /\ cur'[w] = f
      /\ \A v \in Replica : v # w => wpc'[v] = wpc[v] /\ cur'[v] = cur[v]
  BY <1>0, Zenon DEF StartFlush, durable, history
<1>2. f # Nil
  BY SegmentLogAssumption, Zenon
<1>3. ASSUME NEW v \in Replica
      PROVE  /\ (wpc[v] = "idle" <=> cur[v] = Nil)'
             /\ \A p \in made : wpc'[v] # "idle" /\ p.by = cur'[v] =>
                                   wpc'[v] = "probe" /\ p = Segment(v)'
             /\ \A q \in net : wpc'[v] # "idle" /\ q.obj.by = cur'[v] =>
                  q.obj.name < next \/ (wpc'[v] = "probe" /\ q.obj = Segment(v)')
  <2>1. CASE v = w
    BY <1>1, <1>2, <2>1, Zenon
  <2>2. CASE v # w
    <3>1. wpc'[v] = wpc[v] /\ cur'[v] = cur[v] /\ Segment(v)' = Segment(v)
      BY <1>1, <2>2, Zenon DEF Segment, Carried
    <3> QED
      BY <3>1, Zenon DEF WindowInv
  <2> QED
    BY <2>1, <2>2, Zenon
<1>4. ASSUME NEW u \in Replica, NEW v \in Replica, cur'[u] = cur'[v], cur'[u] # Nil
      PROVE  u = v
  <2>1. \A s, t \in Replica : cur[s] = cur[t] /\ cur[s] # Nil => s = t
    BY Zenon DEF WindowInv
  <2> QED
    BY <1>1, <1>4, <2>1, Zenon
<1>5. /\ \A o, p \in made : o.by = p.by /\ o.by # Nil => o = p
      /\ \A o \in made, q \in net : o.by = q.obj.by /\ o.by # Nil => q.obj.name < next
      /\ \A p, q \in net : p.obj.by = q.obj.by /\ p.obj.by # Nil =>
           p.obj = q.obj \/ p.obj.name < next \/ q.obj.name < next
  BY Zenon DEF WindowInv
<1> QED
  BY <1>1, <1>3, <1>4, <1>5, Zenon DEF WindowInv

\* Every step keeps the windows apart.
LEMMA WindowStep ==
    ASSUME TypeOK, NameInv, WindowInv, [Next]_vars
    PROVE  WindowInv'
<1>0. /\ wpc = [r \in Replica |-> wpc[r]] /\ cur = [r \in Replica |-> cur[r]]
      /\ cand = [r \in Replica |-> cand[r]] /\ base = [r \in Replica |-> base[r]]
  BY Zenon DEF TypeOK
<1>1. ASSUME UNCHANGED <<wvars, made, net, next>>
      PROVE  WindowInv'
  BY <1>1, WindowMerge, Zenon
<1>2. ASSUME NEW w \in Replica,
             \/ FlushRefresh(w) \/ FoldWinner(w) \/ FoldFailed(w) \/ Claim(w)
             \/ (\E x \in Substream : DeriveBase(w, x)) \/ PutExists(w) \/ ProbeOurs(w)
             \/ ProbeTheirs(w) \/ FailFlush(w) \/ Crash(w)
      PROVE  WindowInv'
  BY <1>2, Turns, WindowTurn, Zenon
<1>a. \A w \in Replica : Segment(w).name = cand[w] /\ (Ready(w) => Sent(Segment(w)))
  <2>1. \A w \in Replica : Segment(w).name = cand[w]
    BY Zenon DEF Segment
  <2> QED
    BY <2>1, Zenon DEF Sent
<1>3. ASSUME NEW w \in Replica, PutOk(w)
      PROVE  WindowInv'
  <2>1. Ready(w) /\ Free(cand[w]) /\ Create(Segment(w)) /\ EndFlush(w) /\ net' = net
    BY <1>3, Zenon DEF PutOk, Won
  <2>2. cand[w] = next /\ next' = next + 1 /\ made' = made \cup {Segment(w)}
    BY <1>a, <2>1, Lands, Zenon DEF Create
  <2> QED
    BY <1>0, <2>1, <2>2, WindowCreate, Zenon DEF EndFlush
<1>4. ASSUME NEW w \in Replica, PutError(w)
      PROVE  WindowInv'
  <2>1. /\ Ready(w) /\ UNCHANGED <<cur, cand, base>>
        /\ wpc'[w] = "probe" /\ \A v \in Replica : v # w => wpc'[v] = wpc[v]
        /\ cur[w] # Nil
    BY <1>0, <1>4, Zenon DEF PutError, Ready, WindowInv
  <2>2. CASE Free(cand[w]) /\ Create(Segment(w)) /\ net' = net
    <3>1. cand[w] = next /\ next' = next + 1 /\ made' = made \cup {Segment(w)}
      BY <1>a, <2>1, <2>2, Lands, Zenon DEF Create
    <3> QED
      BY <2>1, <2>2, <3>1, WindowCreate, Zenon
  <2>3. CASE net' = net \cup {[obj |-> Segment(w), since |-> since[w]]} /\ made' = made /\ next' = next
    BY <2>1, <2>3, WindowSend, Zenon
  <2>4. CASE net' = net /\ made' = made /\ next' = next
    <3>1. Unsent(w) /\ wpc[w] # "idle"
      BY <2>1, ClaimUnsent, Zenon DEF Ready
    <3>2. \A v \in Replica : Turn(v)
      BY <2>1, <3>1, Zenon DEF Turn
    <3> QED
      BY <2>4, <3>2, WindowTurn, Zenon
  <2> QED
    BY <1>4, <2>2, <2>3, <2>4, Zenon DEF PutError
<1>5. ASSUME NEW w \in Replica, FlushStep(w)
      PROVE  WindowInv'
  BY <1>2, <1>3, <1>4, <1>5, WindowStart, Zenon DEF FlushStep
<1>6. ASSUME NEW m \in Replica, MergeOk(m) \/ MergeError(m)
      PROVE  WindowInv'
  <2>1. mpc[m] = "put" /\ UNCHANGED wvars
    BY <1>6, Zenon DEF MergeOk, MergeError
  <2>2. Merged(m).by = Nil /\ Merged(m).name = mcand[m]
    BY Zenon DEF Merged
  <2>3. CASE Free(mcand[m]) /\ Create(Merged(m)) /\ net' = net
    <3>1. next' = next + 1 /\ made' = made \cup {Merged(m)}
      BY <2>1, <2>2, <2>3, Lands, Zenon DEF Sent, Create
    <3> QED
      BY <2>1, <2>2, <2>3, <3>1, WindowMerge, Zenon
  <2>4. CASE net' = net \cup {[obj |-> Merged(m), since |-> mcand[m]]} /\ made' = made /\ next' = next
    <3>1. \A q \in net' : q \in net \/ q.obj = Merged(m)
      BY <2>4, RequestObject, Zenon
    <3> QED
      BY <2>1, <2>2, <2>4, <3>1, WindowMerge, Zenon
  <2>5. CASE net' = net /\ made' = made /\ next' = next
    BY <1>1, <2>1, <2>5, Zenon
  <2> QED
    BY <1>6, <2>3, <2>4, <2>5, Zenon DEF MergeOk, MergeError
<1>7. ASSUME NEW m \in Replica, MaintenanceStep(m)
      PROVE  WindowInv'
  <2>1. \/ UNCHANGED <<wvars, made, net, next>>
        \/ MergeOk(m) \/ MergeError(m)
    BY <1>7, Zenon
       DEF MaintenanceStep, SelectExpired, SelectRun, AcquireLease, WriteHigh, HighsWritten,
         FetchRun, FetchGhost, MergeClaim, InsertMerged, FoldBelowWon, MergeLost,
         MergeReclaim, MergeProbeOurs, RaiseFloor, Retired, Abort, Delete, durable, history
  <2> QED
    BY <1>1, <1>6, <2>1, Zenon
<1>8. ASSUME NEW q \in net, LatePut(q)
      PROVE  WindowInv'
  <2>1. CASE Free(q.obj.name)
    <3>1. Create(q.obj) /\ net' = net \ {q} /\ UNCHANGED wvars
      BY <1>8, <2>1, Zenon DEF LatePut
    <3>2. q.obj.name = next /\ next' = next + 1 /\ made' = made \cup {q.obj}
      BY <2>1, <3>1, Lands, Zenon DEF Sent, Create
    <3> QED
      BY <3>1, <3>2, WindowLate, Zenon
  <2>2. CASE ~Free(q.obj.name)
    <3>1. UNCHANGED <<wvars, made, next>> /\ net' = net \ {q}
      BY <1>8, <2>2, Zenon DEF LatePut
    <3> QED
      BY <3>1, WindowMerge, Zenon
  <2> QED
    BY <2>1, <2>2, Zenon
<1>9. ASSUME NEW r \in Replica, Sync(r)
      PROVE  WindowInv'
  BY <1>1, <1>9, Zenon DEF Sync, durable, history
<1> QED
  BY <1>1, <1>2, <1>5, <1>7, <1>8, <1>9, SegmentLogAssumption, Zenon DEF Next, vars, durable, history

-----------------------------------------------------------------------------
(* Passes.                                                                 *)

\* What a step does to the pass of a replica: it goes on, ends or begins.
PassTurn(v) ==
    \/ /\ pass'[v] = pass[v] /\ run'[v] = run[v]
       /\ mpc'[v] # "idle" =>
            /\ mpc[v] # "idle"
            /\ \/ mpc[v] \in {"selected", "high", "fetch"}
               \/ load'[v] = load[v] /\ mpc'[v] \notin {"selected", "high", "fetch"}
    \/ mpc'[v] = "idle" /\ pass'[v] = 0
    \/ /\ mpc[v] = "idle" /\ mpc'[v] = "selected"
       /\ pass'[v] = passes + 1 /\ passes' = passes + 1

\* A pass of another replica is left alone.
LEMMA PassAlone ==
    ASSUME NEW v \in Replica, mpc'[v] = mpc[v], pass'[v] = pass[v], run'[v] = run[v],
           load'[v] = load[v]
    PROVE  PassTurn(v)
BY Zenon DEF PassTurn

\* Every step begins at most one pass, with the next nonce.
LEMMA PassTurns ==
    ASSUME TypeOK, [Next]_vars
    PROVE  /\ \A v \in Replica : PassTurn(v)
           /\ \/ passes' = passes
              \/ passes' = passes + 1 /\ \A u, v \in Replica :
                                          pass'[u] = passes' /\ pass'[v] = passes' => u = v
                                          \/ pass[u] = passes' \/ pass[v] = passes'
<1> DEFINE Still(v) == /\ mpc'[v] = mpc[v] /\ pass'[v] = pass[v] /\ run'[v] = run[v]
                       /\ load'[v] = load[v]
<1>0. /\ mpc = [r \in Replica |-> mpc[r]] /\ pass = [r \in Replica |-> pass[r]]
      /\ run = [r \in Replica |-> run[r]] /\ load = [r \in Replica |-> load[r]]
  BY Zenon DEF TypeOK
<1>1. ASSUME UNCHANGED <<mpc, pass, run, load, passes>>
      PROVE  passes' = passes /\ \A v \in Replica : PassTurn(v)
  BY <1>1, PassAlone, Zenon
<1>2. ASSUME NEW w \in Replica, FlushStep(w)
      PROVE  UNCHANGED <<mpc, pass, run, load, passes>>
  BY <1>2, Zenon
     DEF FlushStep, StartFlush, FlushRefresh, FoldWinner, FoldFailed, Claim, DeriveBase,
       PutOk, PutExists, PutError, ProbeOurs, ProbeTheirs, FailFlush, mvars, history
<1>3. ASSUME NEW m \in Replica, SelectExpired(m) \/ SelectRun(m)
      PROVE  /\ passes' = passes + 1
             /\ \A v \in Replica : v # m => Still(v)
             /\ mpc[m] = "idle" /\ mpc'[m] = "selected" /\ pass'[m] = passes + 1
  BY <1>0, <1>3, Zenon DEF SelectExpired, SelectRun
<1>4. ASSUME NEW m \in Replica, FetchGhost(m) \/ Retired(m) \/ Abort(m) \/ Crash(m)
      PROVE  passes' = passes /\ \A v \in Replica : PassTurn(v)
  <2>1. EndPass(m) /\ passes' = passes
    BY <1>4, Zenon DEF FetchGhost, Retired, Abort, Crash, history
  <2>2. mpc'[m] = "idle" /\ pass'[m] = 0 /\ \A v \in Replica : v # m => Still(v)
    BY <1>0, <2>1, Zenon DEF EndPass
  <2> QED
    BY <2>1, <2>2, PassAlone, Zenon DEF PassTurn
<1>5. ASSUME NEW m \in Replica,
             AcquireLease(m) \/ HighsWritten(m) \/ FetchRun(m)
      PROVE  passes' = passes /\ \A v \in Replica : PassTurn(v)
  <2>1. /\ passes' = passes /\ mpc[m] \in {"selected", "high", "fetch"}
        /\ pass'[m] = pass[m] /\ run'[m] = run[m] /\ mpc[m] # "idle"
        /\ \A v \in Replica : v # m => Still(v)
    BY <1>0, <1>5, Zenon DEF AcquireLease, HighsWritten, FetchRun, history
  <2> QED
    BY <2>1, PassAlone, Zenon DEF PassTurn
<1>6. ASSUME NEW m \in Replica,
             \/ MergeClaim(m) \/ MergeOk(m) \/ InsertMerged(m) \/ FoldBelowWon(m)
             \/ MergeLost(m) \/ MergeReclaim(m) \/ MergeError(m) \/ MergeProbeOurs(m)
             \/ RaiseFloor(m)
      PROVE  passes' = passes /\ \A v \in Replica : PassTurn(v)
  <2>1. /\ passes' = passes
        /\ UNCHANGED <<pass, run, load>> /\ mpc[m] # "idle"
        /\ mpc'[m] \notin {"selected", "high", "fetch"}
        /\ \A v \in Replica : v # m => mpc'[v] = mpc[v]
    BY <1>0, <1>6, Zenon
       DEF MergeClaim, MergeOk, InsertMerged, FoldBelowWon, MergeLost, MergeReclaim,
         MergeError, MergeProbeOurs, RaiseFloor, history
  <2> QED
    BY <2>1, PassAlone, Zenon DEF PassTurn
<1>7. ASSUME NEW m \in Replica, (\E x \in Substream : WriteHigh(m, x)) \/ \E n \in run[m] : Delete(m, n)
      PROVE  UNCHANGED <<mpc, pass, run, load, passes>>
  BY <1>7, Zenon DEF WriteHigh, Delete, mvars, history
<1>8. ASSUME (\E r \in Replica : Sync(r)) \/ (\E q \in net : LatePut(q)) \/ UNCHANGED vars
      PROVE  UNCHANGED <<mpc, pass, run, load, passes>>
  BY <1>8, Zenon DEF Sync, LatePut, vars, mvars, history
<1>9. \/ passes' = passes /\ \A v \in Replica : PassTurn(v)
      \/ \E m \in Replica : SelectExpired(m) \/ SelectRun(m)
  BY <1>1, <1>2, <1>4, <1>5, <1>6, <1>7, <1>8, SegmentLogAssumption, Zenon DEF Next, MaintenanceStep
<1>10. ASSUME NEW m \in Replica, SelectExpired(m) \/ SelectRun(m)
       PROVE  /\ \A v \in Replica : PassTurn(v)
              /\ passes' = passes + 1
              /\ \A u, v \in Replica : pass'[u] = passes' /\ pass'[v] = passes' =>
                                         u = v \/ pass[u] = passes' \/ pass[v] = passes'
  BY <1>3, <1>10, PassAlone, Zenon DEF PassTurn
<1> QED
  BY <1>9, <1>10, Zenon

\* The objects of a create: their nonce, and the pass they belong to.
LEMMA SentPass ==
    ASSUME TypeOK, PassInv, NEW o, Sent(o)
    PROVE  /\ o.pass \in Nat /\ o.pass <= passes
           /\ \A v \in Replica : mpc[v] # "idle" /\ o.pass = pass[v] => Merges(v, o)
<1> DEFINE Goal ==
           /\ o.pass \in Nat /\ o.pass <= passes
           /\ \A v \in Replica : mpc[v] # "idle" /\ o.pass = pass[v] => Merges(v, o)
<1>0. passes \in Nat /\ pass \in [Replica -> Nat] /\ 0 <= passes /\ 0 \in Nat
  BY NatUnary, Zenon DEF TypeOK
<1>1. \A v \in Replica : mpc[v] # "idle" => pass[v] # 0
  BY Zenon DEF PassInv
<1>2. ASSUME NEW w \in Replica, Ready(w), o = Segment(w)
      PROVE  Goal
  <2>1. o.pass = 0
    BY <1>2, Zenon DEF Segment
  <2> QED
    BY <1>0, <1>1, <2>1, Zenon
<1>3. ASSUME NEW m \in Replica, mpc[m] = "put", o = Merged(m)
      PROVE  Goal
  <2>1. /\ o.pass = pass[m] /\ pass[m] # 0 /\ pass[m] <= passes
        /\ Merges(m, o)
    BY <1>3, Zenon DEF Merged, Merges, PassInv
  <2>2. \A v \in Replica : pass[m] = pass[v] => m = v
    BY <2>1, Zenon DEF PassInv
  <2> QED
    BY <1>0, <2>1, <2>2, Zenon
<1>4. ASSUME NEW q \in net, o = q.obj
      PROVE  Goal
  BY <1>4, Zenon DEF PassInv, TypeOK, Request, Object
<1> QED
  BY <1>2, <1>3, <1>4, Zenon DEF Sent

\* What is in flight after a step was in flight, or could be created.
LEMMA NetSent ==
    ASSUME TypeOK, [Next]_vars, NEW q \in net'
    PROVE  Sent(q.obj)
<1>1. ASSUME NEW w \in Replica, Ready(w), q = [obj |-> Segment(w), since |-> since[w]]
      PROVE  q.obj = Segment(w)
  BY <1>1, RequestObject, Zenon
<1>2. ASSUME NEW m \in Replica, mpc[m] = "put", q = [obj |-> Merged(m), since |-> mcand[m]]
      PROVE  q.obj = Merged(m)
  BY <1>2, RequestObject, Zenon
<1> QED
  BY <1>1, <1>2, NetEffect, Zenon DEF Sent

\* What exists after a step existed, or could be created under the name next.
LEMMA MadeSent ==
    ASSUME TypeOK, NameInv, [Next]_vars, NEW o \in made'
    PROVE  o \in made \/ (Sent(o) /\ o.name = next /\ next' = next + 1 /\ o \in store')
<1>1. ASSUME NEW m \in Replica, RaiseFloor(m) \/ \E n \in run[m] : Delete(m, n)
      PROVE  made' = made
  BY <1>1, Zenon DEF RaiseFloor, Delete, history
<1>2. ASSUME NEW p \in Object, p.name = next, next' = next + 1, store' = store \cup {p},
             made' = made \cup {p}, Sent(p)
      PROVE  o \in made \/ (Sent(o) /\ o.name = next /\ next' = next + 1 /\ o \in store')
  BY <1>2, Zenon
<1> QED
  BY <1>1, <1>2, StoreChange, Zenon

\* Every step keeps the nonces of the passes apart, and creates the merged
\* segment of a pass above its run.
LEMMA PassStep ==
    ASSUME TypeOK, TypeOK', NameInv, PassInv, [Next]_vars
    PROVE  PassInv'
<1>0. /\ passes \in Nat /\ passes' \in Nat /\ pass \in [Replica -> Nat] /\ pass' \in [Replica -> Nat]
  BY Zenon DEF TypeOK
<1>1. passes <= passes' /\ (passes' = passes \/ passes' = passes + 1)
  BY <1>0, PassTurns, NatBelow, NatUnary, Zenon
<1>a. \A k \in Nat : k <= passes => k <= passes' /\ k # passes + 1
  <2>1. \A k \in Nat : k <= passes => k <= passes + 1 /\ k # passes + 1
    BY <1>0, NatBelow, Zenon
  <2> QED
    BY <1>1, <2>1, Zenon
<1>2. /\ \A o \in made : o.pass \in Nat /\ o.pass <= passes
      /\ \A m \in Replica : pass[m] \in Nat /\ pass[m] <= passes
      /\ \A m, v \in Replica : pass[m] = pass[v] /\ pass[m] # 0 => m = v
      /\ \A m \in Replica : mpc[m] # "idle" => pass[m] # 0
  BY <1>0, Zenon DEF PassInv, TypeOK, Object
<1>3. /\ \A o \in made' : o.pass \in Nat /\ o.pass <= passes
      /\ \A q \in net' : q.obj.pass \in Nat /\ q.obj.pass <= passes
  BY <1>2, MadeSent, NetSent, SentPass, Zenon
<1>4. ASSUME NEW m \in Replica
      PROVE  /\ pass'[m] <= passes'
             /\ mpc'[m] # "idle" => pass'[m] # 0
             /\ pass'[m] = pass[m] \/ pass'[m] = 0 \/ (pass'[m] = passes' /\ passes' = passes + 1)
  <2>1. PassTurn(m)
    BY PassTurns, Zenon
  <2>2. 0 <= passes' /\ passes + 1 # 0 /\ passes' <= passes'
    BY <1>0, NatUnary, Zenon
  <2> QED
    BY <1>a, <1>2, <2>1, <2>2, Zenon DEF PassTurn
<1>5. ASSUME NEW m \in Replica, NEW v \in Replica, pass'[m] = pass'[v], pass'[m] # 0
      PROVE  m = v
  <2>1. pass[m] # passes + 1 /\ pass[v] # passes + 1
    BY <1>a, <1>2, Zenon
  <2>2. CASE pass'[m] = pass[m] /\ pass'[v] = pass[v]
    BY <1>2, <1>5, <2>2, Zenon
  <2>3. CASE pass'[m] = passes' /\ passes' = passes + 1
    <3>1. pass'[m] = passes' /\ pass'[v] = passes' => m = v \/ pass[m] = passes' \/ pass[v] = passes'
      <4>1. passes' # passes
        BY <1>0, <2>3, NatBelow, NatUnary, Zenon
      <4> QED
        BY <4>1, PassTurns, Zenon
    <3> QED
      BY <1>5, <2>1, <2>3, <3>1, Zenon
  <2>4. CASE pass'[v] = passes' /\ passes' = passes + 1
    <3>1. pass'[m] = passes' /\ pass'[v] = passes' => m = v \/ pass[m] = passes' \/ pass[v] = passes'
      <4>1. passes' # passes
        BY <1>0, <2>4, NatBelow, NatUnary, Zenon
      <4> QED
        BY <4>1, PassTurns, Zenon
    <3> QED
      BY <1>5, <2>1, <2>4, <3>1, Zenon
  <2> QED
    BY <1>4, <1>5, <2>2, <2>3, <2>4, Zenon
<1>6. ASSUME NEW m \in Replica, mpc'[m] # "idle", NEW o, o.pass \in Nat, o.pass <= passes,
             o.pass = pass'[m], mpc[m] # "idle" /\ o.pass = pass[m] => Merges(m, o)
      PROVE  Merges(m, o)' /\ pass'[m] = pass[m] /\ run'[m] = run[m] /\ mpc[m] # "idle"
  <2>1. PassTurn(m) /\ o.pass # passes + 1
    BY <1>a, <1>6, PassTurns, Zenon
  <2> QED
    BY <1>6, <2>1, Zenon DEF PassTurn, Merges
<1>7. ASSUME NEW m \in Replica, mpc'[m] # "idle", NEW q \in net', q.obj.pass = pass'[m]
      PROVE  Merges(m, q.obj)'
  <2>1. mpc[m] # "idle" /\ q.obj.pass = pass[m] => Merges(m, q.obj)
    BY NetSent, SentPass, Zenon
  <2> QED
    BY <1>3, <1>6, <1>7, <2>1, Zenon
<1>8. ASSUME NEW m \in Replica, mpc'[m] # "idle", NEW o \in made', o.pass = pass'[m]
      PROVE  Merges(m, o)' /\ \A n \in run'[m] : n < o.name
  <2>1. \A n \in run[m] : n < next
    BY Zenon DEF NameInv, MemoryInv
  <2>2. mpc[m] # "idle" /\ o.pass = pass[m] => Merges(m, o) /\ \A n \in run[m] : n < o.name
    BY <2>1, MadeSent, SentPass, Zenon DEF PassInv
  <2> QED
    BY <1>3, <1>6, <1>8, <2>2, Zenon
<1>9. /\ \A o \in made' : o.pass <= passes'
      /\ \A q \in net' : q.obj.pass <= passes'
  BY <1>a, <1>3, Zenon
<1> QED
  BY <1>4, <1>5, <1>7, <1>8, <1>9, Zenon DEF PassInv

-----------------------------------------------------------------------------
(* Entries: where they come from, and where a replica has them from.       *)

\* An ambiguous create that finds the nonce of its window finds its segment.
LEMMA ProbedSegment ==
    ASSUME NameInv, WindowInv, NEW w \in Replica, ProbeOurs(w)
    PROVE  Segment(w) \in store
<1>1. PICK o \in store : o.name = cand[w] /\ o.by = cur[w]
  BY Zenon DEF ProbeOurs
<1>2. o \in made /\ wpc[w] = "probe"
  BY Zenon DEF ProbeOurs, NameInv, SpineInv
<1>3. o = Segment(w)
  BY <1>1, <1>2, Zenon DEF WindowInv
<1> QED
  BY <1>3, Zenon

\* An ambiguous merge that finds the nonce of its pass finds its segment.
LEMMA ProbedMerge ==
    ASSUME TypeOK, NameInv, PassInv, NEW m \in Replica, MergeProbeOurs(m)
    PROVE  Merged(m) \in store
<1>1. PICK o \in store : o.name = mcand[m] /\ o.pass = pass[m]
  BY Zenon DEF MergeProbeOurs
<1>2. o \in made /\ mpc[m] # "idle" /\ o \in Object
  BY Zenon DEF MergeProbeOurs, NameInv, SpineInv, TypeOK
<1>3. o.by = Nil /\ o.ents = load[m]
  BY <1>1, <1>2, Zenon DEF PassInv, Merges
<1>4. o = Merged(m)
  BY <1>1, <1>2, <1>3, SMTT(40) DEF Merged, Object
<1> QED
  BY <1>4, Zenon

\* A refresh adds what is live.
LEMMA RefreshGain ==
    ASSUME TypeOK, NEW s \in Replica, Refresh(s), NEW r \in Replica
    PROVE  idx'[r] \subseteq idx[r] \cup store
BY RefreshFacts, Zenon

\* What an index holds was created.
LEMMA IndexGain ==
    ASSUME TypeOK, NameInv, WindowInv, OriginInv, [Next]_vars, NEW r \in Replica
    PROVE  idx'[r] \subseteq made'
<1>0. /\ idx \in [Replica -> SUBSET Object]
      /\ \A s \in Replica : idx[s] \subseteq made /\ (mpc[s] = "insert" => Merged(s) \in made)
      /\ store \subseteq made /\ made \subseteq made'
  BY Monotone, Zenon DEF TypeOK, OriginInv, NameInv, SpineInv
<1>1. ASSUME idx'[r] \subseteq idx[r] \cup made'
      PROVE  idx'[r] \subseteq made'
  BY <1>0, <1>1, Zenon
<1>2. ASSUME NEW w \in Replica, FlushStep(w)
      PROVE  idx'[r] \subseteq idx[r] \cup made'
  <2>1. CASE FlushRefresh(w)
    BY <1>0, <2>1, RefreshGain, Zenon DEF FlushRefresh
  <2>2. CASE FoldWinner(w)
    BY <1>0, <2>2, Zenon DEF FoldWinner
  <2>3. CASE PutOk(w)
    <3>1. Segment(w) \in made' /\ idx' = [idx EXCEPT ![w] = @ \cup {Segment(w)}]
      BY <2>3, Zenon DEF PutOk, Create, Won
    <3> QED
      BY <1>0, <3>1, Zenon
  <2>4. CASE ProbeOurs(w)
    <3>1. Segment(w) \in made' /\ idx' = [idx EXCEPT ![w] = @ \cup {Segment(w)}]
      BY <1>0, <2>4, ProbedSegment, Zenon DEF ProbeOurs, Won
    <3> QED
      BY <1>0, <3>1, Zenon
  <2>5. CASE idx' = idx
    BY <2>5, Zenon
  <2> QED
    BY <1>2, <2>1, <2>2, <2>3, <2>4, <2>5, Zenon
       DEF FlushStep, StartFlush, FoldFailed, Claim, DeriveBase, PutExists, PutError,
         ProbeTheirs, FailFlush, shared
<1>3. ASSUME NEW m \in Replica, MaintenanceStep(m)
      PROVE  idx'[r] \subseteq idx[r] \cup made'
  <2>1. CASE FetchGhost(m) \/ Retired(m)
    BY <1>0, <2>1, Zenon DEF FetchGhost, Retired
  <2>2. CASE InsertMerged(m)
    BY <1>0, <2>2, Zenon DEF InsertMerged
  <2>3. CASE FoldBelowWon(m)
    BY <1>0, <2>3, Zenon DEF FoldBelowWon
  <2>4. CASE MergeLost(m)
    BY <1>0, <2>4, RefreshGain, Zenon DEF MergeLost
  <2>5. CASE idx' = idx
    BY <2>5, Zenon
  <2> QED
    BY <1>3, <2>1, <2>2, <2>3, <2>4, <2>5, Zenon
       DEF MaintenanceStep, SelectExpired, SelectRun, AcquireLease, WriteHigh, HighsWritten,
         FetchRun, MergeClaim, MergeOk, MergeReclaim, MergeError, MergeProbeOurs, RaiseFloor,
         Abort, Delete, shared
<1>4. ASSUME NEW s \in Replica, Sync(s) \/ Crash(s)
      PROVE  idx'[r] \subseteq idx[r] \cup made'
  <2>1. CASE Sync(s)
    BY <1>0, <2>1, RefreshGain, Zenon DEF Sync
  <2>2. CASE Crash(s)
    BY <1>0, <2>2, Zenon DEF Crash
  <2> QED
    BY <1>4, <2>1, <2>2, Zenon
<1>5. ASSUME (\E q \in net : LatePut(q)) \/ UNCHANGED vars
      PROVE  idx' = idx
  BY <1>5, Zenon DEF LatePut, vars, shared
<1> QED
  BY <1>0, <1>1, <1>2, <1>3, <1>4, <1>5, SegmentLogAssumption, Zenon DEF Next

\* What a pass loads is indexed, and what it is about to index was created.
LEMMA LoadGain ==
    ASSUME TypeOK, NameInv, PassInv, OriginInv, [Next]_vars, NEW r \in Replica
    PROVE  /\ load'[r] \subseteq load[r] \cup Ents(idx[r])
           /\ mpc'[r] = "insert" => Merged(r)' \in made'
<1> DEFINE Goal == /\ load'[r] \subseteq load[r] \cup Ents(idx[r])
                   /\ mpc'[r] = "insert" => Merged(r)' \in made'
<1>0. /\ mpc = [v \in Replica |-> mpc[v]] /\ load = [v \in Replica |-> load[v]]
      /\ mcand = [v \in Replica |-> mcand[v]] /\ pass = [v \in Replica |-> pass[v]]
      /\ \A s \in Replica : mpc[s] = "insert" => Merged(s) \in made
      /\ made \subseteq made'
  BY Monotone, Zenon DEF TypeOK, OriginInv
<1>1. ASSUME load'[r] = load[r], mcand'[r] = mcand[r], pass'[r] = pass[r],
             mpc'[r] = "insert" => Merged(r) \in made'
      PROVE  Goal
  BY <1>1, Zenon DEF Merged
<1>2. ASSUME mpc'[r] = mpc[r], load'[r] = load[r], mcand'[r] = mcand[r], pass'[r] = pass[r]
      PROVE  Goal
  BY <1>0, <1>1, <1>2, Zenon
<1>3. ASSUME NEW w \in Replica, FlushStep(w)
      PROVE  Goal
  <2>1. UNCHANGED mvars
    BY <1>3, Zenon
       DEF FlushStep, StartFlush, FlushRefresh, FoldWinner, FoldFailed, Claim, DeriveBase,
         PutOk, PutExists, PutError, ProbeOurs, ProbeTheirs, FailFlush
  <2> QED
    BY <1>2, <2>1, Zenon DEF mvars
<1>4. ASSUME NEW m \in Replica,
             SelectExpired(m) \/ SelectRun(m) \/ AcquireLease(m) \/ HighsWritten(m)
      PROVE  Goal
  <2>1. UNCHANGED <<load, mcand>> /\ mpc'[m] # "insert" /\ \A v \in Replica : v # m =>
          mpc'[v] = mpc[v] /\ pass'[v] = pass[v]
    BY <1>0, <1>4, Zenon DEF SelectExpired, SelectRun, AcquireLease, HighsWritten
  <2> QED
    BY <1>2, <2>1, Zenon
<1>5. ASSUME NEW m \in Replica,
             \/ MergeClaim(m) \/ InsertMerged(m) \/ FoldBelowWon(m)
             \/ MergeLost(m) \/ MergeReclaim(m) \/ MergeError(m) \/ RaiseFloor(m)
      PROVE  Goal
  <2>1. /\ UNCHANGED <<load, pass>> /\ mpc'[m] # "insert"
        /\ \A v \in Replica : v # m => mpc'[v] = mpc[v] /\ mcand'[v] = mcand[v]
    BY <1>0, <1>5, Zenon DEF MergeClaim, InsertMerged, FoldBelowWon, MergeLost, MergeReclaim,
      MergeError, RaiseFloor
  <2> QED
    BY <1>2, <2>1, Zenon
<1>6. ASSUME NEW m \in Replica, FetchRun(m)
      PROVE  Goal
  <2>1. /\ UNCHANGED <<mcand, pass>> /\ mpc'[m] # "insert" /\ load'[m] = Served(m)
        /\ \A v \in Replica : v # m => mpc'[v] = mpc[v] /\ load'[v] = load[v]
    BY <1>0, <1>6, Zenon DEF FetchRun
  <2>2. Served(m) \subseteq Ents(idx[m])
    BY Zenon DEF Served, Ents
  <2> QED
    BY <1>2, <2>1, <2>2, Zenon
<1>7. ASSUME NEW m \in Replica, MergeOk(m) \/ MergeProbeOurs(m)
      PROVE  Goal
  <2>1. Merged(m) \in made'
    <3>1. CASE MergeOk(m)
      BY <3>1, Zenon DEF MergeOk, Create
    <3>2. CASE MergeProbeOurs(m)
      BY <1>0, <3>2, ProbedMerge, Zenon DEF NameInv, SpineInv
    <3> QED
      BY <1>7, <3>1, <3>2, Zenon
  <2>2. UNCHANGED <<load, mcand, pass>> /\ \A v \in Replica : v # m => mpc'[v] = mpc[v]
    BY <1>0, <1>7, Zenon DEF MergeOk, MergeProbeOurs
  <2> QED
    BY <1>1, <1>2, <2>1, <2>2, Zenon
<1>8. ASSUME NEW m \in Replica, FetchGhost(m) \/ Retired(m) \/ Abort(m) \/ Crash(m)
      PROVE  Goal
  <2>1. EndPass(m)
    BY <1>8, Zenon DEF FetchGhost, Retired, Abort, Crash
  <2>2. load'[m] = {} /\ mpc'[m] # "insert" /\ \A v \in Replica : v # m =>
          mpc'[v] = mpc[v] /\ load'[v] = load[v] /\ mcand'[v] = mcand[v] /\ pass'[v] = pass[v]
    BY <1>0, <2>1, Zenon DEF EndPass
  <2> QED
    BY <1>2, <2>2, Zenon
<1>9. ASSUME \/ \E m \in Replica : \/ \E x \in Substream : WriteHigh(m, x)
                                  \/ \E n \in run[m] : Delete(m, n)
             \/ \E s \in Replica : Sync(s)
             \/ \E q \in net : LatePut(q)
             \/ UNCHANGED vars
      PROVE  Goal
  <2>1. UNCHANGED <<mpc, load, mcand, pass>>
    BY <1>9, Zenon DEF WriteHigh, Delete, Sync, LatePut, vars, mvars
  <2> QED
    BY <1>2, <2>1, Zenon
<1> QED
  BY <1>3, <1>4, <1>5, <1>6, <1>7, <1>8, <1>9, SegmentLogAssumption, Zenon DEF Next, MaintenanceStep

\* What is acknowledged was created, and what expires was live.
LEMMA VerdictGain ==
    ASSUME TypeOK, NameInv, WindowInv, [Next]_vars
    PROVE  /\ acked' \subseteq acked \cup Log' /\ expired' \subseteq expired \cup Ents(store)
           /\ expired \subseteq expired'
<1>0. store \subseteq made /\ made \subseteq made'
  BY Monotone, Zenon DEF NameInv, SpineInv
<1>1. ASSUME NEW w \in Replica, PutOk(w) \/ ProbeOurs(w)
      PROVE  acked' \subseteq acked \cup Log' /\ expired' = expired
  <2>1. Segment(w) \in made'
    BY <1>0, <1>1, ProbedSegment, Zenon DEF PutOk, Create
  <2>2. acked' = acked \cup Segment(w).ents /\ expired' = expired
    BY <1>1, Zenon DEF PutOk, ProbeOurs, Won
  <2> QED
    BY <2>1, <2>2, Zenon DEF Log, Ents
<1>2. ASSUME NEW w \in Replica, FlushStep(w)
      PROVE  UNCHANGED <<acked, expired>> \/ PutOk(w) \/ ProbeOurs(w)
  BY <1>2, Zenon
     DEF FlushStep, StartFlush, FlushRefresh, FoldWinner, FoldFailed, Claim, DeriveBase,
       PutExists, PutError, ProbeTheirs, FailFlush, history
<1>3. ASSUME NEW m \in Replica, MaintenanceStep(m)
      PROVE  /\ acked' = acked /\ expired' \subseteq expired \cup Ents(store)
             /\ expired \subseteq expired'
  <2>1. CASE HighsWritten(m)
    BY <2>1, Zenon DEF HighsWritten, Ents
  <2>2. CASE UNCHANGED <<acked, expired>>
    BY <2>2, Zenon
  <2> QED
    BY <1>3, <2>1, <2>2, Zenon
     DEF MaintenanceStep, SelectExpired, SelectRun, AcquireLease, WriteHigh,
       FetchRun, FetchGhost, MergeClaim, MergeOk, InsertMerged, FoldBelowWon, MergeLost,
       MergeReclaim, MergeError, MergeProbeOurs, RaiseFloor, Retired, Abort, Delete, history
<1>4. ASSUME (\E r \in Replica : Sync(r) \/ Crash(r)) \/ (\E q \in net : LatePut(q)) \/ UNCHANGED vars
      PROVE  UNCHANGED <<acked, expired>>
  BY <1>4, Zenon DEF Sync, Crash, LatePut, vars, history
<1> QED
  BY <1>1, <1>2, <1>3, <1>4, SegmentLogAssumption, Zenon DEF Next

\* A create carries entries of its own window, or entries of the log.
LEMMA SentFormed ==
    ASSUME TypeOK, OriginInv, NEW o, Sent(o)
    PROVE  Formed(o)
<1>1. ASSUME NEW w \in Replica, Ready(w), o = Segment(w)
      PROVE  Formed(o)
  <2>1. o.by = cur[w] /\ o.by # Nil /\ o.pass = 0 /\ o.name = cand[w]
    <3>1. cur[w] \in Flush
      BY <1>1, Zenon DEF TypeOK, Ready
    <3> QED
      BY <1>1, <3>1, SegmentLogAssumption, Zenon DEF Segment
  <2> DEFINE Own(x) == [sub |-> x, base |-> base[w][x], cnt |-> Count[cur[w]][x], by |-> cur[w], at |-> cand[w]]
  <2>2. \A e \in o.ents : \E x \in Carried(w) : e = Own(x)
    BY <1>1, Zenon DEF Segment
  <2>3. \A x \in Carried(w) : Own(x).at = cand[w] /\ Own(x).by = cur[w] /\ Own(x).sub = x
    OBVIOUS
  <2> HIDE DEF Own
  <2>4. \A e \in o.ents : e.at = cand[w] /\ e.by = cur[w] /\ e = Own(e.sub)
    <3> TAKE e \in o.ents
    <3>1. PICK x \in Carried(w) : e = Own(x)
      BY <2>2, Zenon
    <3>2. e.sub = x
      BY <2>3, <3>1, Zenon
    <3> QED
      BY <2>3, <3>1, <3>2, Zenon
  <2>5. \A d, e \in o.ents : d.sub = e.sub => d = e
    BY <2>4, Zenon
  <2> QED
    BY <2>1, <2>4, <2>5, Zenon DEF Formed
<1>2. ASSUME NEW m \in Replica, mpc[m] = "put", o = Merged(m)
      PROVE  Formed(o)
  BY <1>2, Zenon DEF Formed, Merged, OriginInv
<1>3. ASSUME NEW q \in net, o = q.obj
      PROVE  Formed(o)
  BY <1>3, Zenon DEF OriginInv
<1> QED
  BY <1>1, <1>2, <1>3, Zenon DEF Sent

\* The log only grows.
LEMMA LogGrows ==
    ASSUME TypeOK, NameInv, [Next]_vars
    PROVE  made \subseteq made' /\ Log \subseteq Log'
<1>1. made \subseteq made'
  BY Monotone, Zenon
<1> QED
  BY <1>1, Zenon DEF Log, Ents

\* Every step keeps every entry in the segment of its flush.
LEMMA OriginStep ==
    ASSUME TypeOK, TypeOK', NameInv, SpineInv', WindowInv, PassInv, OriginInv, [Next]_vars
    PROVE  OriginInv'
<1>0. made \subseteq made' /\ Log \subseteq Log' /\ store \subseteq made
  BY LogGrows, Zenon DEF NameInv, SpineInv
<1>1. \A o : Formed(o) => Formed(o)'
  BY <1>0, Zenon DEF Formed
<1>2. \A o \in made' : Formed(o)
  BY MadeSent, SentFormed, Zenon DEF OriginInv
<1>3. \A q \in net' : Formed(q.obj)
  BY NetSent, SentFormed, Zenon
<1>4. \A e \in Log : \E p \in made : p.name = e.at /\ p.by = e.by /\ e \in p.ents
  BY Zenon DEF OriginInv
<1>5. ASSUME NEW o \in made', NEW e \in o.ents
      PROVE  \E p \in made' : p.name = e.at /\ p.by = e.by /\ e \in p.ents
  <2>1. CASE e \in Log
    BY <1>0, <1>4, <2>1, Zenon
  <2>2. CASE o.by # Nil
    BY <1>2, <2>2, Zenon DEF Formed
  <2> QED
    BY <1>2, <2>1, <2>2, Zenon DEF Formed
<1>6. ASSUME NEW o \in made', NEW e \in o.ents
      PROVE  e.at <= o.name
  <2>1. o.name \in Nat
    BY Zenon DEF TypeOK, Object
  <2>2. CASE o \in made
    BY <2>2, Zenon DEF OriginInv
  <2>3. CASE o.by # Nil
    <3>1. e.at = o.name
      BY <1>2, <2>3, Zenon DEF Formed
    <3> QED
      BY <2>1, <3>1, NatUnary, Zenon
  <2>4. CASE o \notin made /\ o.by = Nil
    <3>1. e \in Log /\ o.name = next
      BY <1>2, <2>4, MadeSent, Zenon DEF Formed
    <3>2. PICK p \in made : p.name = e.at
      BY <1>4, <3>1, Zenon
    <3>3. p.name < next /\ p.name \in Nat
      BY Zenon DEF NameInv, SpineInv, TypeOK, Object
    <3> QED
      BY <2>1, <3>1, <3>2, <3>3, NatStrict, Zenon
  <2> QED
    BY <2>2, <2>3, <2>4, Zenon
<1>7. acked' \subseteq Log' /\ expired' \subseteq Log'
  <2>1. Ents(store) \subseteq Log /\ acked \subseteq Log /\ expired \subseteq Log
    BY <1>0, Zenon DEF Log, Ents, OriginInv
  <2> QED
    BY <1>0, <2>1, VerdictGain, Zenon
<1>8. ASSUME NEW r \in Replica
      PROVE  /\ idx'[r] \subseteq made' /\ load'[r] \subseteq Log'
             /\ mpc'[r] = "insert" => Merged(r)' \in made'
  <2>1. Ents(idx[r]) \subseteq Log /\ load[r] \subseteq Log
    BY Zenon DEF Log, Ents, OriginInv
  <2> QED
    BY <1>0, <2>1, IndexGain, LoadGain, Zenon
<1>9. \A e \in Log' : \E p \in made' : p.name = e.at /\ p.by = e.by /\ e \in p.ents
  <2>1. \A e \in Log' : \E o \in made' : e \in o.ents
    BY Zenon DEF Log, Ents
  <2> QED
    BY <1>5, <2>1, Zenon
<1>10. (\A o \in made : Formed(o))' /\ (\A q \in net : Formed(q.obj))'
  BY <1>1, <1>2, <1>3, Zenon
<1> QED
  BY <1>6, <1>7, <1>8, <1>9, <1>10, Zenon DEF OriginInv

-----------------------------------------------------------------------------
(* Copies: what a merge moves and a pass deletes.                          *)

\* A live segment leaves an index only when the replica restarts.
LEMMA IndexKeeps ==
    ASSUME TypeOK, NameInv, [Next]_vars, NEW r \in Replica, NEW o \in idx[r], o \in store'
    PROVE  o \in idx'[r] \/ (mpc'[r] = "idle" /\ wpc'[r] = "idle" /\ idx'[r] = {})
<1> DEFINE Goal == o \in idx'[r] \/ (mpc'[r] = "idle" /\ wpc'[r] = "idle" /\ idx'[r] = {})
<1>0. /\ idx \in [Replica -> SUBSET Object]
      /\ wpc = [v \in Replica |-> wpc[v]] /\ mpc = [v \in Replica |-> mpc[v]]
  BY Zenon DEF TypeOK
<1>1. ASSUME idx' = idx
      PROVE  Goal
  BY <1>1, Zenon
<1>2. ASSUME NEW s \in Replica, Refresh(s), store' = store
      PROVE  Goal
  <2>1. CASE ProbeTail(s)
    BY <1>0, <2>1, Zenon DEF ProbeTail
  <2>2. CASE ListTail(s)
    BY <1>0, <2>2, Zenon DEF ListTail
  <2>3. CASE ListAll(s)
    BY <1>0, <1>2, <2>3, Zenon DEF ListAll
  <2> QED
    BY <1>2, <2>1, <2>2, <2>3, Zenon DEF Refresh
<1>3. ASSUME NEW w \in Replica, FlushStep(w)
      PROVE  Goal
  <2>1. CASE FlushRefresh(w)
    BY <1>2, <2>1, Zenon DEF FlushRefresh, durable
  <2>2. CASE FoldWinner(w)
    BY <1>0, <2>2, Zenon DEF FoldWinner
  <2>3. CASE PutOk(w) \/ ProbeOurs(w)
    BY <1>0, <2>3, Zenon DEF PutOk, ProbeOurs, Won
  <2> QED
    BY <1>1, <1>3, <2>1, <2>2, <2>3, Zenon
       DEF FlushStep, StartFlush, FoldFailed, Claim, DeriveBase, PutExists, PutError,
         ProbeTheirs, FailFlush, shared
<1>4. ASSUME NEW m \in Replica, MaintenanceStep(m)
      PROVE  Goal
  <2>1. CASE FetchGhost(m)
    <3>1. ~Free(o.name)
      BY <2>1, Zenon DEF FetchGhost, durable, Free, Names
    <3> QED
      BY <1>0, <2>1, <3>1, Zenon DEF FetchGhost
  <2>2. CASE InsertMerged(m) \/ FoldBelowWon(m)
    BY <1>0, <2>2, Zenon DEF InsertMerged, FoldBelowWon
  <2>3. CASE MergeLost(m)
    BY <1>2, <2>3, Zenon DEF MergeLost, durable
  <2>4. CASE Retired(m)
    <3>1. o.name \notin run[m]
      BY <2>4, Zenon DEF Retired, durable, Free, Names
    <3> QED
      BY <1>0, <2>4, <3>1, Zenon DEF Retired
  <2> QED
    BY <1>1, <1>4, <2>1, <2>2, <2>3, <2>4, Zenon
       DEF MaintenanceStep, SelectExpired, SelectRun, AcquireLease, WriteHigh, HighsWritten,
         FetchRun, MergeClaim, MergeOk, MergeReclaim, MergeError, MergeProbeOurs, RaiseFloor,
         Abort, Delete, shared
<1>5. ASSUME NEW s \in Replica, Sync(s) \/ Crash(s)
      PROVE  Goal
  <2>1. CASE Sync(s)
    BY <1>2, <2>1, Zenon DEF Sync, durable
  <2>2. CASE Crash(s)
    BY <1>0, <2>2, Zenon DEF Crash, EndFlush, EndPass
  <2> QED
    BY <1>5, <2>1, <2>2, Zenon
<1>6. ASSUME (\E q \in net : LatePut(q)) \/ UNCHANGED vars
      PROVE  Goal
  BY <1>1, <1>6, Zenon DEF LatePut, vars, shared
<1> QED
  BY <1>3, <1>4, <1>5, <1>6, SegmentLogAssumption, Zenon DEF Next

\* How a pass comes to each of its control points.
LEMMA RunTurns ==
    ASSUME TypeOK, [Next]_vars, NEW v \in Replica
    PROVE  /\ mpc'[v] # "idle" => \/ run'[v] = run[v] /\ mpc[v] # "idle"
                                  \/ SelectExpired(v) \/ SelectRun(v)
           /\ mpc'[v] \in {"claim", "put", "probe", "insert", "reclaim"} =>
                \/ mpc[v] \in {"claim", "put", "probe", "insert", "reclaim"} /\ load'[v] = load[v]
                \/ FetchRun(v)
           /\ mpc'[v] \in {"floor", "delete"} =>
                \/ mpc[v] \in {"floor", "delete"} \/ HighsWritten(v) \/ FetchRun(v)
                \/ mpc[v] = "insert"
           /\ mpc'[v] = "high" =>
                \/ mpc[v] = "high" /\ todo'[v] = todo[v]
                \/ mpc[v] = "selected" /\ kind[v] = "expire" /\ todo'[v] = todo[v]
                \/ \E x \in Substream : WriteHigh(v, x)
           /\ mpc'[v] = "selected" /\ kind'[v] = "expire" =>
                \/ mpc[v] = "selected" /\ kind[v] = "expire" /\ todo'[v] = todo[v]
                \/ SelectExpired(v)
<1> DEFINE Goal ==
           /\ mpc'[v] # "idle" => \/ run'[v] = run[v] /\ mpc[v] # "idle"
                                  \/ SelectExpired(v) \/ SelectRun(v)
           /\ mpc'[v] \in {"claim", "put", "probe", "insert", "reclaim"} =>
                \/ mpc[v] \in {"claim", "put", "probe", "insert", "reclaim"} /\ load'[v] = load[v]
                \/ FetchRun(v)
           /\ mpc'[v] \in {"floor", "delete"} =>
                \/ mpc[v] \in {"floor", "delete"} \/ HighsWritten(v) \/ FetchRun(v)
                \/ mpc[v] = "insert"
           /\ mpc'[v] = "high" =>
                \/ mpc[v] = "high" /\ todo'[v] = todo[v]
                \/ mpc[v] = "selected" /\ kind[v] = "expire" /\ todo'[v] = todo[v]
                \/ \E x \in Substream : WriteHigh(v, x)
           /\ mpc'[v] = "selected" /\ kind'[v] = "expire" =>
                \/ mpc[v] = "selected" /\ kind[v] = "expire" /\ todo'[v] = todo[v]
                \/ SelectExpired(v)
<1>0. /\ mpc = [r \in Replica |-> mpc[r]] /\ load = [r \in Replica |-> load[r]]
      /\ run = [r \in Replica |-> run[r]] /\ todo = [r \in Replica |-> todo[r]]
      /\ kind = [r \in Replica |-> kind[r]]
  BY Zenon DEF TypeOK
<1>1. ASSUME mpc'[v] = mpc[v], run'[v] = run[v], load'[v] = load[v], todo'[v] = todo[v],
             kind'[v] = kind[v]
      PROVE  Goal
  BY <1>1, Zenon
<1>2. ASSUME UNCHANGED <<mpc, run, load, todo, kind>>
      PROVE  Goal
  BY <1>1, <1>2, Zenon
<1>3. ASSUME NEW w \in Replica, FlushStep(w)
      PROVE  UNCHANGED <<mpc, run, load, todo, kind>>
  BY <1>3, Zenon
     DEF FlushStep, StartFlush, FlushRefresh, FoldWinner, FoldFailed, Claim, DeriveBase,
       PutOk, PutExists, PutError, ProbeOurs, ProbeTheirs, FailFlush, mvars
<1>4. ASSUME NEW m \in Replica, SelectExpired(m) \/ SelectRun(m)
      PROVE  Goal
  <2>1. /\ mpc'[m] = "selected" /\ (SelectRun(m) => kind'[m] = "merge")
        /\ \A u \in Replica : u # m =>
             /\ mpc'[u] = mpc[u] /\ run'[u] = run[u] /\ load'[u] = load[u] /\ todo'[u] = todo[u]
             /\ kind'[u] = kind[u]
    BY <1>0, <1>4, Zenon DEF SelectExpired, SelectRun
  <2> QED
    BY <1>1, <1>4, <2>1, Zenon
<1>5. ASSUME NEW m \in Replica, AcquireLease(m)
      PROVE  Goal
  <2>1. /\ UNCHANGED <<run, load, todo, kind>> /\ mpc[m] = "selected"
        /\ mpc'[m] = IF kind[m] = "expire" THEN "high" ELSE "fetch"
        /\ \A u \in Replica : u # m => mpc'[u] = mpc[u]
    BY <1>0, <1>5, Zenon DEF AcquireLease
  <2>2. CASE kind[m] = "expire"
    BY <1>1, <2>1, <2>2, Zenon
  <2>3. CASE kind[m] # "expire"
    BY <1>1, <2>1, <2>3, Zenon
  <2> QED
    BY <2>2, <2>3, Zenon
<1>6. ASSUME NEW m \in Replica, (\E x \in Substream : WriteHigh(m, x)) \/ HighsWritten(m)
      PROVE  Goal
  <2>1. CASE HighsWritten(m)
    <3>1. /\ UNCHANGED <<run, load, todo, kind>> /\ mpc[m] = "high" /\ mpc'[m] = "floor"
          /\ \A u \in Replica : u # m => mpc'[u] = mpc[u]
      BY <1>0, <2>1, Zenon DEF HighsWritten
    <3> QED
      BY <1>1, <2>1, <3>1, Zenon
  <2>2. ASSUME NEW x \in Substream, WriteHigh(m, x)
        PROVE  Goal
    <3>1. /\ UNCHANGED <<run, load, kind, mpc>> /\ mpc[m] = "high"
          /\ \A u \in Replica : u # m => todo'[u] = todo[u]
      BY <1>0, <2>2, Zenon DEF WriteHigh
    <3> QED
      BY <1>1, <2>2, <3>1, Zenon
  <2> QED
    BY <1>6, <2>1, <2>2, Zenon
<1>7. ASSUME NEW m \in Replica, FetchRun(m)
      PROVE  Goal
  <2>1. /\ UNCHANGED <<run, todo, kind>> /\ mpc[m] = "fetch" /\ mpc'[m] \in {"floor", "claim"}
        /\ \A u \in Replica : u # m => mpc'[u] = mpc[u] /\ load'[u] = load[u]
    BY <1>0, <1>7, Zenon DEF FetchRun
  <2> QED
    BY <1>1, <1>7, <2>1, Zenon
<1>8. ASSUME NEW m \in Replica,
             \/ MergeClaim(m) \/ MergeOk(m) \/ MergeLost(m) \/ MergeReclaim(m)
             \/ MergeError(m) \/ MergeProbeOurs(m)
      PROVE  Goal
  <2>1. /\ UNCHANGED <<run, load, todo, kind>>
        /\ mpc[m] \in {"claim", "put", "probe", "insert", "reclaim"}
        /\ mpc'[m] \in {"claim", "put", "probe", "insert", "reclaim"}
        /\ \A u \in Replica : u # m => mpc'[u] = mpc[u]
    BY <1>0, <1>8, Zenon DEF MergeClaim, MergeOk, MergeLost, MergeReclaim, MergeError, MergeProbeOurs
  <2> QED
    BY <1>1, <2>1, Zenon
<1>9. ASSUME NEW m \in Replica, InsertMerged(m) \/ FoldBelowWon(m) \/ RaiseFloor(m)
      PROVE  Goal
  <2>1. /\ UNCHANGED <<run, load, todo, kind>>
        /\ mpc[m] \in {"insert", "floor"} /\ mpc'[m] \in {"floor", "delete"}
        /\ \A u \in Replica : u # m => mpc'[u] = mpc[u]
    BY <1>0, <1>9, Zenon DEF InsertMerged, FoldBelowWon, RaiseFloor
  <2> QED
    BY <1>1, <2>1, Zenon
<1>10. ASSUME NEW m \in Replica, FetchGhost(m) \/ Retired(m) \/ Abort(m) \/ Crash(m)
       PROVE  Goal
  <2>1. EndPass(m)
    BY <1>10, Zenon DEF FetchGhost, Retired, Abort, Crash
  <2>2. mpc'[m] = "idle" /\ \A u \in Replica : u # m =>
          /\ mpc'[u] = mpc[u] /\ run'[u] = run[u] /\ load'[u] = load[u] /\ todo'[u] = todo[u]
          /\ kind'[u] = kind[u]
    BY <1>0, <2>1, Zenon DEF EndPass
  <2> QED
    BY <1>1, <2>2, Zenon
<1>11. ASSUME \/ \E m \in Replica : \E n \in run[m] : Delete(m, n)
              \/ \E s \in Replica : Sync(s)
              \/ \E q \in net : LatePut(q)
              \/ UNCHANGED vars
       PROVE  UNCHANGED <<mpc, run, load, todo, kind>>
  BY <1>11, Zenon DEF Delete, Sync, LatePut, vars, mvars
<1> QED
  BY <1>2, <1>3, <1>4, <1>5, <1>6, <1>7, <1>8, <1>9, <1>10, <1>11, SegmentLogAssumption, Zenon
     DEF Next, MaintenanceStep

\* A higher copy outside a run stays one: what is created is above the run.
LEMMA HigherKept ==
    ASSUME TypeOK, NameInv, [Next]_vars, NEW ns, \A n \in ns : n < next, NEW e, Higher(e, ns)
    PROVE  Higher(e, ns)'
<1>1. PICK q \in made : /\ e \in q.ents
                        /\ \A p \in made : p.name \in ns /\ e \in p.ents => p.name < q.name
  BY Zenon DEF Higher
<1>2. q \in made'
  BY LogGrows, Zenon
<1>3. ASSUME NEW p \in made', p.name \in ns
      PROVE  p \in made
  <2>1. next \in Nat /\ ~(next < next)
    BY NatUnary, Zenon DEF TypeOK
  <2> QED
    BY <1>3, <2>1, MadeSent, Zenon
<1> QED
  BY <1>1, <1>2, <1>3, Zenon DEF Higher

\* A live segment of a run was live when the run was selected.
LEMMA RunLive ==
    ASSUME TypeOK, NameInv, [Next]_vars, NEW m \in Replica, NEW o \in store', o.name \in run[m]
    PROVE  o \in store
<1>1. next \in Nat /\ ~(next < next) /\ \A n \in run[m] : n < next
  BY NatUnary, Zenon DEF TypeOK, NameInv, MemoryInv
<1>2. ASSUME NEW p \in Object, p.name = next, store' = store \cup {p}
      PROVE  o \in store
  BY <1>1, <1>2, Zenon
<1>3. ASSUME NEW v \in Replica, RaiseFloor(v) \/ \E n \in run[v] : Delete(v, n)
      PROVE  o \in store
  BY <1>3, Zenon DEF RaiseFloor, Delete
<1> QED
  BY <1>2, <1>3, StoreChange, Zenon

\* Every step keeps the live segments of a selected run indexed.
LEMMA RunIndexed ==
    ASSUME TypeOK, NameInv, OriginInv, RunInv, [Next]_vars, NEW m \in Replica, mpc'[m] # "idle",
           NEW o \in store', o.name \in run'[m]
    PROVE  o \in idx'[m]
<1>1. CASE run'[m] = run[m] /\ mpc[m] # "idle"
  <2>1. o \in store
    BY <1>1, RunLive, Zenon
  <2>2. o \in idx[m]
    BY <1>1, <2>1, Zenon DEF RunInv
  <2> QED
    BY <2>2, IndexKeeps, Zenon
<1>2. CASE SelectExpired(m) \/ SelectRun(m)
  <2>0. run = [r \in Replica |-> run[r]]
    BY Zenon DEF TypeOK
  <2>1. PICK objs \in SUBSET idx[m] : run'[m] = Names(objs) /\ idx' = idx /\ store' = store
    BY <1>2, <2>0, Zenon DEF SelectExpired, SelectRun, shared, durable
  <2>2. PICK q \in objs : q.name = o.name
    BY <2>1, Zenon DEF Names
  <2>3. q \in made /\ o \in made
    BY <2>1, Zenon DEF OriginInv, NameInv, SpineInv
  <2>4. q = o
    BY <2>2, <2>3, Zenon DEF NameInv, SpineInv, NameNeverReused
  <2> QED
    BY <2>1, <2>4, Zenon
<1> QED
  BY <1>1, <1>2, RunTurns, Zenon

\* The merge takes over what its run serves; the rest has a higher copy.
LEMMA FetchedRun ==
    ASSUME TypeOK, NameInv, OriginInv, RunInv, NEW m \in Replica, FetchRun(m),
           NEW o \in store, o.name \in run[m], NEW e \in o.ents
    PROVE  e \in Served(m) \/ Higher(e, run[m])
<1>0. mpc[m] # "idle" /\ run[m] \subseteq Names(store)
  BY Zenon DEF FetchRun
<1>1. ASSUME NEW p \in made, p.name \in run[m]
      PROVE  p \in idx[m]
  <2>1. PICK q \in store : q.name = p.name
    BY <1>0, <1>1, Zenon DEF Names
  <2>2. q \in idx[m] /\ q = p
    BY <1>0, <1>1, <2>1, Zenon DEF RunInv, NameInv, SpineInv, NameNeverReused
  <2> QED
    BY <2>2, Zenon
<1>2. o \in idx[m]
  BY <1>1, Zenon DEF NameInv, SpineInv
<1>3. ASSUME e \notin Served(m)
      PROVE  Higher(e, run[m])
  <2>1. e \in Ents({p \in idx[m] : p.name \in run[m]})
    BY <1>2, Zenon DEF Ents
  <2>2. PICK q \in idx[m] : /\ e \in q.ents
                            /\ \A p \in idx[m] : p.name \in run[m] /\ e \in p.ents => p.name < q.name
    BY <1>3, <2>1, Zenon DEF Served
  <2>3. q \in made
    BY Zenon DEF OriginInv
  <2> QED
    BY <1>1, <2>2, <2>3, Zenon DEF Higher
<1> QED
  BY <1>3, Zenon

\* The created merge is a higher copy of everything it loaded.
LEMMA MergedHigher ==
    ASSUME PassInv, OriginInv, NEW m \in Replica, mpc[m] = "insert", NEW e \in load[m]
    PROVE  Higher(e, run[m])
<1>1. Merged(m) \in made /\ Merged(m).pass = pass[m] /\ Merged(m).ents = load[m]
  BY Zenon DEF OriginInv, Merged
<1>2. \A n \in run[m] : n < Merged(m).name
  BY <1>1, Zenon DEF PassInv
<1> QED
  BY <1>1, <1>2, Zenon DEF Higher

\* Every step keeps what a pass is about to delete expired, or copied above.
LEMMA RunStep ==
    ASSUME TypeOK, NameInv, WindowInv, PassInv, OriginInv, RunInv, [Next]_vars
    PROVE  RunInv'
<1>1. ASSUME NEW m \in Replica
      PROVE  \A n \in run[m] : n < next
  BY Zenon DEF NameInv, MemoryInv
<1>2. ASSUME NEW m \in Replica, mpc'[m] # "idle"
      PROVE  \A o \in store' : o.name \in run'[m] => o \in idx'[m]
  BY <1>2, RunIndexed, Zenon
<1>3. ASSUME NEW m \in Replica,
             mpc'[m] \in {"claim", "put", "probe", "insert", "reclaim", "floor", "delete"}
      PROVE  run'[m] = run[m]
  <2>1. mpc = [r \in Replica |-> mpc[r]]
    BY Zenon DEF TypeOK
  <2>2. ASSUME SelectExpired(m) \/ SelectRun(m)
        PROVE  mpc'[m] = "selected"
    BY <2>1, <2>2, Zenon DEF SelectExpired, SelectRun
  <2>3. mpc'[m] # "idle" /\ mpc'[m] # "selected"
    BY <1>3, Zenon
  <2> QED
    BY <2>2, <2>3, RunTurns, Zenon
<1>4. ASSUME NEW m \in Replica, NEW e, Higher(e, run[m]), run'[m] = run[m]
      PROVE  Higher(e, run[m])'
  <2>1. \E q \in made' : /\ e \in q.ents
                        /\ \A p \in made' : p.name \in run[m] /\ e \in p.ents => p.name < q.name
    BY <1>1, <1>4, HigherKept, Zenon DEF Higher
  <2> QED
    BY <1>4, <2>1, Zenon DEF Higher
<1>5. ASSUME NEW m \in Replica, mpc'[m] \in {"claim", "put", "probe", "insert", "reclaim"},
             NEW o \in store', o.name \in run'[m], NEW e \in o.ents
      PROVE  e \in load'[m] \/ Higher(e, run[m])'
  <2>1. run'[m] = run[m]
    BY <1>3, <1>5, Zenon
  <2>2. o \in store
    BY <1>5, <2>1, RunLive, Zenon
  <2>3. CASE mpc[m] \in {"claim", "put", "probe", "insert", "reclaim"} /\ load'[m] = load[m]
    <3>1. e \in load[m] \/ Higher(e, run[m])
      BY <1>5, <2>1, <2>2, <2>3, Zenon DEF RunInv
    <3> QED
      BY <1>4, <2>1, <2>3, <3>1, Zenon
  <2>4. CASE FetchRun(m)
    <3>1. e \in Served(m) \/ Higher(e, run[m])
      BY <1>5, <2>1, <2>2, <2>4, FetchedRun, Zenon
    <3>2. load = [r \in Replica |-> load[r]]
      BY Zenon DEF TypeOK
    <3>3. load'[m] = Served(m)
      BY <2>4, <3>2, Zenon DEF FetchRun
    <3> QED
      BY <1>4, <2>1, <3>1, <3>3, Zenon
  <2> QED
    BY <1>5, <2>3, <2>4, RunTurns, Zenon
<1>6. ASSUME NEW m \in Replica, mpc'[m] \in {"floor", "delete"},
             NEW o \in store', o.name \in run'[m], NEW e \in o.ents
      PROVE  e \in expired' \/ Higher(e, run[m])'
  <2>1. run'[m] = run[m]
    BY <1>3, <1>6, Zenon
  <2>2. o \in store
    BY <1>6, <2>1, RunLive, Zenon
  <2>3. CASE mpc[m] \in {"floor", "delete"}
    <3>1. e \in expired \/ Higher(e, run[m])
      BY <1>6, <2>1, <2>2, <2>3, Zenon DEF RunInv
    <3>2. expired \subseteq expired'
      BY VerdictGain, Zenon
    <3> QED
      BY <1>4, <2>1, <3>1, <3>2, Zenon
  <2>4. CASE HighsWritten(m)
    BY <1>6, <2>1, <2>2, <2>4, Zenon DEF HighsWritten, Ents
  <2>5. CASE FetchRun(m)
    <3>1. e \in Served(m) \/ Higher(e, run[m])
      BY <1>6, <2>1, <2>2, <2>5, FetchedRun, Zenon
    <3>2. mpc = [r \in Replica |-> mpc[r]]
      BY Zenon DEF TypeOK
    <3>3. Served(m) # {} => mpc'[m] = "claim"
      BY <2>5, <3>2, Zenon DEF FetchRun
    <3>4. Served(m) = {}
      BY <1>6, <3>3, Zenon
    <3> QED
      BY <1>4, <2>1, <3>1, <3>4, Zenon
  <2>6. CASE mpc[m] = "insert"
    <3>1. e \in load[m] \/ Higher(e, run[m])
      BY <1>6, <2>1, <2>2, <2>6, Zenon DEF RunInv
    <3>2. Higher(e, run[m])
      BY <2>6, <3>1, MergedHigher, Zenon
    <3> QED
      BY <1>4, <2>1, <3>2, Zenon
  <2> QED
    BY <1>6, <2>3, <2>4, <2>5, <2>6, RunTurns, Zenon
<1> QED
  BY <1>2, <1>5, <1>6, Zenon DEF RunInv

\* Every step leaves the highest copy of an entry live, unless it has expired.
LEMMA CopyStep ==
    ASSUME TypeOK, NameInv, WindowInv, OriginInv, CopyInv, RunInv, [Next]_vars
    PROVE  CopyInv'
<1>0. expired \subseteq expired'
  BY VerdictGain, Zenon
<1>1. \A e \in Log : \/ e \in expired
                     \/ \E p \in store : /\ e \in p.ents
                                        /\ \A q \in made : e \in q.ents => q.name <= p.name
  BY Zenon DEF CopyInv
<1>2. \A o \in made : o.name < next /\ o.name \in Nat
  BY Zenon DEF NameInv, SpineInv, TypeOK, Object
<1>3. ASSUME UNCHANGED <<store, made>>
      PROVE  CopyInv'
  <2>1. Log' = Log
    BY <1>3, Zenon DEF Log
  <2> QED
    BY <1>0, <1>1, <1>3, <2>1, Zenon DEF CopyInv
<1>4. ASSUME NEW o \in Object, o.name = next, store' = store \cup {o}, made' = made \cup {o}
      PROVE  CopyInv'
  <2>1. ASSUME NEW e \in Log', e \notin o.ents
        PROVE  e \in Log
    BY <1>4, <2>1, Zenon DEF Log, Ents
  <2>2. \A q \in made' : q.name <= o.name
    <3>1. o.name \in Nat
      BY Zenon DEF Object
    <3> QED
      BY <1>2, <1>4, <3>1, NatStrict, NatUnary, Zenon
  <2>3. ASSUME NEW e \in Log', e \notin o.ents, e \notin expired'
        PROVE  \E p \in store' : /\ e \in p.ents
                                 /\ \A q \in made' : e \in q.ents => q.name <= p.name
    BY <1>0, <1>1, <1>4, <2>1, <2>3, Zenon
  <2> QED
    BY <1>4, <2>2, <2>3, Zenon DEF CopyInv
<1>5. ASSUME NEW m \in Replica, NEW n \in run[m], Delete(m, n)
      PROVE  CopyInv'
  <2>1. mpc[m] = "delete" /\ store' = {o \in store : o.name # n} /\ made' = made
    BY <1>5, Zenon DEF Delete, history
  <2>2. Log' = Log
    BY <2>1, Zenon DEF Log
  <2>3. ASSUME NEW e \in Log, e \notin expired
        PROVE  \E p \in store' : /\ e \in p.ents
                                 /\ \A q \in made' : e \in q.ents => q.name <= p.name
    <3>1. PICK p \in store : /\ e \in p.ents
                             /\ \A q \in made : e \in q.ents => q.name <= p.name
      BY <1>1, <2>3, Zenon
    <3>2. ASSUME p.name = n
          PROVE  FALSE
      <4>1. Higher(e, run[m])
        BY <2>1, <2>3, <3>1, <3>2, Zenon DEF RunInv
      <4>2. p \in made
        BY Zenon DEF NameInv, SpineInv
      <4>3. PICK q \in made : e \in q.ents /\ p.name < q.name
        BY <3>1, <3>2, <4>1, <4>2, Zenon DEF Higher
      <4>4. q.name <= p.name /\ q.name \in Nat /\ p.name \in Nat
        BY <1>2, <3>1, <4>2, <4>3, Zenon
      <4> QED
        BY <4>3, <4>4, NatStrict, Zenon
    <3> QED
      BY <2>1, <3>1, <3>2, Zenon
  <2> QED
    BY <1>0, <2>2, <2>3, Zenon DEF CopyInv
<1>6. ASSUME NEW m \in Replica, RaiseFloor(m)
      PROVE  UNCHANGED <<store, made>>
  BY <1>6, Zenon DEF RaiseFloor, history
<1> QED
  BY <1>3, <1>4, <1>5, <1>6, StoreChange, Zenon

\* In the initial state there is nothing to tell apart.
LEMMA ContentInit ==
    ASSUME Init
    PROVE  ContentInv
<1>1. /\ made = {} /\ store = {} /\ net = {} /\ acked = {} /\ expired = {} /\ passes = 0
      /\ \A r \in Replica : /\ wpc[r] = "idle" /\ cur[r] = Nil /\ mpc[r] = "idle" /\ pass[r] = 0
                            /\ idx[r] = {} /\ load[r] = {}
  BY Zenon DEF Init
<1>2. Log = {}
  BY <1>1, Zenon DEF Log, Ents
<1>3. WindowInv
  BY <1>1, Zenon DEF WindowInv
<1>4. PassInv
  <2>1. 0 <= 0
    OBVIOUS
  <2> QED
    BY <1>1, <2>1, Zenon DEF PassInv
<1>5. OriginInv
  BY <1>1, <1>2, Zenon DEF OriginInv
<1>6. CopyInv
  BY <1>2, Zenon DEF CopyInv
<1>7. RunInv
  BY <1>1, Zenon DEF RunInv
<1> QED
  BY <1>3, <1>4, <1>5, <1>6, <1>7, Zenon DEF ContentInv

\* Every step keeps the contents of the log consistent.
LEMMA ContentStep ==
    ASSUME TypeOK, TypeOK', NameInv, NameInv', ContentInv, [Next]_vars
    PROVE  ContentInv'
<1>1. WindowInv /\ PassInv /\ OriginInv /\ CopyInv /\ RunInv /\ SpineInv'
  BY Zenon DEF ContentInv, NameInv
<1>2. WindowInv'
  BY <1>1, WindowStep, Zenon
<1>3. PassInv'
  BY <1>1, PassStep, Zenon
<1>4. OriginInv'
  BY <1>1, OriginStep, Zenon
<1>5. CopyInv'
  BY <1>1, CopyStep, Zenon
<1>6. RunInv'
  BY <1>1, RunStep, Zenon
<1> QED
  BY <1>2, <1>3, <1>4, <1>5, <1>6, Zenon DEF ContentInv

\* Windows, passes, copies and runs stay consistent: what a nonce identifies is
\* one segment, and a pass deletes only what has expired or was copied above.
THEOREM ContentsConsistent == BoundedPause => (Spec => []ContentInv)
<1> SUFFICES ASSUME BoundedPause PROVE Spec => []ContentInv
  BY Zenon
<1>1. Init => ContentInv
  BY ContentInit, Zenon
<1>2. TypeOK /\ TypeOK' /\ NameInv /\ NameInv' /\ ContentInv /\ [Next]_vars => ContentInv'
  BY ContentStep, Zenon
<1>3. Spec => []NameInv
  BY NamesConsistent, Zenon
<1> QED
  BY <1>1, <1>2, <1>3, TypeCorrect, PTL DEF Spec

\* An acknowledged entry is in a live segment until an expiry pass decides to
\* delete it: no merge, half-finished retirement or crash loses it.
THEOREM AckedNeverLost == BoundedPause => (Spec => []AckedRetained)
<1>1. ContentInv => AckedRetained
  <2> SUFFICES ASSUME ContentInv, NEW e \in acked, e \notin expired
               PROVE  e \in Ents(store)
    BY Zenon DEF AckedRetained
  <2>1. e \in Log
    BY Zenon DEF ContentInv, OriginInv
  <2>2. PICK p \in store : e \in p.ents
    BY <2>1, Zenon DEF ContentInv, CopyInv
  <2> QED
    BY <2>2, Zenon DEF Ents
<1> QED
  BY <1>1, ContentsConsistent, PTL

\* A window is in the log at most once: the nonce of a flush is in one segment,
\* however its create was probed, retried or delivered late.
THEOREM WindowsFlushedOnce == BoundedPause => (Spec => []FlushedOnce)
<1>1. TypeOK /\ ContentInv => FlushedOnce
  <2> SUFFICES ASSUME TypeOK, ContentInv, NEW d \in Log, NEW e \in Log, d.by = e.by, d.sub = e.sub
               PROVE  d = e
    BY Zenon DEF FlushedOnce
  <2>0. PICK o \in made : d \in o.ents
    BY Zenon DEF Log, Ents
  <2>1. d.by # Nil
    <3>1. d \in Entry
      BY <2>0, Zenon DEF TypeOK, Object
    <3> QED
      BY <3>1, SegmentLogAssumption, Zenon DEF Entry
  <2>2. PICK p \in made : p.by = d.by /\ d \in p.ents
    BY Zenon DEF ContentInv, OriginInv
  <2>3. PICK q \in made : q.by = e.by /\ e \in q.ents
    BY Zenon DEF ContentInv, OriginInv
  <2>4. p = q
    BY <2>1, <2>2, <2>3, Zenon DEF ContentInv, WindowInv
  <2>5. Formed(p)
    BY Zenon DEF ContentInv, OriginInv
  <2> QED
    BY <2>1, <2>2, <2>3, <2>4, <2>5, Zenon DEF Formed
<1> QED
  BY <1>1, ContentsConsistent, TypeCorrect, PTL

-----------------------------------------------------------------------------
(* The end of the log: what expiry leaves in watermark.json.               *)

\* Every entry of the log has a sub-stream and offsets.
LEMMA LogEntry ==
    ASSUME TypeOK
    PROVE  Log \subseteq Entry
<1> SUFFICES ASSUME NEW e \in Log
             PROVE  e \in Entry
  BY Zenon
<1>1. PICK o \in made : e \in o.ents
  BY Zenon DEF Log, Ents
<1> QED
  BY <1>1, Zenon DEF TypeOK, Object

\* An entry ends at an offset.
LEMMA EndType ==
    ASSUME NEW e \in Entry
    PROVE  e.sub \in Substream /\ e.base \in Nat /\ e.cnt \in Nat /\ End(e) \in Nat
<1>1. e.sub \in Substream /\ e.base \in Nat /\ e.cnt \in Nat
  BY Zenon DEF Entry
<1> QED
  BY <1>1, NatSum, Zenon DEF End

\* Only the watermark CAS of an expiry pass writes the assignment floors.
LEMMA HighChange ==
    ASSUME [Next]_vars
    PROVE  high' = high \/ \E m \in Replica : \E x \in Substream : WriteHigh(m, x)
<1>1. ASSUME NEW w \in Replica, FlushStep(w)
      PROVE  high' = high
  BY <1>1, Zenon
     DEF FlushStep, StartFlush, FlushRefresh, FoldWinner, FoldFailed, Claim, DeriveBase,
       PutOk, PutExists, PutError, ProbeOurs, ProbeTheirs, FailFlush, durable
<1>2. ASSUME NEW m \in Replica, MaintenanceStep(m)
      PROVE  high' = high \/ \E x \in Substream : WriteHigh(m, x)
  BY <1>2, Zenon
     DEF MaintenanceStep, SelectExpired, SelectRun, AcquireLease, HighsWritten,
       FetchRun, FetchGhost, MergeClaim, MergeOk, InsertMerged, FoldBelowWon, MergeLost,
       MergeReclaim, MergeError, MergeProbeOurs, RaiseFloor, Retired, Abort, Delete, durable
<1>3. ASSUME (\E r \in Replica : Sync(r) \/ Crash(r)) \/ (\E q \in net : LatePut(q)) \/ UNCHANGED vars
      PROVE  high' = high
  BY <1>3, Zenon DEF Sync, Crash, LatePut, vars, durable
<1> QED
  BY <1>1, <1>2, <1>3, SegmentLogAssumption, Zenon DEF Next

\* An assignment floor is raised to the end of an indexed entry, if at all.
LEMMA HighRaised ==
    ASSUME TypeOK, NEW m \in Replica, NEW x \in Substream, WriteHigh(m, x)
    PROVE  \/ WatermarkPutFails /\ high' = high
           \/ \E t \in Nat : /\ IsMax(t, Ends(x, Ents(idx[m])))
                             /\ high'[x] = Larger(high[x], t)
                             /\ \A y \in Substream : y # x => high'[y] = high[y]
<1>1. CASE WatermarkPutFails /\ high' = high
  BY <1>1, Zenon
<1>2. ASSUME NEW t \in Ends(x, Ents(idx[m])), IsMax(t, Ends(x, Ents(idx[m]))),
             high' = [high EXCEPT ![x] = Larger(@, t)]
      PROVE  \E u \in Nat : /\ IsMax(u, Ends(x, Ents(idx[m])))
                            /\ high'[x] = Larger(high[x], u)
                            /\ \A y \in Substream : y # x => high'[y] = high[y]
  <2>1. t \in Nat
    BY TailType, Zenon
  <2>2. high = [y \in Substream |-> high[y]]
    BY Zenon DEF TypeOK
  <2>3. high'[x] = Larger(high[x], t) /\ \A y \in Substream : y # x => high'[y] = high[y]
    BY <1>2, <2>2, Zenon
  <2> QED
    BY <1>2, <2>1, <2>3, Zenon
<1> QED
  BY <1>1, <1>2, Zenon DEF WriteHigh

\* The assignment floors never fall.
LEMMA HighGrows ==
    ASSUME TypeOK, [Next]_vars, NEW x \in Substream
    PROVE  high[x] \in Nat /\ high'[x] \in Nat /\ high[x] <= high'[x]
<1>0. \A y \in Substream : high[y] \in Nat
  BY Zenon DEF TypeOK
<1>1. CASE high' = high
  BY <1>0, <1>1, NatUnary, Zenon
<1>2. ASSUME NEW m \in Replica, NEW y \in Substream, WriteHigh(m, y)
      PROVE  high'[x] \in Nat /\ high[x] <= high'[x]
  <2>1. CASE high' = high
    BY <1>0, <2>1, NatUnary, Zenon
  <2>2. ASSUME NEW t \in Nat, high'[y] = Larger(high[y], t), x # y => high'[x] = high[x]
        PROVE  high'[x] \in Nat /\ high[x] <= high'[x]
    <3>1. high[x] \in Nat /\ high[x] <= high[x]
      BY <1>0, NatUnary, Zenon
    <3>2. CASE x = y
      <4>1. high'[x] = Larger(high[x], t)
        BY <2>2, <3>2, Zenon
      <4>2. Larger(high[x], t) \in Nat /\ high[x] <= Larger(high[x], t)
        BY <2>2, <3>1, LargerNat, Zenon
      <4> QED
        BY <4>1, <4>2, Zenon
    <3>3. CASE x # y
      BY <2>2, <3>1, <3>3, Zenon
    <3> QED
      BY <3>2, <3>3, Zenon
  <2> QED
    BY <1>2, <2>1, <2>2, HighRaised, Zenon
<1> QED
  BY <1>0, <1>1, <1>2, HighChange, Zenon

\* An entry below its assignment floor stays there.
LEMMA LowKept ==
    ASSUME TypeOK, [Next]_vars, NEW e \in Entry, Low(e)
    PROVE  Low(e)'
<1>1. e.sub \in Substream /\ End(e) \in Nat
  BY EndType, Zenon
<1>2. End(e) <= high[e.sub] /\ high[e.sub] \in Nat /\ high'[e.sub] \in Nat /\ high[e.sub] <= high'[e.sub]
  BY <1>1, HighGrows, Zenon DEF Low
<1>3. End(e) <= high'[e.sub]
  BY <1>1, <1>2, NatTransitive, Zenon
<1> QED
  BY <1>3, Zenon DEF Low, End

\* The end of an entry of a set is one of the ends of its sub-stream.
LEMMA EndsOf ==
    ASSUME NEW objs, NEW o \in objs, NEW e \in o.ents
    PROVE  End(e) \in Ends(e.sub, Ents(objs))
BY Zenon DEF Ends, Ents

\* Only an expiry pass that has written its floors lets entries expire.
LEMMA ExpiredChange ==
    ASSUME [Next]_vars
    PROVE  expired' = expired \/ \E m \in Replica : HighsWritten(m)
<1>1. ASSUME NEW w \in Replica, FlushStep(w)
      PROVE  expired' = expired
  BY <1>1, Zenon
     DEF FlushStep, StartFlush, FlushRefresh, FoldWinner, FoldFailed, Claim, DeriveBase,
       PutOk, PutExists, PutError, ProbeOurs, ProbeTheirs, FailFlush, history
<1>2. ASSUME NEW m \in Replica, MaintenanceStep(m)
      PROVE  expired' = expired \/ HighsWritten(m)
  BY <1>2, Zenon
     DEF MaintenanceStep, SelectExpired, SelectRun, AcquireLease, WriteHigh,
       FetchRun, FetchGhost, MergeClaim, MergeOk, InsertMerged, FoldBelowWon, MergeLost,
       MergeReclaim, MergeError, MergeProbeOurs, RaiseFloor, Retired, Abort, Delete, history
<1>3. ASSUME (\E r \in Replica : Sync(r) \/ Crash(r)) \/ (\E q \in net : LatePut(q)) \/ UNCHANGED vars
      PROVE  expired' = expired
  BY <1>3, Zenon DEF Sync, Crash, LatePut, vars, history
<1> QED
  BY <1>1, <1>2, <1>3, SegmentLogAssumption, Zenon DEF Next

\* A watermark write that succeeds covers the run's entries of its sub-stream.
LEMMA Covered ==
    ASSUME TypeOK, RunInv, ~WatermarkPutFails, [Next]_vars,
           NEW m \in Replica, NEW x \in Substream, WriteHigh(m, x),
           NEW o \in store, o.name \in run[m], NEW e \in o.ents, e \in Entry, e.sub = x
    PROVE  Low(e)'
<1>1. PICK t \in Nat : IsMax(t, Ends(x, Ents(idx[m]))) /\ high'[x] = Larger(high[x], t)
  BY HighRaised, Zenon
<1>2. o \in idx[m]
  <2>1. mpc[m] # "idle"
    BY Zenon DEF WriteHigh
  <2> QED
    BY <2>1, Zenon DEF RunInv
<1>3. End(e) <= t
  BY <1>1, <1>2, EndsOf, Zenon DEF IsMax
<1>4. End(e) \in Nat /\ high[x] \in Nat
  BY EndType, Zenon DEF TypeOK
<1>5. t \in Int /\ high[x] \in Int
  BY <1>1, <1>4, NatUnary, Zenon
<1>6. t <= high'[x] /\ high'[x] \in Nat
  <2>1. Larger(high[x], t) \in {high[x], t} /\ t <= Larger(high[x], t)
    BY <1>5, LargerFacts, Zenon
  <2>2. high'[x] = high[x] \/ high'[x] = t
    BY <1>1, <2>1, Zenon
  <2> QED
    BY <1>1, <1>4, <2>1, <2>2, Zenon
<1>7. End(e) <= high'[e.sub]
  BY <1>1, <1>3, <1>4, <1>6, NatTransitive, Zenon
<1> QED
  BY <1>7, Zenon DEF Low, End

\* Every step keeps the assignment floors ahead of what expires.
LEMMA LowStep ==
    ASSUME TypeOK, NameInv, WindowInv, OriginInv, RunInv, LowInv, ~WatermarkPutFails, [Next]_vars
    PROVE  LowInv'
<1>0. ASSUME NEW o \in store, NEW e \in o.ents
      PROVE  e \in Entry
  BY <1>0, Zenon DEF TypeOK, Object
<1>1. ASSUME NEW e \in expired'
      PROVE  Low(e)'
  <2>1. CASE e \in expired
    <3>1. e \in Entry /\ Low(e)
      BY <2>1, Zenon DEF TypeOK, LowInv
    <3> QED
      BY <3>1, LowKept, Zenon
  <2>2. ASSUME NEW m \in Replica, HighsWritten(m), e \notin expired
        PROVE  Low(e)'
    <3>1. PICK o \in store : o.name \in run[m] /\ e \in o.ents
      BY <2>2, Zenon DEF HighsWritten, Ents
    <3>2. mpc[m] = "high" /\ todo[m] = {}
      BY <2>2, Zenon DEF HighsWritten
    <3>3. e \in Entry /\ Low(e)
      BY <1>0, <3>1, <3>2, Zenon DEF LowInv
    <3> QED
      BY <3>3, LowKept, Zenon
  <2> QED
    BY <2>1, <2>2, ExpiredChange, Zenon
<1>2. ASSUME NEW m \in Replica, NEW o \in store, o.name \in run[m], NEW e \in o.ents,
             \/ mpc[m] = "high" \/ (mpc[m] = "selected" /\ kind[m] = "expire")
      PROVE  e.sub \in todo[m] \/ Low(e)'
  <2>1. e.sub \in todo[m] \/ Low(e)
    BY <1>2, Zenon DEF LowInv
  <2> QED
    BY <1>0, <2>1, LowKept, Zenon
<1>3. ASSUME NEW m \in Replica,
             \/ mpc'[m] = "high" \/ (mpc'[m] = "selected" /\ kind'[m] = "expire"),
             NEW o \in store', o.name \in run'[m], NEW e \in o.ents
      PROVE  e.sub \in todo'[m] \/ Low(e)'
  <2>1. CASE SelectExpired(m)
    <3>1. run = [r \in Replica |-> run[r]] /\ todo = [r \in Replica |-> todo[r]]
      BY Zenon DEF TypeOK
    <3>2. PICK objs \in SUBSET idx[m] :
            run'[m] = Names(objs) /\ todo'[m] = {d.sub : d \in Ents(objs)} /\ store' = store
      BY <2>1, <3>1, Zenon DEF SelectExpired, durable
    <3>3. PICK q \in objs : q.name = o.name
      BY <1>3, <3>2, Zenon DEF Names
    <3>4. q = o
      BY <3>2, <3>3, Zenon DEF OriginInv, NameInv, SpineInv, NameNeverReused
    <3> QED
      BY <3>2, <3>4, Zenon DEF Ents
  <2>2. ASSUME ~SelectExpired(m)
        PROVE  run'[m] = run[m]
    <3>1. mpc = [r \in Replica |-> mpc[r]] /\ kind = [r \in Replica |-> kind[r]]
      BY Zenon DEF TypeOK
    <3>2. ASSUME SelectRun(m)
          PROVE  mpc'[m] = "selected" /\ kind'[m] = "merge"
      BY <3>1, <3>2, Zenon DEF SelectRun
    <3> QED
      BY <1>3, <2>2, <3>2, RunTurns, Zenon
  <2>3. CASE /\ run'[m] = run[m] /\ todo'[m] = todo[m]
             /\ mpc[m] = "high" \/ (mpc[m] = "selected" /\ kind[m] = "expire")
    <3>1. o \in store
      BY <1>3, <2>3, RunLive, Zenon
    <3> QED
      BY <1>2, <1>3, <2>3, <3>1, Zenon
  <2>4. ASSUME run'[m] = run[m], NEW x \in Substream, WriteHigh(m, x)
        PROVE  e.sub \in todo'[m] \/ Low(e)'
    <3>1. o \in store
      BY <1>3, <2>4, RunLive, Zenon
    <3>2. todo = [r \in Replica |-> todo[r]]
      BY Zenon DEF TypeOK
    <3>3. todo'[m] = todo[m] \ {x} /\ mpc[m] = "high"
      BY <2>4, <3>2, Zenon DEF WriteHigh
    <3>4. e.sub \in todo[m] \/ Low(e)'
      BY <1>2, <1>3, <2>4, <3>1, <3>3, Zenon
    <3>5. e.sub = x => Low(e)'
      BY <1>0, <1>3, <2>4, <3>1, Covered, Zenon
    <3> QED
      BY <3>3, <3>4, <3>5, Zenon
  <2> QED
    BY <1>3, <2>1, <2>2, <2>3, <2>4, RunTurns, Zenon
<1> QED
  BY <1>1, <1>3, Zenon DEF LowInv

\* What has expired is below the assignment floors, unless a watermark write
\* failed.
THEOREM FloorsCoverExpired == BoundedPause /\ ~WatermarkPutFails => (Spec => []LowInv)
<1> SUFFICES ASSUME BoundedPause, ~WatermarkPutFails PROVE Spec => []LowInv
  BY Zenon
<1>1. Init => LowInv
  BY Zenon DEF Init, LowInv
<1>2. TypeOK /\ NameInv /\ ContentInv /\ LowInv /\ [Next]_vars => LowInv'
  BY LowStep, Zenon DEF ContentInv
<1>3. Spec => []NameInv
  BY NamesConsistent, Zenon
<1>4. Spec => []ContentInv
  BY ContentsConsistent, Zenon
<1> QED
  BY <1>1, <1>2, <1>3, <1>4, TypeCorrect, PTL DEF Spec

\* A cold replica finds the end of the log in what is durable: every entry is
\* in a live segment, or below the assignment floor that expiry wrote first.
THEOREM EndAlwaysRecoverable ==
    BoundedPause /\ ~WatermarkPutFails => (Spec => []EndRecoverable)
<1>1. TypeOK /\ ContentInv /\ LowInv => EndRecoverable
  <2> SUFFICES ASSUME TypeOK, ContentInv, LowInv, NEW e \in Log
               PROVE  \/ End(e) <= high[e.sub]
                      \/ \E d \in Ents(store) : d.sub = e.sub /\ End(e) <= End(d)
    BY Zenon DEF EndRecoverable
  <2>1. CASE e \in expired
    BY <2>1, Zenon DEF LowInv, Low
  <2>2. CASE e \notin expired
    <3>1. PICK p \in store : e \in p.ents
      BY <2>2, Zenon DEF ContentInv, CopyInv
    <3>2. End(e) \in Nat
      BY LogEntry, EndType, Zenon
    <3>3. End(e) <= End(e)
      BY <3>2, NatUnary, Zenon
    <3> QED
      BY <3>1, <3>3, Zenon DEF Ents
  <2> QED
    BY <2>1, <2>2, Zenon
<1> QED
  BY <1>1, ContentsConsistent, FloorsCoverExpired, TypeCorrect, PTL

-----------------------------------------------------------------------------
(* Edges: every offset that a base may be derived from ends an entry.      *)

\* The larger of two edges is an edge.
LEMMA LargerEdge ==
    ASSUME NEW x, NEW a, NEW b, Edge(x, a), Edge(x, b)
    PROVE  Edge(x, Larger(a, b))
BY Zenon DEF Larger

\* The folded tail of an index is an edge.
LEMMA TailEdge ==
    ASSUME OriginInv, NEW r \in Replica, NEW x, NEW t \in Ends(x, Ents(idx[r]))
    PROVE  Edge(x, t)
<1>1. Ents(idx[r]) \subseteq Log
  BY Zenon DEF OriginInv, Log, Ents
<1>2. t = 0 \/ \E d \in Ents(idx[r]) : d.sub = x /\ t = End(d)
  BY Zenon DEF Ends
<1> QED
  BY <1>1, <1>2, Zenon DEF Edge

\* An edge stays one: the log only grows.
LEMMA EdgeKept ==
    ASSUME TypeOK, NameInv, [Next]_vars, NEW x, NEW b, Edge(x, b)
    PROVE  Edge(x, b)'
<1>1. Log \subseteq Log'
  BY LogGrows, Zenon
<1> QED
  BY <1>1, Zenon DEF Edge, End

\* How a high hint changes: it is kept, forgotten, or advanced by a flush whose
\* segment is durable.
LEMMA HintTurns ==
    ASSUME TypeOK, NameInv, WindowInv, [Next]_vars, NEW r \in Replica, NEW x \in Substream
    PROVE  \/ hint'[r][x] \in {hint[r][x], 0}
           \/ /\ x \in Carried(r) /\ Segment(r) \in made'
              /\ hint'[r][x] = Larger(hint[r][x], base[r][x] + Count[cur[r]][x])
<1> DEFINE Goal ==
      \/ hint'[r][x] \in {hint[r][x], 0}
      \/ /\ x \in Carried(r) /\ Segment(r) \in made'
         /\ hint'[r][x] = Larger(hint[r][x], base[r][x] + Count[cur[r]][x])
<1>0. hint = [s \in Replica |-> hint[s]] /\ made \subseteq made' /\ store \subseteq made
  BY Monotone, Zenon DEF TypeOK, NameInv, SpineInv
<1>1. ASSUME hint' = hint
      PROVE  Goal
  BY <1>1, Zenon
<1>2. ASSUME NEW w \in Replica, PutOk(w) \/ ProbeOurs(w)
      PROVE  Goal
  <2>1. Segment(w) \in made'
    BY <1>0, <1>2, ProbedSegment, Zenon DEF PutOk, Create
  <2>2. Won(w)
    BY <1>2, Zenon DEF PutOk, ProbeOurs
  <2>3. CASE w # r
    <3>1. hint'[r] = hint[r]
      BY <1>0, <2>2, <2>3, Zenon DEF Won
    <3> QED
      BY <3>1, Zenon
  <2>4. CASE w = r
    <3>1. hint'[r] = [y \in Substream |-> IF y \in Carried(r)
                                         THEN Larger(hint[r][y], base[r][y] + Count[cur[r]][y])
                                         ELSE hint[r][y]]
      BY <1>0, <2>2, <2>4, Zenon DEF Won
    <3>2. hint'[r][x] = IF x \in Carried(r)
                        THEN Larger(hint[r][x], base[r][x] + Count[cur[r]][x])
                        ELSE hint[r][x]
      BY <3>1, Zenon
    <3> QED
      BY <2>1, <2>4, <3>2, Zenon
  <2> QED
    BY <2>3, <2>4, Zenon
<1>3. ASSUME NEW w \in Replica, FlushStep(w)
      PROVE  hint' = hint \/ PutOk(w) \/ ProbeOurs(w)
  BY <1>3, Zenon
     DEF FlushStep, StartFlush, FlushRefresh, FoldWinner, FoldFailed, Claim, DeriveBase,
       PutExists, PutError, ProbeTheirs, FailFlush, shared
<1>4. ASSUME NEW m \in Replica, Retired(m)
      PROVE  Goal
  <2>1. CASE m # r
    <3>1. hint'[r] = hint[r]
      BY <1>0, <1>4, <2>1, Zenon DEF Retired
    <3> QED
      BY <3>1, Zenon
  <2>2. CASE m = r
    <3>1. hint'[r] = [y \in Substream |-> IF y \in lost[r] THEN 0 ELSE hint[r][y]]
      BY <1>0, <1>4, <2>2, Zenon DEF Retired
    <3>2. hint'[r][x] = IF x \in lost[r] THEN 0 ELSE hint[r][x]
      BY <3>1, Zenon
    <3> QED
      BY <3>2, Zenon
  <2> QED
    BY <2>1, <2>2, Zenon
<1>5. ASSUME NEW m \in Replica, MaintenanceStep(m)
      PROVE  hint' = hint \/ Retired(m)
  BY <1>5, Zenon
     DEF MaintenanceStep, SelectExpired, SelectRun, AcquireLease, WriteHigh, HighsWritten,
       FetchRun, FetchGhost, MergeClaim, MergeOk, InsertMerged, FoldBelowWon, MergeLost,
       MergeReclaim, MergeError, MergeProbeOurs, RaiseFloor, Abort, Delete, shared
<1>6. ASSUME NEW s \in Replica, Crash(s)
      PROVE  Goal
  <2>1. hint'[r] = hint[r] \/ hint'[r] = [y \in Substream |-> 0]
    BY <1>0, <1>6, Zenon DEF Crash
  <2> QED
    BY <2>1, Zenon
<1>7. ASSUME (\E s \in Replica : Sync(s)) \/ (\E q \in net : LatePut(q)) \/ UNCHANGED vars
      PROVE  hint' = hint
  BY <1>7, Zenon DEF Sync, LatePut, vars, shared
<1> QED
  BY <1>1, <1>2, <1>3, <1>4, <1>5, <1>6, <1>7, SegmentLogAssumption, Zenon DEF Next

\* How a base changes: it is kept, reset by a claim or the end of the flush, or
\* derived from the index, the hint and the assignment floor.
LEMMA BaseTurns ==
    ASSUME TypeOK, [Next]_vars, NEW r \in Replica, NEW x \in Substream
    PROVE  \/ base'[r][x] \in {base[r][x], -1}
           \/ DeriveBase(r, x) /\ \E t \in Ends(x, Ents(idx[r])), h \in Nat :
                /\ h = high[x] \/ (WatermarkGetFails /\ h = 0)
                /\ IsMax(t, Ends(x, Ents(idx[r])))
                /\ base'[r][x] = Larger(Larger(t, hint[r][x]), h)
<1> DEFINE Goal ==
      \/ base'[r][x] \in {base[r][x], -1}
      \/ DeriveBase(r, x) /\ \E t \in Ends(x, Ents(idx[r])), h \in Nat :
           /\ h = high[x] \/ (WatermarkGetFails /\ h = 0)
           /\ IsMax(t, Ends(x, Ents(idx[r])))
           /\ base'[r][x] = Larger(Larger(t, hint[r][x]), h)
<1>0. /\ base = [s \in Replica |-> base[s]] /\ \A y \in Substream : high[y] \in Nat
      /\ \A s \in Replica : base[s] = [y \in Substream |-> base[s][y]]
  BY Zenon DEF TypeOK
<1>1. ASSUME base' = base
      PROVE  Goal
  BY <1>1, Zenon
<1>2. ASSUME NEW w \in Replica, base' = [base EXCEPT ![w] = [y \in Substream |-> -1]]
      PROVE  Goal
  <2>1. base'[r] = base[r] \/ base'[r] = [y \in Substream |-> -1]
    BY <1>0, <1>2, Zenon
  <2> QED
    BY <2>1, Zenon
<1>3. ASSUME NEW w \in Replica, NEW y \in Substream, DeriveBase(w, y)
      PROVE  Goal
  <2>1. PICK t \in Ends(y, Ents(idx[w])), h \in Nat :
           /\ h = high[y] \/ (WatermarkGetFails /\ h = 0)
           /\ IsMax(t, Ends(y, Ents(idx[w])))
           /\ base' = [base EXCEPT ![w][y] = Larger(Larger(t, hint[w][y]), h)]
    <3>1. 0 \in Nat
      OBVIOUS
    <3> QED
      BY <1>0, <1>3, <3>1, Zenon DEF DeriveBase
  <2>2. CASE w = r /\ x = y
    <3>1. base'[r][x] = Larger(Larger(t, hint[r][x]), h)
      BY <1>0, <2>1, <2>2, Zenon
    <3> QED
      BY <1>3, <2>1, <2>2, <3>1, Zenon
  <2>3. CASE w # r \/ x # y
    <3>1. base'[r][x] = base[r][x]
      BY <1>0, <2>1, <2>3, Zenon
    <3> QED
      BY <3>1, Zenon
  <2> QED
    BY <2>2, <2>3, Zenon
<1>4. ASSUME NEW w \in Replica, FlushStep(w)
      PROVE  \/ base' = base \/ base' = [base EXCEPT ![w] = [y \in Substream |-> -1]]
             \/ \E y \in Substream : DeriveBase(w, y)
  BY <1>4, Zenon
     DEF FlushStep, StartFlush, FlushRefresh, FoldWinner, FoldFailed, Claim,
       PutOk, PutExists, PutError, ProbeOurs, ProbeTheirs, FailFlush, Won, EndFlush
<1>5. ASSUME NEW m \in Replica, MaintenanceStep(m)
      PROVE  base' = base
  BY <1>5, Zenon
     DEF MaintenanceStep, SelectExpired, SelectRun, AcquireLease, WriteHigh, HighsWritten,
       FetchRun, FetchGhost, MergeClaim, MergeOk, InsertMerged, FoldBelowWon, MergeLost,
       MergeReclaim, MergeError, MergeProbeOurs, RaiseFloor, Retired, Abort, Delete, wvars
<1>6. ASSUME NEW s \in Replica, Sync(s) \/ Crash(s)
      PROVE  base' = base \/ base' = [base EXCEPT ![s] = [y \in Substream |-> -1]]
  BY <1>6, Zenon DEF Sync, Crash, EndFlush, wvars
<1>7. ASSUME (\E q \in net : LatePut(q)) \/ UNCHANGED vars
      PROVE  base' = base
  BY <1>7, Zenon DEF LatePut, vars, wvars
<1> QED
  BY <1>1, <1>2, <1>3, <1>4, <1>5, <1>6, <1>7, SegmentLogAssumption, Zenon DEF Next

\* The entry of a sub-stream that a flush carries.
LEMMA SegmentEntry ==
    ASSUME NEW w \in Replica, NEW e \in Segment(w).ents
    PROVE  /\ e.sub \in Carried(w) /\ e.base = base[w][e.sub] /\ e.cnt = Count[cur[w]][e.sub]
           /\ e.by = cur[w] /\ e.at = cand[w]
<1>1. PICK x \in Carried(w) :
        e = [sub |-> x, base |-> base[w][x], cnt |-> Count[cur[w]][x], by |-> cur[w], at |-> cand[w]]
  BY Zenon DEF Segment
<1> QED
  BY <1>1, EntryFields, Zenon

\* A flush's segment ends where the flush assigned its last offset.
LEMMA SegmentEnds ==
    ASSUME NEW w \in Replica, NEW x \in Carried(w)
    PROVE  \E e \in Segment(w).ents : e.sub = x /\ End(e) = base[w][x] + Count[cur[w]][x]
<1> DEFINE e == [sub |-> x, base |-> base[w][x], cnt |-> Count[cur[w]][x], by |-> cur[w], at |-> cand[w]]
<1>1. e \in Segment(w).ents
  BY Zenon DEF Segment
<1>2. e.sub = x /\ End(e) = base[w][x] + Count[cur[w]][x]
  BY EntryFields, Zenon DEF End
<1> QED
  BY <1>1, <1>2, Zenon

\* What a create carries begins at edges.
LEMMA SentEdge ==
    ASSUME TypeOK, OriginInv, EdgeInv, NEW o, Sent(o), NEW e \in o.ents
    PROVE  Edge(e.sub, e.base)
<1>1. ASSUME NEW w \in Replica, Ready(w), o = Segment(w)
      PROVE  Edge(e.sub, e.base)
  <2>1. e.sub \in Carried(w) /\ e.base = base[w][e.sub]
    BY <1>1, SegmentEntry, Zenon
  <2>2. base[w][e.sub] # -1 /\ e.sub \in Substream
    BY <1>1, <2>1, Zenon DEF Ready, Carried
  <2> QED
    BY <2>1, <2>2, Zenon DEF EdgeInv
<1>2. ASSUME NEW m \in Replica, o = Merged(m)
      PROVE  Edge(e.sub, e.base)
  <2>1. e \in Log
    BY <1>2, Zenon DEF Merged, OriginInv
  <2> QED
    BY <2>1, Zenon DEF EdgeInv, Gapless, Edge
<1>3. ASSUME NEW q \in net, o = q.obj
      PROVE  Edge(e.sub, e.base)
  BY <1>3, Zenon DEF EdgeInv
<1> QED
  BY <1>1, <1>2, <1>3, Zenon DEF Sent

\* Every step keeps the bases, the hints and the assignment floors at edges.
LEMMA EdgeStep ==
    ASSUME TypeOK, NameInv, WindowInv, OriginInv, EdgeInv, [Next]_vars
    PROVE  EdgeInv'
<1>1. ASSUME NEW e \in Log'
      PROVE  Edge(e.sub, e.base)'
  <2>1. PICK o \in made' : e \in o.ents
    BY Zenon DEF Log, Ents
  <2>2. CASE o \in made
    <3>1. e \in Log
      BY <2>1, <2>2, Zenon DEF Log, Ents
    <3>2. Edge(e.sub, e.base)
      BY <3>1, Zenon DEF EdgeInv, Gapless, Edge
    <3> QED
      BY <3>2, EdgeKept, Zenon
  <2>3. CASE Sent(o)
    <3>1. Edge(e.sub, e.base)
      BY <2>1, <2>3, SentEdge, Zenon
    <3> QED
      BY <3>1, EdgeKept, Zenon
  <2> QED
    BY <2>2, <2>3, MadeSent, Zenon
<1>2. Gapless'
  BY <1>1, Zenon DEF Gapless, Edge
<1>3. ASSUME NEW x \in Substream
      PROVE  Edge(x, high'[x])
  <2>0. \A y \in Substream : Edge(y, high[y])
    BY Zenon DEF EdgeInv
  <2>1. CASE high' = high
    BY <2>0, <2>1, Zenon
  <2>2. ASSUME NEW m \in Replica, NEW y \in Substream, WriteHigh(m, y)
        PROVE  Edge(x, high'[x])
    <3>1. CASE high' = high
      BY <2>0, <3>1, Zenon
    <3>2. ASSUME NEW t \in Nat, IsMax(t, Ends(y, Ents(idx[m]))), high'[y] = Larger(high[y], t),
                 x # y => high'[x] = high[x]
          PROVE  Edge(x, high'[x])
      <4>1. Edge(y, t)
        BY <3>2, TailEdge, Zenon DEF IsMax
      <4>2. Edge(y, high'[y])
        BY <2>0, <3>2, <4>1, LargerEdge, Zenon
      <4> QED
        BY <2>0, <3>2, <4>2, Zenon
    <3> QED
      BY <2>2, <3>1, <3>2, HighRaised, Zenon
  <2> QED
    BY <2>1, <2>2, HighChange, Zenon
<1>4. ASSUME NEW x \in Substream
      PROVE  Edge(x, high[x])'
  BY <1>3, EdgeKept, Zenon
<1>5. ASSUME NEW r \in Replica, NEW x \in Substream
      PROVE  Edge(x, hint[r][x])'
  <2>1. Edge(x, hint[r][x]) /\ Edge(x, 0)
    BY Zenon DEF EdgeInv, Edge
  <2>2. CASE hint'[r][x] \in {hint[r][x], 0}
    <3>1. Edge(x, hint'[r][x])
      BY <2>1, <2>2, Zenon
    <3> QED
      BY <3>1, EdgeKept, Zenon
  <2>3. CASE /\ x \in Carried(r) /\ Segment(r) \in made'
             /\ hint'[r][x] = Larger(hint[r][x], base[r][x] + Count[cur[r]][x])
    <3>1. PICK e \in Segment(r).ents : e.sub = x /\ End(e) = base[r][x] + Count[cur[r]][x]
      BY <2>3, SegmentEnds, Zenon
    <3>2. e \in Log'
      BY <2>3, <3>1, Zenon DEF Log, Ents
    <3>3. CASE hint'[r][x] = hint[r][x]
      BY <2>1, <3>3, EdgeKept, Zenon
    <3>4. CASE hint'[r][x] = base[r][x] + Count[cur[r]][x]
      BY <3>1, <3>2, <3>4, Zenon DEF Edge, End
    <3> QED
      BY <2>3, <3>3, <3>4, Zenon DEF Larger
  <2> QED
    BY <2>2, <2>3, HintTurns, Zenon
<1>6. ASSUME NEW r \in Replica, NEW x \in Substream, base'[r][x] # -1
      PROVE  Edge(x, base[r][x])'
  <2>1. CASE base'[r][x] = base[r][x]
    <3>1. Edge(x, base'[r][x])
      BY <1>6, <2>1, Zenon DEF EdgeInv
    <3> QED
      BY <3>1, EdgeKept, Zenon
  <2>2. ASSUME NEW t \in Ends(x, Ents(idx[r])), NEW h \in Nat, h = high[x] \/ h = 0,
               base'[r][x] = Larger(Larger(t, hint[r][x]), h)
        PROVE  Edge(x, base[r][x])'
    <3>0. Edge(x, hint[r][x]) /\ Edge(x, high[x]) /\ Edge(x, 0)
      BY Zenon DEF EdgeInv, Edge
    <3>1. Edge(x, t) /\ Edge(x, hint[r][x]) /\ Edge(x, h)
      BY <2>2, <3>0, TailEdge, Zenon
    <3>2. Edge(x, base'[r][x])
      BY <2>2, <3>1, LargerEdge, Zenon
    <3> QED
      BY <3>2, EdgeKept, Zenon
  <2> QED
    BY <1>6, <2>1, <2>2, BaseTurns, Zenon
<1>7. ASSUME NEW q \in net', NEW e \in q.obj.ents
      PROVE  Edge(e.sub, e.base)'
  <2>1. Edge(e.sub, e.base)
    BY NetSent, SentEdge, Zenon
  <2> QED
    BY <2>1, EdgeKept, Zenon
<1> QED
  BY <1>2, <1>4, <1>5, <1>6, <1>7, Zenon DEF EdgeInv

\* The bases, the hints and the assignment floors stay at edges, whichever
\* watermark requests fail.
THEOREM EdgesConsistent == BoundedPause => (Spec => []EdgeInv)
<1> SUFFICES ASSUME BoundedPause PROVE Spec => []EdgeInv
  BY Zenon
<1>1. Init => EdgeInv
  <2> SUFFICES ASSUME Init PROVE EdgeInv
    BY Zenon
  <2>1. Log = {}
    BY Zenon DEF Init, Log, Ents
  <2>2. /\ \A x \in Substream : high[x] = 0
        /\ \A r \in Replica : \A x \in Substream : hint[r][x] = 0 /\ base[r][x] = -1
        /\ net = {}
    BY Zenon DEF Init
  <2> QED
    BY <2>1, <2>2, Zenon DEF EdgeInv, Gapless, Edge
<1>2. TypeOK /\ NameInv /\ ContentInv /\ EdgeInv /\ [Next]_vars => EdgeInv'
  BY EdgeStep, Zenon DEF ContentInv
<1>3. Spec => []NameInv
  BY NamesConsistent, Zenon
<1>4. Spec => []ContentInv
  BY ContentsConsistent, Zenon
<1> QED
  BY <1>1, <1>2, <1>3, <1>4, TypeCorrect, PTL DEF Spec

\* No offset is skipped: leaseless_base never overshoots the end of the log,
\* even when the read or the write of a watermark fails.
THEOREM LogGapless == BoundedPause => (Spec => []Gapless)
<1>1. EdgeInv => Gapless
  BY Zenon DEF EdgeInv
<1> QED
  BY <1>1, EdgesConsistent, PTL

-----------------------------------------------------------------------------
(* Indexes without holes.                                                  *)

\* Below its top, an index holds every live segment.
LEMMA BelowTop ==
    ASSUME TypeOK, CoverInv, NEW r \in Replica, NEW t \in Tops(idx[r]), NEW p \in store, p.name < t
    PROVE  p \in idx[r]
<1>1. p.name \in Nat
  BY Zenon DEF TypeOK, Object
<1>2. t # 0
  BY <1>1, NatUnary, Zenon
<1>3. PICK o \in idx[r] : t = o.name + 1
  BY <1>2, Zenon DEF Tops
<1>4. p.name < o.name + 1
  BY <1>3, Zenon
<1> QED
  BY <1>4, Zenon DEF CoverInv, Covers

\* The top of an index is a name.
LEMMA IndexTop ==
    ASSUME TypeOK, NEW r \in Replica, NEW t \in Tops(idx[r])
    PROVE  t \in Nat
<1>0. idx[r] \subseteq Object
  BY Zenon DEF TypeOK
<1>1. \A o \in idx[r] : o.name \in Nat
  BY <1>0, Zenon DEF Object
<1>2. t = 0 \/ \E o \in idx[r] : t = o.name + 1
  BY Zenon DEF Tops
<1> QED
  BY <1>1, <1>2, NatUnary, Zenon

\* A refresh brings every live segment into the index.
LEMMA RefreshCovers ==
    ASSUME TypeOK, NameInv, CoverInv, NEW r \in Replica, Refresh(r)
    PROVE  store \subseteq idx'[r]
<1> SUFFICES ASSUME NEW p \in store
             PROVE  p \in idx'[r]
  BY Zenon
<1>0. idx = [s \in Replica |-> idx[s]]
  BY Zenon DEF TypeOK
<1>1. p.name \in Nat /\ p.name < next /\ next \in Nat /\ floor \in Nat
  BY Zenon DEF TypeOK, Object, NameInv, SpineInv
<1>2. CASE ProbeTail(r)
  <2>1. PICK t \in Tops(idx[r]), a \in Tops(idx[r]) \cup Tops(store) :
          /\ Free(a) /\ floor <= a
          /\ idx' = [idx EXCEPT ![r] = @ \cup {o \in store : t <= o.name /\ o.name < a}]
    BY <1>2, Zenon DEF ProbeTail
  <2>2. t \in Nat /\ a \in Nat
    BY <2>1, IndexTop, TopType, Zenon
  <2>3. next <= a
    <3>1. \A n \in 0 .. next - 1 : ~Free(n) \/ n < floor
      BY Zenon DEF NameInv, SpineInv
    <3> QED
      <4>1. a < next => Free(a) /\ a \in 0 .. next - 1
        BY <1>1, <2>1, <2>2, NatStrict, Zenon
      <4>2. floor <= a => ~(a < floor)
        BY <1>1, <2>2, NatStrict, Zenon
      <4> QED
        BY <1>1, <2>1, <2>2, <3>1, <4>1, <4>2, NatTotal, Zenon
  <2>4. p.name < a /\ (p.name < t \/ t <= p.name)
    BY <1>1, <2>2, <2>3, NatTotal, NatTransitive, Zenon
  <2>5. p.name < t => p \in idx[r]
    BY <2>1, BelowTop, Zenon
  <2>6. idx'[r] = idx[r] \cup {o \in store : t <= o.name /\ o.name < a}
    BY <1>0, <2>1, Zenon
  <2> QED
    BY <2>4, <2>5, <2>6, Zenon
<1>3. CASE ListTail(r)
  <2>1. PICK t \in Tops(idx[r]) : idx' = [idx EXCEPT ![r] = @ \cup {o \in store : t <= o.name}]
    BY <1>3, Zenon DEF ListTail
  <2>2. t \in Nat
    BY <2>1, IndexTop, Zenon
  <2>3. p.name < t \/ t <= p.name
    BY <1>1, <2>2, NatTotal, Zenon
  <2>4. p.name < t => p \in idx[r]
    BY <2>1, BelowTop, Zenon
  <2> QED
    BY <1>0, <2>1, <2>3, <2>4, Zenon
<1>4. CASE ListAll(r)
  BY <1>0, <1>4, Zenon DEF ListAll
<1> QED
  BY <1>2, <1>3, <1>4, Zenon DEF Refresh

\* Two created segments of one name are one.
LEMMA SameName ==
    ASSUME NameInv, NEW o \in made, NEW p \in made, o.name = p.name
    PROVE  o = p
BY Zenon DEF NameInv, SpineInv, NameNeverReused

\* What is indexed under a name leaves no live segment below it out.
LEMMA Added ==
    ASSUME TypeOK, NameInv, NameInv', WindowInv, PassInv, OriginInv, CoverInv, ~FoldBelowFails,
           [Next]_vars, NEW r \in Replica, NEW o \in idx'[r], o \notin idx[r],
           NEW p \in store, p.name <= o.name
    PROVE  p \in idx'[r]
<1>0. /\ idx = [s \in Replica |-> idx[s]] /\ p \in made /\ store \subseteq made
      /\ made \subseteq made' /\ p.name \in Nat
  BY Monotone, Zenon DEF TypeOK, Object, NameInv, SpineInv
<1>1. ASSUME NEW s \in Replica, Refresh(s)
      PROVE  p \in idx'[r]
  <2>1. s = r
    BY <1>1, RefreshFacts, Zenon
  <2> QED
    BY <1>1, <2>1, RefreshCovers, Zenon
<1>2. ASSUME wpc[r] \in {"fold", "base", "probe"}, o.name = cand[r], o \in made',
             idx'[r] = idx[r] \cup {o}
      PROVE  p \in idx'[r]
  <2>1. cand[r] \in Nat
    BY Zenon DEF TypeOK
  <2>2. p.name < cand[r] \/ p.name = o.name
    BY <1>0, <1>2, <2>1, NatBelow, Zenon
  <2>3. p.name < cand[r] => p \in idx[r]
    BY <1>2, Zenon DEF CoverInv, Covers
  <2>4. p.name = o.name => p = o
    BY <1>0, <1>2, Zenon DEF NameInv, SpineInv, NameNeverReused
  <2> QED
    BY <1>2, <2>2, <2>3, <2>4, Zenon
<1>3. ASSUME NEW w \in Replica, FoldWinner(w)
      PROVE  p \in idx'[r]
  <2>1. w = r
    BY <1>0, <1>3, Zenon DEF FoldWinner
  <2>2. PICK q \in store : q.name = cand[r] /\ idx' = [idx EXCEPT ![r] = @ \cup {q}]
    BY <1>3, <2>1, Zenon DEF FoldWinner
  <2>3. idx'[r] = idx[r] \cup {q}
    BY <1>0, <2>2, Zenon
  <2>4. o = q
    BY <2>3, Zenon
  <2>5. wpc[r] = "fold"
    BY <1>3, <2>1, Zenon DEF FoldWinner
  <2> QED
    BY <1>0, <1>2, <2>2, <2>3, <2>4, <2>5, Zenon
<1>4. ASSUME NEW w \in Replica, PutOk(w) \/ ProbeOurs(w)
      PROVE  p \in idx'[r]
  <2>1. idx' = [idx EXCEPT ![w] = @ \cup {Segment(w)}]
    BY <1>4, Zenon DEF PutOk, ProbeOurs, Won
  <2>2. w = r
    BY <1>0, <2>1, Zenon
  <2>3. idx'[r] = idx[r] \cup {Segment(r)}
    BY <1>0, <2>1, <2>2, Zenon
  <2>4. o = Segment(r)
    BY <2>3, Zenon
  <2>5. Segment(r) \in made'
    BY <1>0, <1>4, <2>2, ProbedSegment, Zenon DEF PutOk, Create
  <2>6. Segment(r).name = cand[r]
    BY Zenon DEF Segment
  <2>7. wpc[r] \in {"fold", "base", "probe"}
    BY <1>4, <2>2, Zenon DEF PutOk, ProbeOurs, Ready
  <2> QED
    BY <1>2, <2>3, <2>4, <2>5, <2>6, <2>7, Zenon
<1>5. ASSUME NEW w \in Replica, FlushStep(w)
      PROVE  p \in idx'[r]
  <2>1. CASE FlushRefresh(w)
    BY <1>1, <2>1, Zenon DEF FlushRefresh
  <2> QED
    BY <1>3, <1>4, <1>5, <2>1, Zenon
       DEF FlushStep, StartFlush, FoldFailed, Claim, DeriveBase, PutExists, PutError,
         ProbeTheirs, FailFlush, shared
<1>6. ASSUME NEW m \in Replica, InsertMerged(m)
      PROVE  p \in idx'[r]
  <2>1. idx' = [idx EXCEPT ![m] = @ \cup {Merged(m)}] /\ mpc[m] = "insert"
    BY <1>6, Zenon DEF InsertMerged
  <2>2. m = r
    BY <1>0, <2>1, Zenon
  <2>3. idx'[r] = idx[r] \cup {Merged(r)} /\ Merged(r) \in made
    BY <1>0, <2>1, <2>2, Zenon DEF OriginInv
  <2>4. o = Merged(r)
    BY <2>3, Zenon
  <2>5. PICK t \in Tops(idx[r]) : mcand[r] <= t
    BY <1>6, <2>2, Zenon DEF InsertMerged
  <2>6. t \in Nat /\ mcand[r] \in Nat /\ Merged(r).name = mcand[r]
    BY IndexTop, Zenon DEF TypeOK, Merged
  <2>7. p.name < t \/ p.name = Merged(r).name
    BY <1>0, <2>4, <2>5, <2>6, NatBelow, NatTransitive, Zenon
  <2> QED
    BY <1>0, <2>3, <2>7, BelowTop, SameName, Zenon
<1>7. ASSUME NEW m \in Replica, FoldBelowWon(m)
      PROVE  p \in idx'[r]
  <2>1. PICK t \in Tops(idx[m]) :
          idx' = [idx EXCEPT ![m] = @ \cup ({q \in store : t <= q.name} \cup {Merged(m)})]
    BY <1>7, Zenon DEF FoldBelowWon
  <2>2. m = r
    BY <1>0, <2>1, Zenon
  <2>3. idx'[r] = idx[r] \cup ({q \in store : t <= q.name} \cup {Merged(r)}) /\ t \in Tops(idx[r])
    BY <1>0, <2>1, <2>2, Zenon
  <2>4. t \in Nat
    BY <2>3, IndexTop, Zenon
  <2>5. p.name < t \/ t <= p.name
    BY <1>0, <2>4, NatTotal, Zenon
  <2> QED
    BY <2>3, <2>5, BelowTop, Zenon
<1>8. ASSUME NEW m \in Replica, MaintenanceStep(m)
      PROVE  p \in idx'[r]
  <2>1. CASE MergeLost(m)
    BY <1>1, <2>1, Zenon DEF MergeLost
  <2>2. CASE FetchGhost(m) \/ Retired(m)
    <3>1. idx'[r] \subseteq idx[r]
      BY <1>0, <2>2, Zenon DEF FetchGhost, Retired
    <3> QED
      BY <3>1, Zenon
  <2> QED
    BY <1>6, <1>7, <1>8, <2>1, <2>2, Zenon
       DEF MaintenanceStep, SelectExpired, SelectRun, AcquireLease, WriteHigh, HighsWritten,
         FetchRun, MergeClaim, MergeOk, MergeReclaim, MergeError, MergeProbeOurs, RaiseFloor,
         Abort, Delete, shared
<1>9. ASSUME NEW s \in Replica, Sync(s) \/ Crash(s)
      PROVE  p \in idx'[r]
  <2>1. CASE Sync(s)
    BY <1>1, <2>1, Zenon DEF Sync
  <2>2. CASE Crash(s)
    <3>1. idx'[r] \subseteq idx[r]
      BY <1>0, <2>2, Zenon DEF Crash
    <3> QED
      BY <3>1, Zenon
  <2> QED
    BY <1>9, <2>1, <2>2, Zenon
<1> QED
  BY <1>5, <1>8, <1>9, SegmentLogAssumption, Zenon DEF Next, LatePut, vars, shared

\* A live segment below a name that a replica covers stays indexed.
LEMMA StillCovers ==
    ASSUME TypeOK, NameInv, [Next]_vars, NEW r \in Replica, NEW n \in Nat, n <= next, Covers(r, n),
           NEW p \in store', p.name < n, wpc'[r] # "idle"
    PROVE  p \in idx'[r]
<1>1. next \in Nat
  BY Zenon DEF TypeOK
<1>2. p.name # next
  <2>1. ~(next < n)
    BY <1>1, NatStrict, Zenon
  <2> QED
    BY <2>1, Zenon
<1>3. p \in store
  <2>1. ASSUME NEW o \in Object, o.name = next, store' = store \cup {o}
        PROVE  p \in store
    BY <1>2, <2>1, Zenon
  <2>2. ASSUME NEW m \in Replica, RaiseFloor(m) \/ \E k \in run[m] : Delete(m, k)
        PROVE  p \in store
    BY <2>2, Zenon DEF RaiseFloor, Delete
  <2> QED
    BY <2>1, <2>2, StoreChange, Zenon
<1>4. p \in idx[r]
  BY <1>3, Zenon DEF Covers
<1> QED
  BY <1>4, IndexKeeps, Zenon

\* No index has a hole after a step.
LEMMA NoHole ==
    ASSUME TypeOK, NameInv, NameInv', WindowInv, PassInv, OriginInv, OriginInv', CoverInv,
           ~FoldBelowFails, [Next]_vars,
           NEW r \in Replica, NEW o \in idx'[r], NEW p \in store', p.name < o.name + 1,
           o.name \in Nat, p.name \in Nat
    PROVE  p \in idx'[r]
<1>0. p.name <= o.name /\ next \in Nat
  BY NatBelow, Zenon DEF TypeOK
<1>1. o \in made' /\ p \in made'
  BY Zenon DEF OriginInv, NameInv, SpineInv
<1>2. CASE p \in made
  <2>1. p \in store
    <3>1. ASSUME NEW q \in Object, q.name = next, store' = store \cup {q}
          PROVE  p \in store
      <4>1. p.name < next
        BY <1>2, Zenon DEF NameInv, SpineInv
      <4>2. p.name # next
        BY <1>0, <4>1, NatStrict, Zenon
      <4> QED
        BY <3>1, <4>2, Zenon
    <3>2. ASSUME NEW m \in Replica, RaiseFloor(m) \/ \E k \in run[m] : Delete(m, k)
          PROVE  p \in store
      BY <3>2, Zenon DEF RaiseFloor, Delete
    <3> QED
      BY <3>1, <3>2, StoreChange, Zenon
  <2>2. CASE o \in idx[r]
    <3>1. p \in idx[r]
      BY <2>1, <2>2, Zenon DEF CoverInv, Covers
    <3> QED
      BY <3>1, IndexKeeps, Zenon
  <2>3. CASE o \notin idx[r]
    BY <1>0, <2>1, <2>3, Added, Zenon
  <2> QED
    BY <2>2, <2>3, Zenon
<1>3. CASE p \notin made
  <2>1. p.name = next
    BY <1>1, <1>3, MadeSent, Zenon
  <2>2. o \notin made
    <3>1. o \in made => o.name < next
      BY Zenon DEF NameInv, SpineInv
    <3> QED
      BY <1>0, <2>1, <3>1, NatTransitive, Zenon
  <2>3. o.name = next
    BY <1>1, <2>2, MadeSent, Zenon
  <2>4. o = p
    BY <1>1, <2>1, <2>3, Zenon DEF NameInv, SpineInv, NameNeverReused
  <2> QED
    BY <2>4, Zenon
<1> QED
  BY <1>2, <1>3, Zenon

\* The sequence floor never passes the start of a claim.
LEMMA FloorBehind ==
    ASSUME BoundedPause, TypeOK, NameInv, CoverInv, [Next]_vars, NEW r \in Replica, Claiming(r)
    PROVE  floor' <= since[r]
<1>1. floor <= since[r] /\ floor \in Nat /\ since[r] \in Nat
  BY Zenon DEF TypeOK, CoverInv
<1>2. ASSUME NEW m \in Replica, RaiseFloor(m)
      PROVE  floor' <= since[r]
  <2>1. PICK n \in run[m] : floor' = Larger(floor, n + 1)
    BY <1>2, Zenon DEF RaiseFloor
  <2>2. n < since[r]
    BY <1>2, Zenon DEF RaiseFloor, Settled, Claiming
  <2>3. n \in Nat
    BY Zenon DEF TypeOK
  <2> QED
    <3>1. n + 1 \in Nat /\ n + 1 <= since[r]
      BY <1>1, <2>2, <2>3, NatUnary, NatStrict, Zenon
    <3> QED
      BY <1>1, <2>1, <3>1, LargerNat, Zenon
<1>3. CASE floor' = floor
  BY <1>1, <1>3, Zenon
<1> QED
  BY <1>2, <1>3, StoreChange, Zenon DEF Delete

\* A claim takes its name from an index, or a floor, that covers it.
LEMMA ClaimCovers ==
    ASSUME TypeOK, NameInv, CoverInv, NEW r \in Replica, Claim(r)
    PROVE  \A p \in store : p.name < cand'[r] => p \in idx[r]
<1> SUFFICES ASSUME NEW p \in store, p.name < cand'[r]
             PROVE  p \in idx[r]
  BY Zenon
<1>1. cand = [s \in Replica |-> cand[s]] /\ Claiming(r)
  BY Zenon DEF TypeOK, Claim, Claiming
<1>2. PICK t \in Tops(idx[r]) : cand'[r] = Larger(t, Certified(r))
  BY <1>1, Zenon DEF Claim, FoldedTail
<1>3. Certified(r) <= floor /\ Certified(r) \in Nat
  <2>1. floor \in Nat /\ cfloor[r] \in Nat \cup {-1} /\ cfloor[r] <= floor
    BY Zenon DEF TypeOK, NameInv, MemoryInv
  <2> QED
    <3>1. Certified(r) \in Nat
      BY <2>1, Zenon DEF Certified
    <3>2. floor <= floor
      BY <2>1, NatUnary, Zenon
    <3> QED
      BY <2>1, <3>1, <3>2, Zenon DEF Certified
<1>4. floor <= since[r] /\ floor \in Nat /\ since[r] \in Nat /\ Covers(r, since[r])
  BY <1>1, Zenon DEF CoverInv, TypeOK
<1>5. t \in Nat /\ p.name \in Nat
  BY IndexTop, Zenon DEF TypeOK, Object
<1>6. p.name < t \/ p.name < since[r]
  <2>1. cand'[r] = t \/ cand'[r] = Certified(r)
    BY <1>2, <1>3, <1>5, LargerNat, Zenon
  <2>2. Certified(r) <= since[r]
    BY <1>3, <1>4, NatTransitive, Zenon
  <2>3. CASE cand'[r] = t
    BY <2>3, Zenon
  <2>4. CASE cand'[r] = Certified(r)
    <3>1. p.name < Certified(r)
      BY <2>4, Zenon
    <3> QED
      BY <1>3, <1>4, <1>5, <2>2, <3>1, NatTransitive, Zenon
  <2> QED
    BY <2>1, <2>3, <2>4, Zenon
<1> QED
  BY <1>4, <1>6, BelowTop, Zenon DEF Covers

\* Every step keeps the indexes, and the claims made from them, without a hole.
LEMMA CoverStep ==
    ASSUME BoundedPause, ~FoldBelowFails, TypeOK, TypeOK', NameInv, NameInv', WindowInv, PassInv,
           OriginInv, OriginInv', CoverInv, [Next]_vars
    PROVE  CoverInv'
<1>1. ASSUME NEW r \in Replica, NEW o \in idx'[r], NEW p \in store', p.name < o.name + 1
      PROVE  p \in idx'[r]
  <2>0. idx'[r] \subseteq Object /\ store' \subseteq Object
    BY Zenon DEF TypeOK
  <2>1. o.name \in Nat /\ p.name \in Nat
    BY <2>0, Zenon DEF Object
  <2> QED
    BY <1>1, <2>1, NoHole, Zenon
<1>2. ASSUME NEW r \in Replica, Claiming(r)'
      PROVE  /\ \A p \in store' : p.name < since'[r] => p \in idx'[r]
             /\ floor' <= since'[r]
  <2>1. CASE Claiming(r) /\ since'[r] = since[r]
    <3>1. since[r] \in Nat /\ since[r] <= next /\ Covers(r, since[r])
      BY <2>1, Zenon DEF TypeOK, NameInv, ClaimInv, CoverInv
    <3>2. wpc'[r] # "idle"
      BY <1>2, Zenon DEF Claiming
    <3>3. \A p \in store' : p.name < since[r] => p \in idx'[r]
      BY <3>1, <3>2, StillCovers, Zenon
    <3>4. floor' <= since[r]
      BY <2>1, FloorBehind, Zenon
    <3> QED
      BY <2>1, <3>3, <3>4, Zenon
  <2>2. CASE FlushRefresh(r)
    <3>1. store' = store /\ floor' = floor /\ Refresh(r)
      BY <2>2, Zenon DEF FlushRefresh, durable
    <3>2. since = [s \in Replica |-> since[s]]
      BY Zenon DEF TypeOK
    <3>3. since'[r] = next
      BY <2>2, <3>2, Zenon DEF FlushRefresh
    <3>4. floor <= next
      BY Zenon DEF NameInv, SpineInv
    <3> QED
      BY <3>1, <3>3, <3>4, RefreshCovers, Zenon
  <2> QED
    BY <1>2, <2>1, <2>2, ControlEffect, Zenon
<1>3. ASSUME NEW r \in Replica, wpc'[r] \in {"fold", "base", "probe"}
      PROVE  \A p \in store' : p.name < cand'[r] => p \in idx'[r]
  <2>1. CASE wpc[r] \in {"fold", "base", "probe"} /\ cand'[r] = cand[r]
    <3>1. cand[r] \in Nat /\ cand[r] <= next /\ Covers(r, cand[r])
      BY <2>1, Zenon DEF TypeOK, NameInv, ClaimInv, CoverInv
    <3>2. wpc'[r] # "idle"
      BY <1>3, Zenon
    <3> QED
      BY <2>1, <3>1, <3>2, StillCovers, Zenon
  <2>2. CASE Claim(r)
    <3>1. store' = store /\ idx' = idx
      BY <2>2, Zenon DEF Claim, durable
    <3> QED
      BY <2>2, <3>1, ClaimCovers, Zenon
  <2> QED
    BY <1>3, <2>1, <2>2, ControlEffect, Zenon
<1> QED
  BY <1>1, <1>2, <1>3, Zenon DEF CoverInv, Covers

\* No index has a hole, and no claim starts from one, when the refresh of
\* fold_below_won does not fail.
THEOREM IndexesComplete == BoundedPause /\ ~FoldBelowFails => (Spec => []CoverInv)
<1> SUFFICES ASSUME BoundedPause, ~FoldBelowFails PROVE Spec => []CoverInv
  BY Zenon
<1>1. Init => CoverInv
  <2> SUFFICES ASSUME Init PROVE CoverInv
    BY Zenon
  <2>1. \A r \in Replica : idx[r] = {} /\ wpc[r] = "idle"
    BY Zenon DEF Init
  <2> QED
    BY <2>1, Zenon DEF CoverInv, Claiming
<1>2. /\ TypeOK /\ TypeOK' /\ NameInv /\ NameInv' /\ ContentInv /\ ContentInv'
      /\ CoverInv /\ [Next]_vars
      => CoverInv'
  BY CoverStep, Zenon DEF ContentInv
<1>3. Spec => []NameInv
  BY NamesConsistent, Zenon
<1>4. Spec => []ContentInv
  BY ContentsConsistent, Zenon
<1> QED
  BY <1>1, <1>2, <1>3, <1>4, TypeCorrect, PTL DEF Spec

-----------------------------------------------------------------------------
(* Offsets.                                                                *)

\* How a flush comes to hold bases.
LEMMA BaseControl ==
    ASSUME TypeOK, [Next]_vars, NEW w \in Replica, wpc'[w] \in {"base", "probe"}
    PROVE  (wpc[w] \in {"base", "probe"} /\ cand'[w] = cand[w]) \/ Claim(w)
<1>0. wpc = [s \in Replica |-> wpc[s]] /\ cand = [s \in Replica |-> cand[s]]
  BY Zenon DEF TypeOK
<1>1. ASSUME wpc[w] = "fold"
      PROVE  FALSE
  <2>1. ASSUME NEW v \in Replica, FlushStep(v)
        PROVE  wpc'[w] \notin {"base", "probe"}
    <3>1. CASE v # w
      <4>1. wpc'[w] = wpc[w]
        BY <1>0, <2>1, <3>1, Zenon
           DEF FlushStep, StartFlush, FlushRefresh, FoldWinner, FoldFailed, Claim, DeriveBase,
             PutOk, PutExists, PutError, ProbeOurs, ProbeTheirs, FailFlush, Won, EndFlush
      <4> QED
        BY <1>1, <4>1, Zenon
    <3>2. CASE v = w
      BY <1>0, <1>1, <2>1, <3>2, Zenon
         DEF FlushStep, StartFlush, FlushRefresh, FoldWinner, FoldFailed, Claim, DeriveBase,
           PutOk, PutExists, PutError, ProbeOurs, ProbeTheirs, FailFlush, EndFlush, Ready
    <3> QED
      BY <3>1, <3>2, Zenon
  <2>2. ASSUME NEW m \in Replica, MaintenanceStep(m)
        PROVE  wpc' = wpc
    BY <2>2, Zenon
       DEF MaintenanceStep, SelectExpired, SelectRun, AcquireLease, WriteHigh, HighsWritten,
         FetchRun, FetchGhost, MergeClaim, MergeOk, InsertMerged, FoldBelowWon, MergeLost,
         MergeReclaim, MergeError, MergeProbeOurs, RaiseFloor, Retired, Abort, Delete, wvars
  <2>3. ASSUME NEW s \in Replica, Sync(s) \/ Crash(s)
        PROVE  wpc'[w] \in {wpc[w], "idle"}
    BY <1>0, <2>3, Zenon DEF Sync, Crash, EndFlush, wvars
  <2>4. ASSUME (\E q \in net : LatePut(q)) \/ UNCHANGED vars
        PROVE  wpc' = wpc
    BY <2>4, Zenon DEF LatePut, vars, wvars
  <2> QED
    BY <1>1, <2>1, <2>2, <2>3, <2>4, SegmentLogAssumption, Zenon DEF Next
<1> QED
  BY <1>1, ControlEffect, Zenon

\* What a create carries is named next or below.
LEMMA SentBelow ==
    ASSUME TypeOK, NameInv, NEW o, Sent(o)
    PROVE  o.name \in Nat /\ o.name <= next
<1>1. ASSUME NEW w \in Replica, Ready(w), o = Segment(w)
      PROVE  o.name \in Nat /\ o.name <= next
  <2>1. o.name = cand[w] /\ wpc[w] = "base"
    BY <1>1, Zenon DEF Segment, Ready
  <2> QED
    BY <2>1, Zenon DEF TypeOK, NameInv, ClaimInv
<1>2. ASSUME NEW m \in Replica, mpc[m] = "put", o = Merged(m)
      PROVE  o.name \in Nat /\ o.name <= next
  <2>1. o.name = mcand[m]
    BY <1>2, Zenon DEF Merged
  <2> QED
    BY <1>2, <2>1, Zenon DEF TypeOK, NameInv, ClaimInv
<1>3. ASSUME NEW q \in net, o = q.obj
      PROVE  o.name \in Nat /\ o.name <= next
  BY <1>3, Zenon DEF TypeOK, Request, Object, NameInv, ClaimInv
<1> QED
  BY <1>1, <1>2, <1>3, Zenon DEF Sent

\* A base derived for a claim that can still succeed lies above the log: its
\* live entries are indexed, and what has expired is below the floor.
LEMMA DerivedAbove ==
    ASSUME TypeOK, NameInv, CopyInv, LowInv, CoverInv,
           NEW w \in Replica, NEW x \in Substream, DeriveBase(w, x), cand[w] = next,
           NEW t \in Ends(x, Ents(idx[w])), IsMax(t, Ends(x, Ents(idx[w])))
    PROVE  Above(x, Larger(Larger(t, hint[w][x]), high[x]))
<1> SUFFICES ASSUME NEW e \in Log, e.sub = x
             PROVE  End(e) <= Larger(Larger(t, hint[w][x]), high[x])
  BY Zenon DEF Above
<1>0. End(e) \in Nat /\ t \in Nat
  BY LogEntry, EndType, TailType, Zenon
<1>1. hint[w][x] \in Nat /\ high[x] \in Nat
  BY Zenon DEF TypeOK
<1>2. End(e) <= t \/ End(e) <= high[x]
  <2>1. CASE e \in expired
    BY <2>1, Zenon DEF LowInv, Low
  <2>2. CASE e \notin expired
    <3>1. PICK p \in store : e \in p.ents
      BY <2>2, Zenon DEF CopyInv
    <3>2. p.name < cand[w] /\ wpc[w] = "base"
      BY Zenon DEF NameInv, SpineInv, DeriveBase
    <3>3. p \in idx[w]
      BY <3>2, Zenon DEF CoverInv, Covers
    <3> QED
      BY <3>1, <3>3, EndsOf, Zenon DEF IsMax
  <2> QED
    BY <2>1, <2>2, Zenon
<1> QED
  <2> DEFINE a == Larger(t, hint[w][x])
             b == Larger(a, high[x])
  <2>1. a \in Nat /\ t <= a
    BY <1>0, <1>1, LargerNat, Zenon
  <2> HIDE DEF a
  <2>2. b \in Nat /\ a <= b /\ high[x] <= b
    BY <1>1, <2>1, LargerNat, Zenon
  <2> HIDE DEF b
  <2>3. t <= b
    BY <1>0, <2>1, <2>2, NatTransitive, Zenon
  <2>4. End(e) <= b
    <3>1. CASE End(e) <= t
      BY <1>0, <2>2, <2>3, <3>1, NatTransitive, Zenon
    <3>2. CASE End(e) <= high[x]
      BY <1>0, <1>1, <2>2, <3>2, NatTransitive, Zenon
    <3> QED
      BY <1>2, <3>1, <3>2, Zenon
  <2> QED
    BY <2>4, Zenon DEF a, b

\* What a flush creates begins above the log.
LEMMA SentAbove ==
    ASSUME TypeOK, OffsetInv, NEW o, Sent(o), o.name = next, o.by # Nil, NEW e \in o.ents
    PROVE  Above(e.sub, e.base)
<1>1. ASSUME NEW w \in Replica, Ready(w), o = Segment(w)
      PROVE  Above(e.sub, e.base)
  <2>1. e.sub \in Carried(w) /\ e.base = base[w][e.sub]
    BY <1>1, SegmentEntry, Zenon
  <2>2. base[w][e.sub] # -1 /\ e.sub \in Substream /\ wpc[w] = "base"
    BY <1>1, <2>1, Zenon DEF Ready, Carried
  <2>3. cand[w] = next
    BY <1>1, Zenon DEF Segment
  <2> QED
    BY <2>1, <2>2, <2>3, Zenon DEF OffsetInv
<1>2. ASSUME NEW m \in Replica, o = Merged(m)
      PROVE  o.by = Nil
  BY <1>2, Zenon DEF Merged
<1>3. ASSUME NEW q \in net, o = q.obj
      PROVE  Above(e.sub, e.base)
  BY <1>3, Zenon DEF OffsetInv
<1> QED
  BY <1>1, <1>2, <1>3, Zenon DEF Sent

\* A base above the log stays above it while nothing is created.
LEMMA AboveKept ==
    ASSUME Log' = Log, NEW x, NEW b, Above(x, b)
    PROVE  Above(x, b)'
BY Zenon DEF Above, End

\* A step that creates nothing keeps the bases that can still succeed above
\* the log.
LEMMA OffsetQuiet ==
    ASSUME ~WatermarkGetFails, TypeOK, NameInv, OriginInv, CopyInv, LowInv, CoverInv, OffsetInv,
           [Next]_vars, made' = made, next' = next
    PROVE  OffsetInv'
<1>0. Log' = Log
  BY Zenon DEF Log
<1>1. ASSUME NEW w \in Replica, wpc'[w] \in {"base", "probe"}, cand'[w] = next',
             NEW x \in Substream, base'[w][x] # -1
      PROVE  Above(x, base[w][x])'
  <2>1. CASE Claim(w)
    <3>1. base = [s \in Replica |-> base[s]]
      BY Zenon DEF TypeOK
    <3>2. base'[w] = [y \in Substream |-> -1]
      BY <2>1, <3>1, Zenon DEF Claim
    <3> QED
      BY <1>1, <3>2, Zenon
  <2>2. CASE wpc[w] \in {"base", "probe"} /\ cand'[w] = cand[w]
    <3>1. cand[w] = next
      BY <1>1, <2>2, Zenon
    <3>2. CASE base'[w][x] = base[w][x]
      <4>1. Above(x, base'[w][x])
        BY <1>1, <2>2, <3>1, <3>2, Zenon DEF OffsetInv
      <4> QED
        BY <1>0, <4>1, AboveKept, Zenon
    <3>3. ASSUME DeriveBase(w, x), NEW t \in Ends(x, Ents(idx[w])), IsMax(t, Ends(x, Ents(idx[w]))),
                 base'[w][x] = Larger(Larger(t, hint[w][x]), high[x])
          PROVE  Above(x, base[w][x])'
      <4>1. Above(x, base'[w][x])
        BY <3>1, <3>3, DerivedAbove, Zenon
      <4> QED
        BY <1>0, <4>1, AboveKept, Zenon
    <3> QED
      BY <1>1, <3>2, <3>3, BaseTurns, Zenon
  <2> QED
    BY <1>1, <2>1, <2>2, BaseControl, Zenon
<1>2. ASSUME NEW q \in net', q.obj.by # Nil, q.obj.name = next', NEW e \in q.obj.ents
      PROVE  Above(e.sub, e.base)'
  <2>1. Sent(q.obj) /\ q.obj.name = next
    BY <1>2, NetSent, Zenon
  <2>2. Above(e.sub, e.base)
    BY <1>2, <2>1, SentAbove, Zenon
  <2> QED
    BY <1>0, <2>2, AboveKept, Zenon
<1>3. OffsetsUnique'
  BY <1>0, Zenon DEF OffsetInv, OffsetsUnique, End
<1> QED
  BY <1>1, <1>2, <1>3, Zenon DEF OffsetInv

\* A create keeps the offsets apart, and dooms every other claim of its name.
LEMMA OffsetCreate ==
    ASSUME TypeOK, NameInv, OriginInv, OffsetInv, [Next]_vars,
           NEW o \in Object, o.name = next, next' = next + 1, made' = made \cup {o}, Sent(o)
    PROVE  OffsetInv'
<1>0. next \in Nat /\ next' \in Nat /\ next < next'
  BY NatUnary, Zenon DEF TypeOK
<1>1. ASSUME NEW w \in Replica, wpc'[w] \in {"base", "probe"}, cand'[w] = next',
             NEW x \in Substream, base'[w][x] # -1
      PROVE  Above(x, base[w][x])'
  <2>1. CASE Claim(w)
    <3>1. base = [s \in Replica |-> base[s]]
      BY Zenon DEF TypeOK
    <3>2. base'[w] = [y \in Substream |-> -1]
      BY <2>1, <3>1, Zenon DEF Claim
    <3> QED
      BY <1>1, <3>2, Zenon
  <2>2. ASSUME wpc[w] \in {"base", "probe"}, cand'[w] = cand[w]
        PROVE  FALSE
    <3>1. cand[w] <= next /\ cand[w] \in Nat
      BY <2>2, Zenon DEF TypeOK, NameInv, ClaimInv
    <3> QED
      BY <1>0, <1>1, <2>2, <3>1, NatTransitive, Zenon
  <2> QED
    BY <1>1, <2>1, <2>2, BaseControl, Zenon
<1>2. ASSUME NEW q \in net', q.obj.name = next'
      PROVE  FALSE
  <2>1. q.obj.name \in Nat /\ q.obj.name <= next
    BY NetSent, SentBelow, Zenon
  <2> QED
    BY <1>0, <1>2, <2>1, NatTransitive, Zenon
<1>3. \A e \in Log : e.at \in Nat /\ e.at < next
  <2> SUFFICES ASSUME NEW e \in Log
               PROVE  e.at \in Nat /\ e.at < next
    BY Zenon
  <2>1. PICK p \in made : p.name = e.at
    BY Zenon DEF OriginInv
  <2>2. p.name < next /\ p \in Object
    BY Zenon DEF NameInv, SpineInv, TypeOK
  <2> QED
    BY <2>1, <2>2, Zenon DEF Object
<1>4. Formed(o)
  BY SentFormed, Zenon
<1>5. ASSUME NEW e \in Log'
      PROVE  e \in Log \/ (o.by # Nil /\ e \in o.ents)
  <2>1. e \in Log \/ e \in o.ents
    BY <1>5, Zenon DEF Log, Ents
  <2> QED
    BY <1>4, <2>1, Zenon DEF Formed
<1>6. ASSUME o.by # Nil, NEW e \in o.ents
      PROVE  e.at = next /\ Above(e.sub, e.base)
  BY <1>4, <1>6, SentAbove, Zenon DEF Formed
<1>7. ASSUME NEW d \in Log', NEW e \in Log', d.sub = e.sub, d # e
      PROVE  d.at # e.at /\ (d.at < e.at => End(d) <= e.base)
  <2>1. CASE d \in Log /\ e \in Log
    BY <1>7, <2>1, Zenon DEF OffsetInv, OffsetsUnique
  <2>2. CASE d \in Log /\ o.by # Nil /\ e \in o.ents
    <3>1. End(d) <= e.base
      BY <1>6, <1>7, <2>2, Zenon DEF Above
    <3>2. d.at \in Nat /\ d.at < next /\ e.at = next
      BY <1>3, <1>6, <2>2, Zenon
    <3>3. d.at # e.at
      BY <1>0, <3>2, NatStrict, Zenon
    <3> QED
      BY <3>1, <3>3, Zenon
  <2>3. CASE e \in Log /\ o.by # Nil /\ d \in o.ents
    <3>1. e.at \in Nat /\ e.at < next /\ d.at = next
      BY <1>3, <1>6, <2>3, Zenon
    <3> QED
      <4>1. d.at # e.at /\ ~(d.at < e.at)
        BY <1>0, <3>1, NatStrict, Zenon
      <4> QED
        BY <4>1, Zenon
  <2>4. CASE o.by # Nil /\ d \in o.ents /\ e \in o.ents
    BY <1>4, <1>7, <2>4, Zenon DEF Formed
  <2> QED
    BY <1>5, <2>1, <2>2, <2>3, <2>4, Zenon
<1>8. OffsetsUnique'
  BY <1>7, Zenon DEF OffsetsUnique, End
<1> QED
  BY <1>1, <1>2, <1>8, Zenon DEF OffsetInv

\* Every step keeps the offsets apart.
LEMMA OffsetStep ==
    ASSUME ~WatermarkGetFails, TypeOK, NameInv, OriginInv, CopyInv, LowInv, CoverInv, OffsetInv,
           [Next]_vars
    PROVE  OffsetInv'
<1>1. ASSUME NEW m \in Replica, RaiseFloor(m) \/ \E n \in run[m] : Delete(m, n)
      PROVE  made' = made /\ next' = next
  BY <1>1, Zenon DEF RaiseFloor, Delete, history
<1> QED
  BY <1>1, OffsetQuiet, OffsetCreate, StoreChange, Zenon

\* Bases stay above the log, when no watermark request and no refresh of
\* fold_below_won fails.
THEOREM BasesAboveLog ==
    BoundedPause /\ ~WatermarkGetFails /\ ~WatermarkPutFails /\ ~FoldBelowFails
      => (Spec => []OffsetInv)
<1> SUFFICES ASSUME BoundedPause, ~WatermarkGetFails, ~WatermarkPutFails, ~FoldBelowFails
             PROVE  Spec => []OffsetInv
  BY Zenon
<1>1. Init => OffsetInv
  <2> SUFFICES ASSUME Init PROVE OffsetInv
    BY Zenon
  <2>1. Log = {} /\ net = {} /\ \A r \in Replica : wpc[r] = "idle"
    BY Zenon DEF Init, Log, Ents
  <2> QED
    BY <2>1, Zenon DEF OffsetInv, OffsetsUnique
<1>2. TypeOK /\ NameInv /\ ContentInv /\ LowInv /\ CoverInv /\ OffsetInv /\ [Next]_vars => OffsetInv'
  BY OffsetStep, Zenon DEF ContentInv
<1>3. Spec => []NameInv
  BY NamesConsistent, Zenon
<1>4. Spec => []ContentInv
  BY ContentsConsistent, Zenon
<1>5. Spec => []LowInv
  BY FloorsCoverExpired, Zenon
<1>6. Spec => []CoverInv
  BY IndexesComplete, Zenon
<1> QED
  BY <1>1, <1>2, <1>3, <1>4, <1>5, <1>6, TypeCorrect, PTL DEF Spec

\* No two durable entries of a sub-stream share an offset, and the name order
\* is the offset order: leaseless_base never hands an offset out twice.
THEOREM OffsetsNeverShared ==
    BoundedPause /\ ~WatermarkGetFails /\ ~WatermarkPutFails /\ ~FoldBelowFails
      => (Spec => []OffsetsUnique)
<1>1. OffsetInv => OffsetsUnique
  BY Zenon DEF OffsetInv
<1> QED
  BY <1>1, BasesAboveLog, PTL

=============================================================================
