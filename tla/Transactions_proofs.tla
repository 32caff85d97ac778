------------------------ MODULE Transactions_proofs -------------------------
(***************************************************************************)
(* Proofs about Transactions, first part: types, what a step may do to the *)
(* log, the calls, the clients and the ledger, and whose an identity is.   *)
(* That a flush's plan is right is a hypothesis here (Given);              *)
(* ProducerLog_proofs proves it.                                           *)
(***************************************************************************)
EXTENDS Transactions, ProducerOrder, TLAPS

-----------------------------------------------------------------------------
(* Places in the log. *)

\* A position is the pair of a segment and a place in its footer.
LEMMA StoredPosition ==
    ASSUME NEW E, NEW segs \in Seq(Seq(E))
    PROVE  \A x : x \in Positions(segs) <=>
             x = <<x[1], x[2]>> /\ x[1] \in 1..Len(segs) /\ x[2] \in 1..Len(segs[x[1]])
<1> TAKE x
<1>1. DOMAIN segs = 1..Len(segs) /\ \A k \in 1..Len(segs) : segs[k] \in Seq(E)
  OBVIOUS
<1>2. \A k \in 1..Len(segs) : DOMAIN segs[k] = 1..Len(segs[k])
  BY <1>1
<1>3. x \in Positions(segs) <=> \E k \in DOMAIN segs : x \in {k} \X DOMAIN segs[k]
  BY Zenon DEF Positions
<1>4. ASSUME NEW k \in DOMAIN segs, x \in {k} \X DOMAIN segs[k]
      PROVE  x = <<x[1], x[2]>> /\ x[1] = k /\ x[2] \in DOMAIN segs[k]
  BY <1>4
<1>5. ASSUME x = <<x[1], x[2]>>, x[1] \in DOMAIN segs, x[2] \in DOMAIN segs[x[1]]
      PROVE  x \in {x[1]} \X DOMAIN segs[x[1]]
  BY <1>5
<1> QED BY <1>1, <1>2, <1>3, <1>4, <1>5, Zenon

\* The entry at a position.
LEMMA StoredEntry ==
    ASSUME NEW E, NEW segs \in Seq(Seq(E)), NEW x \in Positions(segs)
    PROVE  At(segs, x) \in E /\ x[1] \in Nat /\ x[2] \in Nat
<1>1. x[1] \in 1..Len(segs) /\ x[2] \in 1..Len(segs[x[1]])
  BY StoredPosition, Zenon
<1>2. segs[x[1]] \in Seq(E)
  BY <1>1
<1>3. segs[x[1]][x[2]] \in E
  BY <1>1, <1>2
<1> QED BY <1>1, <1>3 DEF At

-----------------------------------------------------------------------------
(* Types.  `top` bounds the sequences a batch reaches: 2 * IMax says        *)
(* nothing, IMax says that no producer has wrapped.                         *)

BatchIds == [c : Clients, txn : Nat, k : Nat]
MarkerIds == [c : Clients, num : Nat, begun : Nat]

DataRequests(top) ==
    {q \in [ kind : {"data"}, c : Clients, part : Partitions, pid : Int, epoch : Int, base : 0..IMax,
             n : BatchSizes, control : {FALSE}, commit : {FALSE}, id : BatchIds, next : BOOLEAN ] :
       q.base + q.n <= top}

MarkerRequests ==
    [ kind : {"marker"}, c : Clients, part : Partitions, pid : Int, epoch : Int, base : {-1},
      n : {1}, control : {TRUE}, commit : BOOLEAN, id : MarkerIds, next : {FALSE} ]

Requests(top) == DataRequests(top) \cup MarkerRequests

DataEntries(top) ==
    {e \in [ part : Partitions, pid : Int, epoch : Int, base : 0..IMax, n : BatchSizes, last : Int,
             control : {FALSE}, commit : {FALSE}, off : Nat, id : BatchIds ] :
       e.base + e.n <= top /\ (e.base + e.n <= IMax => e.last = e.base + e.n - 1)}

MarkerEntries ==
    [ part : Partitions, pid : Int, epoch : Int, base : {-1}, n : {1}, last : {-1},
      control : {TRUE}, commit : BOOLEAN, off : Nat, id : MarkerIds ]

Entries(top) == DataEntries(top) \cup MarkerEntries

Flushes(top) ==
    [ pc : {"idle", "attempt", "put", "retry"}, reqs : Seq(Requests(top)), candidate : Nat,
      added : Seq(Entries(top)), out : Seq(Answers) ]

LogTypes(top) ==
    /\ segments \in Seq(Seq(Entries(top)))
    /\ folded \in [Replicas -> Nat] /\ \A r \in Replicas : folded[r] <= Len(segments)
    /\ parked \in [Replicas -> Seq(Requests(top))]
    /\ flush \in [Replicas -> Flushes(top)]
    /\ \A r \in Replicas :
         /\ flush[r].pc = "put" => Len(flush[r].out) = Len(flush[r].reqs) /\ flush[r].candidate <= Len(segments)
         /\ flush[r].pc = "retry" => flush[r].candidate < Len(segments)
    /\ late \subseteq [candidate : Nat, added : Seq(Entries(top))]
    /\ \A z \in late : z.candidate <= Len(segments)

Ranges == {w \in [start : Int, end : Int] : w = NoRange \/ w.start \in 0..w.end}
States == {"none", "Begin"} \cup Prepared \cup Resolved
TxnDetails == [state : States, produces : [Partitions -> Ranges], offsets : SUBSET (Clients \X Nat),
                begun : Nat]

LedgerTypes ==
    /\ lastPid \in Nat
    /\ txns \in [Tids -> [producer : Nat, epochs : Seq(TxnDetails)]]

CallPcs == {"idle", "cas", "seed", "prepare", "mark", "wait", "register", "resolve", "offsets"}
CallSet ==
    [ pc : CallPcs, op : {"none", "init", "end"}, at : Replicas \cup {"nowhere"}, pid : Int, epoch : Int,
      commit : BOOLEAN, todo : SUBSET Partitions, off : Int, offsets : SUBSET (Clients \X Nat), num : Nat,
      begun : Nat ]

CallTypes ==
    /\ calls \in [Clients \X Slots -> CallSet]
    /\ \A x \in Clients \X Slots : calls[x].pc = "register" => calls[x].off \in Nat

ClientPcs == {"start", "call", "ready", "open", "fenced"}
ClientSet(top) ==
    [ pc : ClientPcs, pid : Int, epoch : Int, seq : [Partitions -> 0..IMax], sent : Nat,
      out : SUBSET DataRequests(top), txn : Nat, added : BOOLEAN, staged : BOOLEAN,
      want : {"none", "commit", "abort"} ]

ClientTypes(top) ==
    /\ cl \in [Clients -> ClientSet(top)]
    /\ regs \subseteq [q : DataRequests(top), off : Nat, at : Replicas]
    /\ acks \subseteq [id : BatchIds, part : Partitions, off : Nat]
    /\ refused \subseteq DataRequests(top)

Types(top) == LogTypes(top) /\ LedgerTypes /\ CallTypes /\ ClientTypes(top)

\* There is room for one batch more below i32::MAX: no client is about to wrap.
Room == \A c \in Clients, p \in Partitions, n \in BatchSizes : cl[c].seq[p] + n <= IMax

\* What the lemmas are given: what is assumed of the constants, and that a flush's plan is right.
Given == ProducerLogAssumption /\ TransactionsAssumption /\ PlanSound

-----------------------------------------------------------------------------
(* What a request becomes in the log. *)

\* The types meet the assumptions of the lemmas about ProducerLog.
LEMMA EntriesTyped ==
    ASSUME Given, NEW top \in Int
    PROVE  /\ Typed(Entries(top))
           /\ top <= IMax => Regular(Entries(top))
<1>1. IMax \in Nat /\ BatchSizes \subseteq 1..IMax
  BY Zenon DEF Given, ProducerLogAssumption, TransactionsAssumption
<1>2. ASSUME NEW e \in DataEntries(top)
      PROVE  /\ e.epoch \in Int /\ e.base \in Nat /\ e.last \in Int /\ e.n \in BatchSizes
             /\ e.off \in Nat /\ e.control = FALSE /\ e.base + e.n <= top
             /\ e.base + e.n <= IMax => e.last = e.base + e.n - 1
  <2>1. e.epoch \in Int /\ e.base \in 0..IMax /\ e.last \in Int /\ e.n \in BatchSizes /\ e.off \in Nat
    BY DEF DataEntries
  <2>2. e.control = FALSE
    BY Zenon DEF DataEntries
  <2>3. e.base + e.n <= top /\ (e.base + e.n <= IMax => e.last = e.base + e.n - 1)
    BY DEF DataEntries
  <2>4. e.base \in Nat
    BY <1>1, <2>1
  <2> QED BY <2>1, <2>2, <2>3, <2>4, Zenon
<1>3. ASSUME NEW e \in MarkerEntries
      PROVE  e.epoch \in Int /\ e.base = -1 /\ e.last = -1 /\ e.n = 1 /\ e.off \in Nat /\ e.control = TRUE
  BY Zenon DEF MarkerEntries
<1>4. ASSUME NEW e \in Entries(top)
      PROVE  /\ e.epoch \in Int /\ e.base \in Int /\ e.last \in Int
             /\ e.n \in Nat \ {0} /\ e.off \in Nat /\ e.control \in BOOLEAN
  <2>1. CASE e \in DataEntries(top)
    <3>1. e.n \in 1..IMax
      BY <1>1, <1>2, <2>1, Zenon
    <3>2. e.epoch \in Int /\ e.base \in Nat /\ e.last \in Int /\ e.off \in Nat /\ e.control = FALSE
      BY <1>2, <2>1, Zenon
    <3>3. e.n \in Nat \ {0} /\ e.base \in Int
      BY <1>1, <3>1, <3>2
    <3> QED BY <3>2, <3>3, Zenon
  <2>2. CASE e \in MarkerEntries
    <3>2. e.epoch \in Int /\ e.base = -1 /\ e.last = -1 /\ e.n = 1 /\ e.off \in Nat /\ e.control = TRUE
      BY <1>3, <2>2, Zenon
    <3>3. e.n \in Nat \ {0} /\ e.base \in Int /\ e.last \in Int
      BY <3>2
    <3> QED BY <3>2, <3>3, Zenon
  <2> QED BY <2>1, <2>2, Zenon DEF Entries
<1>5. ASSUME top <= IMax, NEW e \in Entries(top), Folds(e)
      PROVE  e.base \in Nat /\ e.base + e.n <= IMax /\ e.last = e.base + e.n - 1
  <2>1. e \in DataEntries(top)
    BY <1>3, <1>5, Zenon DEF Folds, Entries
  <2>2. /\ e.base \in Nat /\ e.n \in BatchSizes /\ e.base + e.n <= top
        /\ e.base + e.n <= IMax => e.last = e.base + e.n - 1
    BY <1>2, <2>1, Zenon
  <2>3. e.n \in 1..IMax
    BY <1>1, <2>2, Zenon
  <2> QED BY <1>1, <1>5, <2>2, <2>3
<1> QED BY <1>4, <1>5, Zenon DEF Typed, Regular

\* Every request has the fields of a request, and becomes an entry of the log.
LEMMA RequestsEncode ==
    ASSUME Given, NEW top \in Int
    PROVE  Encodes(Requests(top), Entries(top))
<1>1. IMax \in Nat /\ BatchSizes \subseteq 1..IMax
  BY Zenon DEF Given, ProducerLogAssumption, TransactionsAssumption
<1>2. ASSUME NEW q \in DataRequests(top)
      PROVE  /\ q.epoch \in Int /\ q.control = FALSE /\ q.base # -1
             /\ \A off \in Nat : EntryAt(q, off) \in DataEntries(top)
  <2>1. /\ q.part \in Partitions /\ q.pid \in Int /\ q.epoch \in Int /\ q.base \in 0..IMax /\ q.n \in BatchSizes
        /\ q.control = FALSE /\ q.commit = FALSE /\ q.id \in BatchIds /\ q.base + q.n <= top
    BY Zenon DEF DataRequests
  <2>2. q.n \in 1..IMax
    BY <1>1, <2>1, Zenon
  <2>3. WrappingAdd(q.base, q.n - 1) \in Int
    BY <1>1, <2>1, <2>2 DEF WrappingAdd
  <2>4. q.base + q.n <= IMax => WrappingAdd(q.base, q.n - 1) = q.base + q.n - 1
    BY <1>1, <2>1, <2>2 DEF WrappingAdd
  <2>5. ASSUME NEW off \in Nat PROVE EntryAt(q, off) \in DataEntries(top)
    <3> DEFINE last == WrappingAdd(q.base, q.n - 1)
    <3>1. EntryAt(q, off) = [ part |-> q.part, pid |-> q.pid, epoch |-> q.epoch, base |-> q.base, n |-> q.n,
                              last |-> last, control |-> FALSE, commit |-> FALSE, off |-> off, id |-> q.id ]
      BY <2>1, Zenon DEF EntryAt
    <3>2. last \in Int /\ (q.base + q.n <= IMax => last = q.base + q.n - 1)
      BY <2>3, <2>4, Zenon
    <3> HIDE DEF last
    <3> QED BY <2>1, <3>1, <3>2 DEF DataEntries
  <2> QED BY <2>1, <2>5
<1>3. ASSUME NEW q \in MarkerRequests
      PROVE  /\ q.epoch \in Int /\ q.control = TRUE
             /\ \A off \in Nat : EntryAt(q, off) \in MarkerEntries
  BY Zenon DEF MarkerRequests, MarkerEntries, EntryAt
<1>4. ASSUME NEW q \in Requests(top)
      PROVE  /\ q.epoch \in Int /\ q.control \in BOOLEAN /\ (~q.control => q.base # -1)
             /\ \A off \in Nat : EntryAt(q, off) \in Entries(top)
  BY <1>2, <1>3, Zenon DEF Requests, Entries
<1> QED BY <1>4, Zenon DEF Encodes

-----------------------------------------------------------------------------
(* Types of the log. *)

\* Where a parked request comes from: a batch sent again, a new batch, or the marker of an end_txn.
Origin(q) ==
    \/ \E c \in Clients : \E u \in cl[c].out : \E b \in BOOLEAN : q = [u EXCEPT !.next = b]
    \/ \E c \in Clients, p \in Partitions, n \in BatchSizes, r \in Replicas :
         Send(c, p, n, r) /\ q = DataRequest(c, p, n)
    \/ \E x \in Clients \X Slots : \E p \in calls[x].todo : Mark(x) /\ q = MarkerRequest(x, p)

\* What a step may do to the log and to the flushes: nothing, park a request, or one of ProducerLog's
\* steps.
LogStep(top) ==
    \/ UNCHANGED logVars
    \/ \E r, q : q \in Requests(top) /\ Origin(q) /\ Park(r, q) /\ UNCHANGED <<segments, folded, flush, late>>
    \/ \E r \in Replicas :
         \/ TakeWindow(r) \/ Attempt(r) \/ PutLost(r) \/ CrashLog(r)
         \/ \E out : PutWon(r, out) \/ AttemptEmpty(r, out) \/ PutFailed(r, out)
    \/ LatePut

\* The plan of an attempt over the first `upto` segments.
LEMMA AttemptPlanned ==
    ASSUME Given, NEW top \in Int, LogTypes(top),
           NEW r \in Replicas, flush[r].pc \in {"attempt", "retry"}, NEW upto \in FoldTo(r)
    PROVE  /\ upto \in Nat /\ upto <= Len(segments)
           /\ SubSeq(segments, 1, upto) \in Seq(Seq(Entries(top)))
           /\ Planned(Entries(top), SubSeq(segments, 1, upto), flush[r].reqs, Len(flush[r].reqs),
                      Plan(SubSeq(segments, 1, upto), flush[r].reqs))
<1>1. segments \in Seq(Seq(Entries(top))) /\ flush \in [Replicas -> Flushes(top)]
  BY Zenon DEF LogTypes
<1>2. flush[r].pc = "retry" => flush[r].candidate < Len(segments)
  BY Zenon DEF LogTypes
<1>3. flush[r] \in Flushes(top)
  BY <1>1, Zenon
<1>4. flush[r].reqs \in Seq(Requests(top)) /\ flush[r].candidate \in Nat
  BY <1>3 DEF Flushes
<1>5. Len(segments) \in Nat
  BY <1>1
<1>6. upto \in Nat /\ upto <= Len(segments)
  <2>1. CASE flush[r].pc = "retry"
    <3>1. upto = flush[r].candidate + 1 \/ upto = Len(segments)
      BY <2>1, Zenon DEF FoldTo
    <3> QED BY <1>2, <1>4, <1>5, <2>1, <3>1
  <2>2. CASE flush[r].pc # "retry"
    <3>1. upto = Len(segments)
      BY <2>2, Zenon DEF FoldTo
    <3> QED BY <1>5, <3>1
  <2> QED BY <2>1, <2>2, Zenon
<1>7. SubSeq(segments, 1, upto) \in Seq(Seq(Entries(top)))
  BY <1>1, <1>5, <1>6
<1>8. Typed(Entries(top)) /\ Encodes(Requests(top), Entries(top))
  BY EntriesTyped, RequestsEncode, Zenon
<1>9. Planned(Entries(top), SubSeq(segments, 1, upto), flush[r].reqs, Len(flush[r].reqs),
              Plan(SubSeq(segments, 1, upto), flush[r].reqs))
  BY <1>4, <1>7, <1>8, Zenon DEF Given, PlanSound
<1> QED BY <1>6, <1>7, <1>9, Zenon

\* A flush is set to a record of the right type.
LEMMA FlushTyped ==
    ASSUME NEW top \in Int, LogTypes(top), NEW r \in Replicas, NEW f \in Flushes(top),
           flush' = [flush EXCEPT ![r] = f],
           NEW grown, segments' = segments \/ segments' = Append(segments, grown),
           f.pc = "put" => Len(f.out) = Len(f.reqs) /\ f.candidate <= Len(segments),
           f.pc = "retry" => f.candidate < Len(segments)
    PROVE  /\ flush' \in [Replicas -> Flushes(top)]
           /\ \A s \in Replicas :
                /\ flush'[s].pc = "put" => Len(flush'[s].out) = Len(flush'[s].reqs) /\ flush'[s].candidate <= Len(segments')
                /\ flush'[s].pc = "retry" => flush'[s].candidate < Len(segments')
<1>1. flush \in [Replicas -> Flushes(top)] /\ segments \in Seq(Seq(Entries(top)))
  BY Zenon DEF LogTypes
<1>2. flush' \in [Replicas -> Flushes(top)]
  BY <1>1
<1>3. flush'[r] = f /\ \A s \in Replicas : s # r => flush'[s] = flush[s]
  BY <1>1
<1>4. Len(segments) \in Nat /\ Len(segments') \in Nat /\ Len(segments) <= Len(segments')
  BY <1>1
<1>5. \A s \in Replicas : flush'[s].candidate \in Nat
  BY <1>2 DEF Flushes
<1>6. \A s \in Replicas :
        /\ flush'[s].pc = "put" => Len(flush'[s].out) = Len(flush'[s].reqs) /\ flush'[s].candidate <= Len(segments)
        /\ flush'[s].pc = "retry" => flush'[s].candidate < Len(segments)
  BY <1>3, Zenon DEF LogTypes
<1>7. \A s \in Replicas : /\ flush'[s].candidate <= Len(segments) => flush'[s].candidate <= Len(segments')
                          /\ flush'[s].candidate < Len(segments) => flush'[s].candidate < Len(segments')
  BY <1>4, <1>5
<1> QED BY <1>2, <1>6, <1>7, Zenon

\* The idle flush has its type.
LEMMA NoFlushTyped ==
    ASSUME NEW top
    PROVE  NoFlush \in Flushes(top) /\ NoFlush.pc = "idle"
<1>1. <<>> \in Seq(Requests(top)) /\ <<>> \in Seq(Entries(top)) /\ <<>> \in Seq(Answers)
  OBVIOUS
<1> QED BY <1>1 DEF NoFlush, Flushes

\* Every step keeps the log's types.
LEMMA LogTypesStep ==
    ASSUME Given, NEW top \in Int, LogTypes(top), LogStep(top)
    PROVE  LogTypes(top)'
<1> DEFINE E == Entries(top)
           Q == Requests(top)
           FlushFacts ==
             /\ flush' \in [Replicas -> Flushes(top)]
             /\ \A s \in Replicas :
                  /\ flush'[s].pc = "put" => /\ Len(flush'[s].out) = Len(flush'[s].reqs)
                                             /\ flush'[s].candidate <= Len(segments')
                  /\ flush'[s].pc = "retry" => flush'[s].candidate < Len(segments')
<1>1. /\ segments \in Seq(Seq(E)) /\ folded \in [Replicas -> Nat] /\ parked \in [Replicas -> Seq(Q)]
      /\ flush \in [Replicas -> Flushes(top)] /\ late \subseteq [candidate : Nat, added : Seq(E)]
  BY Zenon DEF LogTypes
<1>2. /\ \A r \in Replicas : folded[r] <= Len(segments)
      /\ \A z \in late : z.candidate <= Len(segments)
  BY Zenon DEF LogTypes
<1>3. Len(segments) \in Nat
  BY <1>1
<1>4. ASSUME NEW r \in Replicas
      PROVE  /\ flush[r].reqs \in Seq(Q) /\ flush[r].added \in Seq(E) /\ flush[r].out \in Seq(Answers)
             /\ flush[r].candidate \in Nat
             /\ flush[r] = [pc |-> flush[r].pc, reqs |-> flush[r].reqs, candidate |-> flush[r].candidate,
                            added |-> flush[r].added, out |-> flush[r].out]
             /\ parked[r] \in Seq(Q)
  <2>1. flush[r] \in Flushes(top) /\ parked[r] \in Seq(Q)
    BY <1>1, Zenon
  <2> QED BY <2>1 DEF Flushes
<1>5. ASSUME FlushFacts, parked' \in [Replicas -> Seq(Q)],
             segments' \in Seq(Seq(E)), folded' \in [Replicas -> Nat],
             \A r \in Replicas : folded'[r] <= Len(segments'),
             late' \subseteq [candidate : Nat, added : Seq(E)],
             \A z \in late' : z.candidate <= Len(segments')
      PROVE  LogTypes(top)'
  BY <1>5, Zenon DEF LogTypes
<1>6. ASSUME UNCHANGED <<segments, flush>> PROVE FlushFacts
  <2>1. segments' = segments /\ flush' = flush
    BY <1>6, Zenon
  <2>2. \A s \in Replicas :
          /\ flush[s].pc = "put" => Len(flush[s].out) = Len(flush[s].reqs) /\ flush[s].candidate <= Len(segments)
          /\ flush[s].pc = "retry" => flush[s].candidate < Len(segments)
    BY Zenon DEF LogTypes
  <2> QED BY <1>1, <2>1, <2>2, Zenon
<1>7. ASSUME NEW r \in Replicas, flush' = [flush EXCEPT ![r] = NoFlush],
             NEW grown, segments' = segments \/ segments' = Append(segments, grown)
      PROVE  FlushFacts
  <2>1. NoFlush \in Flushes(top) /\ NoFlush.pc = "idle"
    BY NoFlushTyped, Zenon
  <2>2. NoFlush.pc # "put" /\ NoFlush.pc # "retry"
    BY <2>1
  <2> QED BY <1>7, <2>1, <2>2, FlushTyped, Zenon
<1> HIDE DEF FlushFacts
<1>8. CASE UNCHANGED logVars
  <2>1. segments' = segments /\ folded' = folded /\ parked' = parked /\ flush' = flush /\ late' = late
    BY <1>8, Zenon DEF logVars
  <2>2. FlushFacts
    BY <1>6, <2>1, Zenon
  <2> QED BY <1>1, <1>2, <1>5, <2>1, <2>2, Zenon
<1>9. ASSUME NEW r, NEW q \in Q, Park(r, q), UNCHANGED <<segments, folded, flush, late>>
      PROVE  LogTypes(top)'
  <2>1. segments' = segments /\ folded' = folded /\ flush' = flush /\ late' = late
    BY <1>9, Zenon
  <2>2. parked' = [parked EXCEPT ![r] = Append(@, q)]
    BY <1>9, Zenon DEF Park
  <2>3. parked' \in [Replicas -> Seq(Q)]
    <3> HIDE DEF Q
    <3>1. \A s \in Replicas : Append(parked[s], q) \in Seq(Q)
      BY <1>1
    <3> QED BY <1>1, <2>2, <3>1, Zenon
  <2>4. FlushFacts
    BY <1>6, <2>1, Zenon
  <2> QED BY <1>1, <1>2, <1>5, <2>1, <2>3, <2>4, Zenon
<1>10. ASSUME NEW r \in Replicas, TakeWindow(r) PROVE LogTypes(top)'
  <2> DEFINE f == [NoFlush EXCEPT !.pc = "attempt", !.reqs = parked[r]]
  <2>1. /\ flush' = [flush EXCEPT ![r] = f] /\ parked' = [parked EXCEPT ![r] = <<>>]
        /\ segments' = segments /\ folded' = folded /\ late' = late
    BY <1>10, Zenon DEF TakeWindow
  <2>2. f \in Flushes(top) /\ f.pc = "attempt"
    BY <1>4, NoFlushTyped, Zenon DEF Flushes
  <2> HIDE DEF f
  <2>3. f.pc # "put" /\ f.pc # "retry"
    BY <2>2
  <2>4. FlushFacts
    BY <2>1, <2>2, <2>3, FlushTyped, Zenon DEF FlushFacts
  <2>5. parked' \in [Replicas -> Seq(Q)]
    <3>1. <<>> \in Seq(Q)
      OBVIOUS
    <3> HIDE DEF Q
    <3> QED BY <1>1, <2>1, <3>1
  <2> QED BY <1>1, <1>2, <1>5, <2>1, <2>4, <2>5, Zenon
<1>11. ASSUME NEW r \in Replicas, Attempt(r) PROVE LogTypes(top)'
  <2>1. PICK upto \in FoldTo(r) :
          /\ folded' = [folded EXCEPT ![r] = upto]
          /\ flush' = [flush EXCEPT ![r].pc = "put", ![r].candidate = upto,
                         ![r].added = Plan(SubSeq(segments, 1, upto), flush[r].reqs).added,
                         ![r].out = Plan(SubSeq(segments, 1, upto), flush[r].reqs).out]
    BY <1>11, Zenon DEF Attempt
  <2> DEFINE plan == Plan(SubSeq(segments, 1, upto), flush[r].reqs)
             f == [flush[r] EXCEPT !.pc = "put", !.candidate = upto, !.added = plan.added, !.out = plan.out]
  <2>2. /\ flush[r].pc \in {"attempt", "retry"}
        /\ segments' = segments /\ parked' = parked /\ late' = late
    BY <1>11, Zenon DEF Attempt
  <2>3. /\ upto \in Nat /\ upto <= Len(segments)
        /\ Planned(E, SubSeq(segments, 1, upto), flush[r].reqs, Len(flush[r].reqs), plan)
    BY <2>2, AttemptPlanned, Zenon
  <2>4. /\ flush' = [flush EXCEPT ![r].pc = "put", ![r].candidate = upto, ![r].added = plan.added, ![r].out = plan.out]
        /\ folded' = [folded EXCEPT ![r] = upto]
    BY <2>1, Zenon
  <2> HIDE DEF plan
  <2>5. plan.added \in Seq(E) /\ plan.out \in Seq(Answers) /\ Len(plan.out) = Len(flush[r].reqs)
    BY <2>3, Zenon DEF Planned
  <2>6. f \in Flushes(top) /\ f.pc = "put" /\ Len(f.out) = Len(f.reqs) /\ f.candidate <= Len(segments)
    <3>1. flush[r] \in Flushes(top)
      BY <1>1, Zenon
    <3>2. f \in Flushes(top)
      BY <2>3, <2>5, <3>1, Zenon DEF Flushes
    <3>3. f.pc = "put" /\ f.out = plan.out /\ f.reqs = flush[r].reqs /\ f.candidate = upto
      BY <2>3, <2>5, <3>1 DEF Flushes
    <3> HIDE DEF f
    <3> QED BY <2>3, <2>5, <3>2, <3>3, Zenon
  <2>7. flush' = [flush EXCEPT ![r] = f]
    BY <2>4, Zenon
  <2> HIDE DEF f
  <2>8. f.pc # "retry"
    BY <2>6
  <2>9. FlushFacts
    BY <2>2, <2>6, <2>7, <2>8, FlushTyped, Zenon DEF FlushFacts
  <2>10. folded' \in [Replicas -> Nat] /\ \A s \in Replicas : folded'[s] <= Len(segments)
    BY <1>1, <1>2, <2>3, <2>4
  <2> QED BY <1>1, <1>2, <1>5, <2>2, <2>9, <2>10, Zenon
<1>12. ASSUME NEW r \in Replicas, PutLost(r) PROVE LogTypes(top)'
  <2> DEFINE f == [pc |-> "retry", reqs |-> flush[r].reqs, candidate |-> flush[r].candidate,
                   added |-> flush[r].added, out |-> flush[r].out]
  <2>1. /\ flush' = [flush EXCEPT ![r].pc = "retry"] /\ flush[r].pc = "put" /\ ~Free(flush[r].candidate)
        /\ segments' = segments /\ folded' = folded /\ parked' = parked /\ late' = late
    BY <1>12, Zenon DEF PutLost
  <2>2. flush' = [flush EXCEPT ![r] = f]
    <3> DEFINE was == flush[r]
    <3>1. was = [pc |-> was.pc, reqs |-> was.reqs, candidate |-> was.candidate, added |-> was.added, out |-> was.out]
      BY <1>4, Zenon
    <3> HIDE DEF was
    <3>2. [was EXCEPT !.pc = "retry"]
            = [pc |-> "retry", reqs |-> was.reqs, candidate |-> was.candidate, added |-> was.added, out |-> was.out]
      BY <3>1
    <3> QED BY <2>1, <3>2, Zenon DEF was
  <2>3. flush[r].candidate <= Len(segments)
    BY <2>1, Zenon DEF LogTypes
  <2>4. flush[r].candidate < Len(segments)
    <3>1. flush[r].candidate \in Nat /\ Len(segments) # flush[r].candidate
      BY <1>4, <2>1, Zenon DEF Free
    <3> QED BY <1>3, <2>3, <3>1
  <2>5. f \in Flushes(top) /\ f.pc = "retry" /\ f.candidate < Len(segments)
    BY <1>4, <2>4, Zenon DEF Flushes
  <2> HIDE DEF f
  <2>6. f.pc # "put"
    BY <2>5
  <2>7. FlushFacts
    BY <2>1, <2>2, <2>5, <2>6, FlushTyped, Zenon DEF FlushFacts
  <2> QED BY <1>1, <1>2, <1>5, <2>1, <2>7, Zenon
<1>13. ASSUME NEW grown \in Seq(E)
       PROVE  /\ Append(segments, grown) \in Seq(Seq(E))
              /\ \A k \in Nat : k <= Len(segments) => k <= Len(Append(segments, grown))
              /\ Len(Append(segments, grown)) = Len(segments) + 1
  BY <1>1, <1>3
<1>14. ASSUME segments' = segments \/ \E grown \in Seq(E) : segments' = Append(segments, grown)
       PROVE  /\ segments' \in Seq(Seq(E)) /\ \A k \in Nat : k <= Len(segments) => k <= Len(segments')
  BY <1>1, <1>13, <1>14, Zenon
<1>15. \A z \in late : z.candidate \in Nat
  BY <1>1
<1>16. ASSUME NEW r \in Replicas, NEW out, PutWon(r, out) PROVE LogTypes(top)'
  <2>1. /\ segments' = Append(segments, flush[r].added) /\ flush' = [flush EXCEPT ![r] = NoFlush]
        /\ folded' = [folded EXCEPT ![r] = flush[r].candidate + 1] /\ parked' = parked /\ late' = late
        /\ Len(segments) = flush[r].candidate
    BY <1>16, Zenon DEF PutWon, Free
  <2>2. flush[r].added \in Seq(E)
    BY <1>4, Zenon
  <2>3. /\ segments' \in Seq(Seq(E)) /\ \A k \in Nat : k <= Len(segments) => k <= Len(segments')
        /\ Len(segments') = Len(segments) + 1
    BY <1>13, <1>14, <2>1, <2>2, Zenon
  <2>4. FlushFacts
    BY <1>7, <2>1, Zenon
  <2>5. folded' \in [Replicas -> Nat]
    <3>1. flush[r].candidate \in Nat
      BY <1>4, Zenon
    <3>2. flush[r].candidate + 1 \in Nat
      BY <3>1
    <3> QED BY <1>1, <2>1, <3>2
  <2>6. \A s \in Replicas : folded'[s] <= Len(segments')
    BY <1>1, <1>2, <1>3, <2>1, <2>3
  <2>7. \A z \in late' : z.candidate <= Len(segments')
    BY <1>2, <1>15, <2>1, <2>3, Zenon
  <2> QED BY <1>1, <1>5, <2>1, <2>3, <2>4, <2>5, <2>6, <2>7, Zenon
<1>17. ASSUME NEW r \in Replicas, NEW out, AttemptEmpty(r, out) PROVE LogTypes(top)'
  <2>1. PICK upto \in FoldTo(r) : folded' = [folded EXCEPT ![r] = upto]
    BY <1>17, Zenon DEF AttemptEmpty
  <2>2. /\ flush[r].pc \in {"attempt", "retry"} /\ flush' = [flush EXCEPT ![r] = NoFlush]
        /\ segments' = segments /\ parked' = parked /\ late' = late
    BY <1>17, Zenon DEF AttemptEmpty
  <2>3. upto \in Nat /\ upto <= Len(segments)
    BY <2>2, AttemptPlanned, Zenon
  <2>4. FlushFacts
    BY <1>7, <2>2, Zenon
  <2>5. folded' \in [Replicas -> Nat] /\ \A s \in Replicas : folded'[s] <= Len(segments)
    BY <1>1, <1>2, <2>1, <2>3
  <2> QED BY <1>1, <1>2, <1>5, <2>2, <2>4, <2>5, Zenon
<1>18. ASSUME NEW r \in Replicas, flush[r].pc = "put"
       PROVE  LET z == [candidate |-> flush[r].candidate, added |-> flush[r].added]
              IN  z \in [candidate : Nat, added : Seq(E)] /\ z.candidate <= Len(segments)
  <2>1. flush[r].candidate <= Len(segments)
    BY <1>18, Zenon DEF LogTypes
  <2> HIDE DEF E
  <2> QED BY <1>4, <2>1, Zenon
<1>19. ASSUME NEW r \in Replicas, NEW out, PutFailed(r, out) PROVE LogTypes(top)'
  <2> DEFINE z == [candidate |-> flush[r].candidate, added |-> flush[r].added]
  <2>1. /\ segments' = segments \/ segments' = Append(segments, flush[r].added)
        /\ late' = late \/ late' = late \cup {z}
        /\ flush' = [flush EXCEPT ![r] = NoFlush] /\ folded' = folded /\ parked' = parked
        /\ flush[r].pc = "put"
    BY <1>19, Zenon DEF PutFailed
  <2>2. z \in [candidate : Nat, added : Seq(E)] /\ z.candidate <= Len(segments) /\ z.candidate \in Nat
    BY <1>4, <1>18, <2>1
  <2> HIDE DEF z
  <2>3. flush[r].added \in Seq(E)
    BY <1>4, Zenon
  <2>4. /\ segments' \in Seq(Seq(E)) /\ \A k \in Nat : k <= Len(segments) => k <= Len(segments')
    BY <1>14, <2>1, <2>3, Zenon
  <2>5. FlushFacts
    BY <1>7, <2>1, Zenon
  <2>6. folded' \in [Replicas -> Nat] /\ \A s \in Replicas : folded'[s] <= Len(segments')
    BY <1>1, <1>2, <2>1, <2>4, Zenon
  <2>7. late' \subseteq [candidate : Nat, added : Seq(E)] /\ \A y \in late' : y.candidate <= Len(segments')
    BY <1>1, <1>2, <1>15, <2>1, <2>2, <2>4, Zenon
  <2> QED BY <1>1, <1>5, <2>1, <2>4, <2>5, <2>6, <2>7, Zenon
<1>20. CASE LatePut
  <2>1. PICK z \in late : /\ late' = late \ {z}
                          /\ segments' = IF Free(z.candidate) THEN Append(segments, z.added) ELSE segments
                          /\ UNCHANGED <<folded, parked, flush>>
    BY <1>20, Zenon DEF LatePut
  <2>2. z.added \in Seq(E)
    <3> HIDE DEF E
    <3> QED BY <1>1
  <2>3. /\ segments' = segments \/ segments' = Append(segments, z.added)
        /\ folded' = folded /\ parked' = parked /\ flush' = flush
    BY <2>1, Zenon
  <2>4. /\ segments' \in Seq(Seq(E)) /\ \A k \in Nat : k <= Len(segments) => k <= Len(segments')
    BY <1>14, <2>2, <2>3, Zenon
  <2>5. Len(segments') \in Nat /\ Len(segments) <= Len(segments')
    BY <1>3, <2>4
  <2>6. ASSUME NEW s \in Replicas
        PROVE  /\ flush[s].pc = "put" => /\ Len(flush[s].out) = Len(flush[s].reqs)
                                         /\ flush[s].candidate <= Len(segments')
               /\ flush[s].pc = "retry" => flush[s].candidate < Len(segments')
    <3>1. /\ flush[s].pc = "put" => Len(flush[s].out) = Len(flush[s].reqs) /\ flush[s].candidate <= Len(segments)
          /\ flush[s].pc = "retry" => flush[s].candidate < Len(segments)
      BY Zenon DEF LogTypes
    <3>2. flush[s].candidate \in Nat
      BY <1>4, Zenon
    <3>3. flush[s].candidate < Len(segments) => flush[s].candidate < Len(segments')
      BY <1>3, <2>5, <3>2
    <3> QED BY <2>4, <3>1, <3>2, <3>3, Zenon
  <2>7. FlushFacts
    BY <1>1, <2>3, <2>6, Zenon DEF FlushFacts
  <2>8. \A s \in Replicas : folded'[s] <= Len(segments')
    BY <1>1, <1>2, <2>3, <2>4, Zenon
  <2>9. late' \subseteq [candidate : Nat, added : Seq(E)] /\ \A y \in late' : y.candidate <= Len(segments')
    BY <1>1, <1>2, <1>15, <2>1, <2>4, Zenon
  <2> QED BY <1>1, <1>5, <2>3, <2>4, <2>7, <2>8, <2>9, Zenon
<1>21. ASSUME NEW r \in Replicas, CrashLog(r) PROVE LogTypes(top)'
  <2> DEFINE z == [candidate |-> flush[r].candidate, added |-> flush[r].added]
  <2>1. /\ late' = late \/ (flush[r].pc = "put" /\ late' = late \cup {z})
        /\ flush' = [flush EXCEPT ![r] = NoFlush] /\ parked' = [parked EXCEPT ![r] = <<>>]
        /\ folded' = [folded EXCEPT ![r] = 0] /\ segments' = segments
    BY <1>21, Zenon DEF CrashLog
  <2>2. flush[r].pc = "put" => z \in [candidate : Nat, added : Seq(E)] /\ z.candidate <= Len(segments)
    BY <1>18
  <2> HIDE DEF z
  <2>3. late' \subseteq [candidate : Nat, added : Seq(E)] /\ \A y \in late' : y.candidate <= Len(segments)
    BY <1>1, <1>2, <2>1, <2>2, Zenon
  <2>4. FlushFacts
    BY <1>7, <2>1, Zenon
  <2>5. parked' \in [Replicas -> Seq(Q)]
    <3>1. <<>> \in Seq(Q)
      OBVIOUS
    <3> HIDE DEF Q
    <3> QED BY <1>1, <2>1, <3>1
  <2>6. folded' \in [Replicas -> Nat] /\ \A s \in Replicas : folded'[s] <= Len(segments)
    BY <1>1, <1>2, <1>3, <2>1
  <2> QED BY <1>1, <1>5, <2>1, <2>3, <2>4, <2>5, <2>6, Zenon
<1> QED BY <1>8, <1>9, <1>10, <1>11, <1>12, <1>16, <1>17, <1>19, <1>20, <1>21, Zenon DEF LogStep

-----------------------------------------------------------------------------
(* Types of the calls. *)

\* The idle call and the new client have their types.
LEMMA NoCallTyped ==
    NoCall \in CallSet /\ NoCall.pc = "idle" /\ NoCall.pid = -1
BY DEF NoCall, CallSet, CallPcs

\* One call is set to a record of the right type.
LEMMA CallTyped ==
    ASSUME CallTypes, NEW x \in Clients \X Slots, NEW f \in CallSet, f.pc = "register" => f.off \in Nat,
           calls' = [calls EXCEPT ![x] = f]
    PROVE  /\ CallTypes'
           /\ calls'[x] = f /\ \A y \in Clients \X Slots : y # x => calls'[y] = calls[y]
<1>1. calls \in [Clients \X Slots -> CallSet]
  BY Zenon DEF CallTypes
<1>2. calls' \in [Clients \X Slots -> CallSet]
  BY <1>1
<1>3. calls'[x] = f /\ \A y \in Clients \X Slots : y # x => calls'[y] = calls[y]
  BY <1>1
<1>4. \A y \in Clients \X Slots : calls'[y].pc = "register" => calls'[y].off \in Nat
  BY <1>3, Zenon DEF CallTypes
<1> QED BY <1>2, <1>3, <1>4, Zenon DEF CallTypes

\* Several calls end at once.
LEMMA CallsEndTyped ==
    ASSUME CallTypes, NEW dead, calls' = [x \in DOMAIN calls |-> IF x \in dead THEN NoCall ELSE calls[x]]
    PROVE  CallTypes'
<1>1. calls \in [Clients \X Slots -> CallSet]
  BY Zenon DEF CallTypes
<1>2. calls' = [x \in Clients \X Slots |-> IF x \in dead THEN NoCall ELSE calls[x]]
  BY <1>1, Zenon
<1>3. NoCall.pc # "register" /\ NoCall \in CallSet
  BY NoCallTyped
<1>4. \A x \in Clients \X Slots : calls'[x] = NoCall \/ calls'[x] = calls[x]
  BY <1>2, Zenon
<1>5. calls' \in [Clients \X Slots -> CallSet]
  BY <1>1, <1>2, <1>3, Zenon
<1>6. \A y \in Clients \X Slots : calls'[y].pc = "register" => calls'[y].off \in Nat
  BY <1>3, <1>4, Zenon DEF CallTypes
<1> QED BY <1>5, <1>6, Zenon DEF CallTypes

\* A client's next call number is a number.
LEMMA NumOfNat == \A c : NumOf(c) \in Nat
BY DEF NumOf

\* The answers of a step that ends the call x: it is idle again, or an init that starts over.
LEMMA SucceedCall ==
    ASSUME CallTypes, NEW x \in Clients \X Slots, Succeed(x) \/ (\E fenced : Err(x, fenced))
    PROVE  /\ CallTypes'
           /\ calls'[x].pc \in {"idle", "cas"} /\ \A y \in Clients \X Slots : y # x => calls'[y] = calls[y]
<1>1. calls[x] \in CallSet
  BY Zenon DEF CallTypes
<1>2. NoCall \in CallSet /\ NoCall.pc = "idle" /\ NoCall.pc # "register"
  BY NoCallTyped
<1>3. CASE calls' = [calls EXCEPT ![x] = NoCall]
  BY <1>2, <1>3, CallTyped, Zenon
<1>4. CASE Succeed(x) /\ calls[x].op = "init"
  <2> DEFINE f == [NoCall EXCEPT !.pc = "cas", !.op = "init", !.at = calls[x].at, !.num = calls[x].num]
  <2>1. calls' = [calls EXCEPT ![x] = f]
    BY <1>4, Zenon DEF Succeed
  <2>2. calls[x].at \in Replicas \cup {"nowhere"} /\ calls[x].num \in Nat
    BY <1>1 DEF CallSet
  <2>3. f \in CallSet /\ f.pc = "cas"
    BY <1>2, <2>2, Zenon DEF CallSet, CallPcs
  <2> HIDE DEF f
  <2>4. f.pc # "register"
    BY <2>3
  <2> QED BY <2>1, <2>3, <2>4, CallTyped, Zenon
<1>5. CASE Succeed(x) /\ calls[x].op # "init"
  <2>1. calls' = [calls EXCEPT ![x] = NoCall]
    BY <1>5, Zenon DEF Succeed
  <2> QED BY <1>3, <2>1, Zenon
<1>6. CASE \E fenced : Err(x, fenced)
  <2>1. calls' = [calls EXCEPT ![x] = NoCall]
    BY <1>6, Zenon DEF Err
  <2> QED BY <1>3, <2>1, Zenon
<1> QED BY <1>4, <1>5, <1>6, Zenon

-----------------------------------------------------------------------------
(* The answers of a flush. *)

\* Between `was` and `now` a client keeps its identity, its sequences and its batches.
Keep(top, was, now) ==
    /\ now \in [Clients -> ClientSet(top)]
    /\ \A c \in Clients : /\ now[c].pid = was[c].pid /\ now[c].epoch = was[c].epoch /\ now[c].seq = was[c].seq
                          /\ now[c].sent = was[c].sent /\ now[c].out = was[c].out /\ now[c].added = was[c].added

\* The clients keep everything but where they are when calls of theirs fail.
LEMMA AfterErrorsTyped ==
    ASSUME NEW top, NEW clients \in [Clients -> ClientSet(top)], NEW dead, NEW fenced
    PROVE  Keep(top, clients, AfterErrors(clients, dead, fenced))
<1> DEFINE after == AfterErrors(clients, dead, fenced)
           Pc(c) == IF clients[c].want = "none" THEN "start" ELSE IF fenced THEN "fenced" ELSE "open"
           K(c) == [clients[c] EXCEPT !.pc = Pc(c)]
<1>1. after = [c \in Clients |-> IF <<c, "main">> \in dead THEN K(c) ELSE clients[c]]
  BY Zenon DEF AfterErrors
<1>2. ASSUME NEW c \in Clients
      PROVE  /\ K(c) \in ClientSet(top)
             /\ K(c).pid = clients[c].pid /\ K(c).epoch = clients[c].epoch /\ K(c).seq = clients[c].seq
             /\ K(c).sent = clients[c].sent /\ K(c).out = clients[c].out /\ K(c).added = clients[c].added
  <2> DEFINE pc == Pc(c)
             k == clients[c]
  <2>1. pc \in ClientPcs
    BY Zenon DEF ClientPcs
  <2>2. k \in ClientSet(top)
    BY Zenon
  <2> SUFFICES /\ [k EXCEPT !.pc = pc] \in ClientSet(top)
               /\ [k EXCEPT !.pc = pc].pid = k.pid /\ [k EXCEPT !.pc = pc].epoch = k.epoch
               /\ [k EXCEPT !.pc = pc].seq = k.seq /\ [k EXCEPT !.pc = pc].sent = k.sent
               /\ [k EXCEPT !.pc = pc].out = k.out /\ [k EXCEPT !.pc = pc].added = k.added
    BY Zenon
  <2> HIDE DEF pc, k
  <2> QED BY <2>1, <2>2, Zenon DEF ClientSet
<1>3. ASSUME NEW c \in Clients
      PROVE  after[c] = K(c) \/ after[c] = clients[c]
  BY <1>1, Zenon
<1>4. after \in [Clients -> ClientSet(top)]
  <2> HIDE DEF K
  <2> QED BY <1>1, <1>2, Zenon
<1> HIDE DEF K
<1>5. Keep(top, clients, after)
  BY <1>2, <1>3, <1>4, Zenon DEF Keep
<1> QED BY <1>5, Zenon

\* The flush of the requests `reqs` at r was answered with `out`: what may have become of the calls, of
\* the clients and of the batches.
Delivered1(top, r, reqs, out) ==
    /\ \A x \in Clients \X Slots :
         \/ calls'[x] = NoCall
         \/ calls'[x] = calls[x]
         \/ /\ calls[x].pc = "wait"
            /\ \E off \in Nat : calls'[x] = [calls[x] EXCEPT !.pc = "register", !.off = off]
    /\ calls' = [x \in Clients \X Slots |-> calls'[x]]
    /\ cl' \in [Clients -> ClientSet(top)]
    /\ \A c \in Clients : /\ cl'[c].pid = cl[c].pid /\ cl'[c].epoch = cl[c].epoch /\ cl'[c].seq = cl[c].seq
                          /\ cl'[c].sent = cl[c].sent /\ cl'[c].out \subseteq cl[c].out
                          /\ cl'[c].added = cl[c].added
    /\ \A g \in regs' : \/ g \in regs
                        \/ \E k \in DOMAIN reqs : /\ reqs[k].kind = "data" /\ out[k].class = "ok"
                                                  /\ g = [q |-> reqs[k], off |-> out[k].off, at |-> r]
    /\ \A a \in acks' : \/ a \in acks
                        \/ \E k \in DOMAIN reqs : /\ reqs[k].kind = "data" /\ out[k].class = "ok"
                                                  /\ a = [id |-> reqs[k].id, part |-> reqs[k].part, off |-> out[k].off]
    /\ \A q \in refused' : \/ q \in refused
                           \/ \E k \in DOMAIN reqs : reqs[k].kind = "data" /\ q = reqs[k]

\* Deliver does nothing else.
LEMMA DeliverEffect ==
    ASSUME NEW top, CallTypes, cl \in [Clients -> ClientSet(top)], NEW r, NEW reqs, NEW out \in Seq(Answers),
           DOMAIN reqs = DOMAIN out, Deliver(r, reqs, out)
    PROVE  Delivered1(top, r, reqs, out)
<1> DEFINE Ks(kind, classes) == {k \in DOMAIN reqs : reqs[k].kind = kind /\ out[k].class \in classes}
           okNow   == {k \in Ks("data", {"ok"}) : TidOf[reqs[k].c] = NoTid}
           okTxn   == Ks("data", {"ok"}) \ okNow
           answered == {reqs[k].id : k \in okNow}
           no      == {q \in {reqs[k] : k \in Ks("data", {"outOfOrder", "fenced"})} :
                         q.next /\ \E u \in cl[q.c].out : u.id = q.id}
           CallOf(id) == {x \in DOMAIN calls : /\ calls[x].pc = "wait"
                                                  /\ [c |-> x[1], num |-> calls[x].num, begun |-> calls[x].begun] = id}
           lost    == UNION {CallOf(reqs[k].id) : k \in Ks("marker", {"storage"})}
           Acked(x) == {k \in Ks("marker", {"ok"}) : x \in CallOf(reqs[k].id)}
           after   == [c \in Clients |->
                         [cl[c] EXCEPT !.out = {q \in @ : q.id \notin answered},
                                       !.pc = IF \E q \in no : q.c = c THEN "fenced" ELSE @]]
<1>1. /\ acks' = acks \cup {[id |-> reqs[k].id, part |-> reqs[k].part, off |-> out[k].off] : k \in Ks("data", {"ok"})}
      /\ refused' = refused \cup no
      /\ regs' = regs \cup {[q |-> reqs[k], off |-> out[k].off, at |-> r] : k \in okTxn}
      /\ calls' = [x \in DOMAIN calls |->
                     IF x \in lost THEN NoCall
                     ELSE IF Acked(x) # {}
                       THEN [calls[x] EXCEPT !.pc = "register", !.off = out[CHOOSE k \in Acked(x) : TRUE].off]
                     ELSE calls[x]]
      /\ cl' = AfterErrors(after, lost, FALSE)
  BY Zenon DEF Deliver
<1>2. calls \in [Clients \X Slots -> CallSet] /\ DOMAIN calls = Clients \X Slots
  BY Zenon DEF CallTypes
<1>3. ASSUME NEW k \in DOMAIN reqs, out[k].class = "ok"
      PROVE  out[k].off \in Nat
  <2>1. out[k] \in Answers
    BY <1>3
  <2> QED BY <1>3, <2>1 DEF Answers
<1>4. \A x \in Clients \X Slots :
        \/ calls'[x] = NoCall
        \/ calls'[x] = calls[x]
        \/ /\ calls[x].pc = "wait"
           /\ \E off \in Nat : calls'[x] = [calls[x] EXCEPT !.pc = "register", !.off = off]
  <2> SUFFICES ASSUME NEW x \in Clients \X Slots
               PROVE  \/ calls'[x] = NoCall
                      \/ calls'[x] = calls[x]
                      \/ /\ calls[x].pc = "wait"
                         /\ \E off \in Nat : calls'[x] = [calls[x] EXCEPT !.pc = "register", !.off = off]
    BY Zenon
  <2> DEFINE k == CHOOSE k \in Acked(x) : TRUE
  <2>1. \/ calls'[x] = NoCall
        \/ calls'[x] = calls[x]
        \/ Acked(x) # {} /\ calls'[x] = [calls[x] EXCEPT !.pc = "register", !.off = out[k].off]
    BY <1>1, <1>2, Zenon
  <2>2. ASSUME Acked(x) # {} PROVE calls[x].pc = "wait" /\ out[k].off \in Nat
    <3>1. k \in Acked(x)
      BY <2>2, Zenon
    <3>2. /\ k \in DOMAIN reqs /\ out[k].class = "ok" /\ x \in CallOf(reqs[k].id)
      BY <3>1, Zenon
    <3> QED BY <1>3, <3>2, ZenonT(30)
  <2> HIDE DEF k
  <2> QED BY <2>1, <2>2, Zenon
<1>5. calls' = [x \in Clients \X Slots |-> calls'[x]]
  BY <1>1, <1>2, Zenon
<1>6. ASSUME NEW c \in Clients
      PROVE  /\ after[c] \in ClientSet(top) /\ after[c].out \subseteq cl[c].out
             /\ after[c].pid = cl[c].pid /\ after[c].epoch = cl[c].epoch /\ after[c].seq = cl[c].seq
             /\ after[c].sent = cl[c].sent /\ after[c].added = cl[c].added
  <2> DEFINE k == cl[c]
             pc == IF \E q \in no : q.c = c THEN "fenced" ELSE k.pc
             left == {q \in k.out : q.id \notin answered}
  <2>1. after[c] = [k EXCEPT !.out = left, !.pc = pc]
    BY Zenon
  <2>2. k \in ClientSet(top)
    BY Zenon
  <2>3. k.out \subseteq DataRequests(top) /\ k.pc \in ClientPcs
    BY <2>2 DEF ClientSet
  <2>4. left \subseteq k.out /\ left \in SUBSET DataRequests(top)
    BY <2>3, Zenon
  <2>5. pc \in ClientPcs
    BY <2>3, Zenon DEF ClientPcs
  <2> SUFFICES /\ after[c] \in ClientSet(top) /\ after[c].out \subseteq k.out
               /\ after[c].pid = k.pid /\ after[c].epoch = k.epoch /\ after[c].seq = k.seq
               /\ after[c].sent = k.sent /\ after[c].added = k.added
    BY Zenon
  <2> HIDE DEF k, left, pc, after
  <2>6. LET u == [k EXCEPT !.out = left, !.pc = pc]
        IN  /\ u \in ClientSet(top) /\ u.out = left /\ u.pid = k.pid /\ u.epoch = k.epoch /\ u.seq = k.seq
            /\ u.sent = k.sent /\ u.added = k.added
    BY <2>2, <2>4, <2>5, Zenon DEF ClientSet
  <2> QED BY <2>1, <2>4, <2>6, Zenon
<1>7. after \in [Clients -> ClientSet(top)]
  <2>1. after = [c \in Clients |-> after[c]]
    BY Zenon
  <2> HIDE DEF after
  <2> QED BY <1>6, <2>1, Zenon
<1>8. /\ cl' \in [Clients -> ClientSet(top)]
      /\ \A c \in Clients : /\ cl'[c].pid = cl[c].pid /\ cl'[c].epoch = cl[c].epoch /\ cl'[c].seq = cl[c].seq
                            /\ cl'[c].sent = cl[c].sent /\ cl'[c].out \subseteq cl[c].out
                            /\ cl'[c].added = cl[c].added
  <2>1. cl' = AfterErrors(after, lost, FALSE)
    BY <1>1, Zenon
  <2> HIDE DEF after, lost
  <2>2. Keep(top, after, AfterErrors(after, lost, FALSE))
    BY <1>7, AfterErrorsTyped, Zenon
  <2>3. Keep(top, after, cl')
    BY <2>1, <2>2, Zenon
  <2> QED BY <1>6, <2>3, Zenon DEF Keep
<1>9. \A g \in regs' : \/ g \in regs
                       \/ \E k \in DOMAIN reqs : /\ reqs[k].kind = "data" /\ out[k].class = "ok"
                                                 /\ g = [q |-> reqs[k], off |-> out[k].off, at |-> r]
  BY <1>1, Zenon
<1>10. \A a \in acks' : \/ a \in acks
                        \/ \E k \in DOMAIN reqs : /\ reqs[k].kind = "data" /\ out[k].class = "ok"
                                                  /\ a = [id |-> reqs[k].id, part |-> reqs[k].part, off |-> out[k].off]
  BY <1>1, Zenon
<1>11. \A q \in refused' : \/ q \in refused
                           \/ \E k \in DOMAIN reqs : reqs[k].kind = "data" /\ q = reqs[k]
  BY <1>1, Zenon
<1> QED BY <1>4, <1>5, <1>8, <1>9, <1>10, <1>11, Zenon DEF Delivered1

\* A flush that ends answers each of its requests.
FlushAnswered(top, r, out) ==
    /\ out \in Seq(Answers) /\ DOMAIN flush[r].reqs = DOMAIN out
    /\ Delivered1(top, r, flush[r].reqs, out)
    /\ PutWon(r, out) \/ AttemptEmpty(r, out) \/ PutFailed(r, out)
    /\ UNCHANGED ledger

\* The three ways a flush ends.
LEMMA FlushEnds ==
    ASSUME Given, NEW top \in Int, Types(top), NEW r \in Replicas,
           FlushWon(r) \/ FlushEmpty(r) \/ FlushFailed(r)
    PROVE  \E out : FlushAnswered(top, r, out)
<1>1. LogTypes(top) /\ CallTypes /\ ClientTypes(top)
  BY Zenon DEF Types
<1>2. cl \in [Clients -> ClientSet(top)]
  BY <1>1, Zenon DEF ClientTypes
<1>3. flush[r] \in Flushes(top)
  BY <1>1, Zenon DEF LogTypes
<1>4. flush[r].reqs \in Seq(Requests(top)) /\ flush[r].out \in Seq(Answers)
  BY <1>3 DEF Flushes
<1>5. ASSUME NEW out \in Seq(Answers), Len(out) = Len(flush[r].reqs)
      PROVE  DOMAIN flush[r].reqs = DOMAIN out
  BY <1>4, <1>5
<1>6. CASE FlushWon(r)
  <2>1. PutWon(r, flush[r].out) /\ Deliver(r, flush[r].reqs, flush[r].out)
    BY <1>6, Zenon DEF FlushWon
  <2>2. flush[r].pc = "put"
    BY <2>1, Zenon DEF PutWon
  <2>3. DOMAIN flush[r].reqs = DOMAIN flush[r].out
    BY <1>1, <1>4, <1>5, <2>2, Zenon DEF LogTypes
  <2>4. UNCHANGED ledger
    BY <2>1, Zenon DEF Deliver
  <2>5. Delivered1(top, r, flush[r].reqs, flush[r].out)
    BY <1>1, <1>2, <1>4, <2>1, <2>3, DeliverEffect, Zenon
  <2> QED BY <1>4, <2>1, <2>3, <2>4, <2>5, Zenon DEF FlushAnswered
<1>7. CASE FlushEmpty(r)
  <2>1. flush[r].pc \in {"attempt", "retry"}
    BY <1>7, Zenon DEF FlushEmpty
  <2>2. PICK upto \in FoldTo(r) :
          /\ AttemptEmpty(r, Plan(SubSeq(segments, 1, upto), flush[r].reqs).out)
          /\ Deliver(r, flush[r].reqs, Plan(SubSeq(segments, 1, upto), flush[r].reqs).out)
    BY <1>7, Zenon DEF FlushEmpty
  <2>3. Planned(Entries(top), SubSeq(segments, 1, upto), flush[r].reqs, Len(flush[r].reqs),
                Plan(SubSeq(segments, 1, upto), flush[r].reqs))
    BY <1>1, <2>1, AttemptPlanned, Zenon
  <2> DEFINE out == Plan(SubSeq(segments, 1, upto), flush[r].reqs).out
  <2>4. out \in Seq(Answers) /\ Len(out) = Len(flush[r].reqs)
    BY <2>3, Zenon DEF Planned
  <2>5. AttemptEmpty(r, out) /\ Deliver(r, flush[r].reqs, out)
    BY <2>2, Zenon
  <2> HIDE DEF out
  <2>6. DOMAIN flush[r].reqs = DOMAIN out
    BY <1>5, <2>4, Zenon
  <2>7. UNCHANGED ledger
    BY <2>5, Zenon DEF Deliver
  <2>8. Delivered1(top, r, flush[r].reqs, out)
    BY <1>1, <1>2, <2>4, <2>5, <2>6, DeliverEffect, Zenon
  <2> QED BY <2>4, <2>5, <2>6, <2>7, <2>8, Zenon DEF FlushAnswered
<1>8. CASE FlushFailed(r)
  <2> DEFINE out == Failed(flush[r].reqs)
  <2>1. PutFailed(r, out) /\ Deliver(r, flush[r].reqs, out)
    BY <1>8, Zenon DEF FlushFailed
  <2>2. Answer("storage", -1) \in Answers
    BY DEF Answer, Answers
  <2>3. out = [k \in 1..Len(flush[r].reqs) |-> Answer("storage", -1)] /\ DOMAIN flush[r].reqs = DOMAIN out
    BY <1>4 DEF Failed
  <2>4. out \in Seq(Answers)
    <3>1. Len(flush[r].reqs) \in Nat
      BY <1>4
    <3> HIDE DEF out
    <3> QED BY <2>2, <2>3, <3>1
  <2> HIDE DEF out
  <2>7. UNCHANGED ledger
    BY <2>1, Zenon DEF Deliver
  <2>8. Delivered1(top, r, flush[r].reqs, out)
    BY <1>1, <1>2, <2>1, <2>3, <2>4, DeliverEffect, Zenon
  <2> QED BY <2>1, <2>3, <2>4, <2>7, <2>8, Zenon DEF FlushAnswered
<1> QED BY <1>6, <1>7, <1>8, Zenon

\* An epoch of the ledger has a detail.
LEMMA CurrentEpoch ==
    ASSUME LedgerTypes, NEW t, t # NoTid => t \in Tids, NEW pid, NEW epoch \in Int, Current(t, pid, epoch)
    PROVE  /\ t \in Tids /\ epoch + 1 \in DOMAIN txns[t].epochs /\ epoch \in 0..EpochOf(t)
           /\ Detail(t, epoch) \in TxnDetails
<1>1. t \in Tids /\ txns[t].epochs # <<>> /\ EpochOf(t) = epoch
  BY Zenon DEF Current
<1>2. txns[t] \in [producer : Nat, epochs : Seq(TxnDetails)]
  BY <1>1, Zenon DEF LedgerTypes
<1>3. txns[t].epochs \in Seq(TxnDetails)
  BY <1>2
<1>4. epoch + 1 \in DOMAIN txns[t].epochs /\ epoch \in 0..EpochOf(t)
  BY <1>1, <1>3 DEF EpochOf
<1>5. txns[t].epochs[epoch + 1] \in TxnDetails
  BY <1>3, <1>4
<1> QED BY <1>1, <1>4, <1>5, Zenon DEF Detail

\* What a step may do to the call x.
CallMoves(x) ==
    \/ calls'[x].pc \notin {"seed", "mark", "wait", "register"}
    \/ /\ calls[x].pc \in {"mark", "wait", "register"} /\ calls'[x].pc \in {"mark", "wait", "register"}
       /\ calls'[x].pid = calls[x].pid /\ calls'[x].epoch = calls[x].epoch /\ calls'[x].commit = calls[x].commit
       /\ calls'[x].begun = calls[x].begun
    \/ calls[x].pc = "seed" /\ calls'[x] = calls[x]
    \/ InitCas(x)
    \/ Prepare(x) /\ calls'[x].pc = "mark"
    \/ Abandon(x[1]) /\ x[2] = "old" /\ calls'[x] = calls[<<x[1], "main">>]

\* The calls' part of a step: their types, and their moves.
CallStep == CallTypes' /\ \A x \in Clients \X Slots : CallMoves(x)

\* A call that stays as it is moves.
LEMMA CallStays ==
    ASSUME CallTypes, NEW x \in Clients \X Slots, calls'[x] = calls[x]
    PROVE  CallMoves(x)
BY Zenon DEF CallMoves

\* One call moves and the others stay.
LEMMA OneCallMoves ==
    ASSUME CallTypes, NEW x \in Clients \X Slots, NEW f \in CallSet, f.pc = "register" => f.off \in Nat,
           calls' = [calls EXCEPT ![x] = f], calls'[x] = f => CallMoves(x)
    PROVE  CallStep
<1>1. /\ CallTypes' /\ calls'[x] = f
      /\ \A y \in Clients \X Slots : y # x => calls'[y] = calls[y]
  BY CallTyped, Zenon
<1>2. \A y \in Clients \X Slots : CallMoves(y)
  BY <1>1, CallStays, Zenon
<1> QED BY <1>1, <1>2, Zenon DEF CallStep

\* No call moves.
LEMMA NoCallMoves ==
    ASSUME CallTypes, calls' = calls
    PROVE  CallStep
<1>1. CallTypes'
  BY Zenon DEF CallTypes
<1>2. \A y \in Clients \X Slots : CallMoves(y)
  BY CallStays, Zenon
<1> QED BY <1>1, <1>2, Zenon DEF CallStep

\* The first ledger step of init_producer_id goes on with an identity, or with the rollback of a transaction.
LEMMA InitCasCalls ==
    ASSUME NEW x, InitCas(x)
    PROVE  /\ calls[x].pc = "cas" /\ cl' = cl
           /\ \E pid, epoch :
                \/ calls' = [calls EXCEPT ![x].pc = "seed", ![x].pid = pid, ![x].epoch = epoch]
                \/ calls' = [calls EXCEPT ![x].pc = "prepare", ![x].pid = pid, ![x].epoch = epoch, ![x].commit = FALSE]
<1> DEFINE t == TidOf[x[1]]
           Got(pid, epoch) == calls' = [calls EXCEPT ![x].pc = "seed", ![x].pid = pid, ![x].epoch = epoch]
           Rolls(pid, epoch) == calls' = [calls EXCEPT ![x].pc = "prepare", ![x].pid = pid, ![x].epoch = epoch,
                                                       ![x].commit = FALSE]
<1>1. calls[x].pc = "cas" /\ cl' = cl
  BY Zenon DEF InitCas
<1>2. Got(lastPid + 1, 0) \/ Rolls(txns[t].producer, EpochOf(t)) \/ Got(txns[t].producer, EpochOf(t) + 1)
  BY Zenon DEF InitCas
<1>3. \E pid, epoch : Got(pid, epoch) \/ Rolls(pid, epoch)
  <2> HIDE DEF t, Got, Rolls
  <2> QED BY <1>2, Zenon
<1> QED BY <1>1, <1>3, Zenon

\* Every step moves the calls in these ways.
LEMMA NextCallStep ==
    ASSUME Given, NEW top \in Int, Types(top), Next
    PROVE  CallStep
<1>1. CallTypes /\ ClientTypes(top) /\ LedgerTypes
  BY Zenon DEF Types
<1>2. calls \in [Clients \X Slots -> CallSet]
  BY <1>1, Zenon DEF CallTypes
<1>3. ASSUME NEW x \in Clients \X Slots
      PROVE  /\ calls[x] \in CallSet /\ x = <<x[1], x[2]>> /\ x[1] \in Clients /\ x[2] \in Slots
  BY <1>2
<1>4. ASSUME NEW c \in Clients PROVE <<c, "main">> \in Clients \X Slots /\ <<c, "old">> \in Clients \X Slots
  BY DEF Slots
<1>5. NoCall \in CallSet /\ NoCall.pc = "idle"
  BY NoCallTyped, Zenon
<1>6. ASSUME NEW x \in Clients \X Slots, NEW f \in CallSet, calls' = [calls EXCEPT ![x] = f],
             f.pc \notin {"seed", "mark", "wait", "register"}
      PROVE  CallStep
  <2>1. f.pc # "register"
    BY <1>6
  <2>2. calls'[x] = f => CallMoves(x)
    BY <1>6, Zenon DEF CallMoves
  <2> QED BY <1>1, <1>6, <2>1, <2>2, OneCallMoves, Zenon
<1>7. ASSUME NEW c \in Clients, NEW r \in Replicas,
             (\E p \in Partitions, n \in BatchSizes : Send(c, p, n, r)) \/ Resend(c, r)
      PROVE  CallStep
  BY <1>1, <1>7, NoCallMoves, Zenon DEF Send, Resend
<1>8. ASSUME NEW c \in Clients, AddPartitions(c) \/ StageOffsets(c) PROVE CallStep
  BY <1>1, <1>8, NoCallMoves, Zenon DEF AddPartitions, StageOffsets
<1>9. ASSUME NEW c \in Clients, NEW r \in Replicas, StartInit(c, r) PROVE CallStep
  <2> DEFINE f == [NoCall EXCEPT !.pc = "cas", !.op = "init", !.at = r, !.num = NumOf(c)]
             x == <<c, "main">>
  <2>1. calls' = [calls EXCEPT ![x] = f]
    BY <1>9, Zenon DEF StartInit
  <2>2. NumOf(c) \in Nat /\ r \in Replicas \cup {"nowhere"}
    BY NumOfNat, Zenon
  <2>3. f \in CallSet /\ f.pc = "cas"
    BY <1>5, <2>2, Zenon DEF CallSet, CallPcs
  <2> HIDE DEF f
  <2>4. f.pc \notin {"seed", "mark", "wait", "register"}
    BY <2>3
  <2> QED BY <1>4, <1>6, <2>1, <2>3, <2>4, Zenon
<1>10. ASSUME NEW c \in Clients, NEW r \in Replicas, NEW commit \in BOOLEAN, StartEnd(c, commit, r) PROVE CallStep
  <2> DEFINE f == [NoCall EXCEPT !.pc = "prepare", !.op = "end", !.at = r, !.num = NumOf(c), !.pid = cl[c].pid,
                                 !.epoch = cl[c].epoch, !.commit = commit]
             x == <<c, "main">>
  <2>1. calls' = [calls EXCEPT ![x] = f]
    BY <1>10, Zenon DEF StartEnd
  <2>2. NumOf(c) \in Nat /\ r \in Replicas \cup {"nowhere"}
    BY NumOfNat, Zenon
  <2>3. cl[c] \in ClientSet(top)
    BY <1>1, Zenon DEF ClientTypes
  <2>4. cl[c].pid \in Int /\ cl[c].epoch \in Int
    BY <2>3 DEF ClientSet
  <2>5. f \in CallSet /\ f.pc = "prepare"
    BY <1>5, <2>2, <2>4, Zenon DEF CallSet, CallPcs
  <2> HIDE DEF f
  <2>6. f.pc \notin {"seed", "mark", "wait", "register"}
    BY <2>5
  <2> QED BY <1>4, <1>6, <2>1, <2>5, <2>6, Zenon
<1>11. ASSUME NEW c \in Clients, Abandon(c) PROVE CallStep
  <2> DEFINE x == <<c, "old">>
             m == <<c, "main">>
  <2>0. x \in Clients \X Slots /\ m \in Clients \X Slots /\ x # m /\ x[1] = c /\ x[2] = "old"
    BY DEF Slots
  <2>1. calls' = [calls EXCEPT ![x] = calls[m], ![m] = NoCall]
    BY <1>11, Zenon DEF Abandon
  <2> HIDE DEF x
  <2>2. /\ calls' \in [Clients \X Slots -> CallSet] /\ calls'[x] = calls[m] /\ calls'[m] = NoCall
        /\ \A y \in Clients \X Slots : y # x /\ y # m => calls'[y] = calls[y]
    <3> HIDE DEF m
    <3>1. calls[m] \in CallSet
      BY <1>3, <2>0, Zenon
    <3> QED BY <1>2, <1>5, <2>0, <2>1, <3>1
  <2>3. NoCall.pc \notin {"seed", "mark", "wait", "register"}
    BY <1>5
  <2>4. \A y \in Clients \X Slots : calls'[y].pc = "register" => calls'[y].off \in Nat
    BY <1>1, <2>0, <2>2, <2>3, Zenon DEF CallTypes
  <2>5. CallTypes'
    BY <2>2, <2>4, Zenon DEF CallTypes
  <2>6. CallMoves(x)
    BY <1>11, <2>0, <2>2, Zenon DEF CallMoves
  <2>7. CallMoves(m)
    BY <2>2, <2>3, Zenon DEF CallMoves
  <2> HIDE DEF m
  <2>8. \A y \in Clients \X Slots : CallMoves(y)
    BY <1>1, <2>2, <2>6, <2>7, CallStays, Zenon
  <2> QED BY <2>5, <2>8, Zenon DEF CallStep
<1>12. ASSUME NEW x \in Clients \X Slots, InitCas(x) PROVE CallStep
  <2> DEFINE t == TidOf[x[1]]
             f(pc, pid, epoch, commit) == [calls[x] EXCEPT !.pc = pc, !.pid = pid, !.epoch = epoch, !.commit = commit]
             g(pid, epoch) == [calls[x] EXCEPT !.pc = "seed", !.pid = pid, !.epoch = epoch]
  <2>1. calls[x] \in CallSet
    BY <1>3, Zenon
  <2>2. ASSUME NEW pid \in Int, NEW epoch \in Int, calls' = [calls EXCEPT ![x] = g(pid, epoch)] PROVE CallStep
    <3> DEFINE k == g(pid, epoch)
    <3>1. k \in CallSet /\ k.pc = "seed"
      BY <2>1, Zenon DEF CallSet, CallPcs
    <3>2. calls' = [calls EXCEPT ![x] = k]
      BY <2>2, Zenon
    <3> HIDE DEF k
    <3>3. k.pc # "register"
      BY <3>1
    <3>4. CallMoves(x)
      BY <1>12, Zenon DEF CallMoves
    <3> QED BY <1>1, <3>1, <3>2, <3>3, <3>4, OneCallMoves, Zenon
  <2>3. ASSUME NEW pid \in Int, NEW epoch \in Int, calls' = [calls EXCEPT ![x] = f("prepare", pid, epoch, FALSE)]
        PROVE  CallStep
    <3> DEFINE k == f("prepare", pid, epoch, FALSE)
    <3>1. k \in CallSet /\ k.pc = "prepare"
      BY <2>1, Zenon DEF CallSet, CallPcs
    <3>2. calls' = [calls EXCEPT ![x] = k]
      BY <2>3, Zenon
    <3> HIDE DEF k
    <3>3. k.pc \notin {"seed", "mark", "wait", "register"}
      BY <3>1
    <3> QED BY <1>6, <3>1, <3>2, <3>3, Zenon
  <2>4. lastPid \in Nat /\ txns \in [Tids -> [producer : Nat, epochs : Seq(TxnDetails)]]
    BY <1>1, Zenon DEF LedgerTypes
  <2>5. ASSUME t # NoTid
        PROVE  txns[t].producer \in Int /\ EpochOf(t) \in Int /\ EpochOf(t) + 1 \in Int
    <3>1. t \in Tids
      BY <1>3, <2>5, Zenon DEF Tids
    <3>2. txns[t] \in [producer : Nat, epochs : Seq(TxnDetails)]
      BY <2>4, <3>1, Zenon
    <3>3. txns[t].producer \in Nat /\ txns[t].epochs \in Seq(TxnDetails)
      BY <3>2
    <3>4. Len(txns[t].epochs) \in Nat
      BY <3>3
    <3> HIDE DEF t
    <3> QED BY <3>3, <3>4 DEF EpochOf
  <2>6. \/ calls' = [calls EXCEPT ![x] = g(lastPid + 1, 0)]
        \/ t # NoTid /\ calls' = [calls EXCEPT ![x] = f("prepare", txns[t].producer, EpochOf(t), FALSE)]
        \/ t # NoTid /\ calls' = [calls EXCEPT ![x] = g(txns[t].producer, EpochOf(t) + 1)]
    BY <1>12, Zenon DEF InitCas
  <2>7. lastPid + 1 \in Int /\ 0 \in Int
    BY <2>4
  <2> HIDE DEF f, g, t
  <2> QED BY <2>2, <2>3, <2>5, <2>6, <2>7, Zenon
<1>13. ASSUME NEW x \in Clients \X Slots, Seed(x) PROVE CallStep
  <2>1. calls' = [calls EXCEPT ![x] = NoCall]
    BY <1>13, Zenon DEF Seed
  <2>2. NoCall.pc \notin {"seed", "mark", "wait", "register"}
    BY <1>5
  <2> QED BY <1>5, <1>6, <2>1, <2>2, Zenon
<1>14. ASSUME NEW x \in Clients \X Slots, Succeed(x) \/ \E fenced : Err(x, fenced) PROVE CallStep
  <2>1. /\ CallTypes' /\ calls'[x].pc \in {"idle", "cas"}
        /\ \A y \in Clients \X Slots : y # x => calls'[y] = calls[y]
    BY <1>1, <1>14, SucceedCall, Zenon
  <2>2. calls'[x].pc \notin {"seed", "mark", "wait", "register"}
    BY <2>1
  <2>3. \A y \in Clients \X Slots : CallMoves(y)
    <3>1. CallMoves(x)
      BY <2>2, Zenon DEF CallMoves
    <3> QED BY <1>1, <2>1, <3>1, CallStays, Zenon
  <2> QED BY <2>1, <2>3, Zenon DEF CallStep
<1>15. ASSUME NEW x \in Clients \X Slots, Prepare(x) PROVE CallStep
  <2>1. CASE \E fenced : Err(x, fenced)
    BY <1>14, <2>1, Zenon
  <2>2. CASE ~\E fenced : Err(x, fenced)
    <3> DEFINE d == Detail(TidOf[x[1]], calls[x].epoch)
               todo == {p \in Partitions : d.state = "Begin" /\ d.produces[p] # NoRange}
               pc == IF todo = {} THEN "resolve" ELSE "mark"
               num == d.begun
               f == [calls[x] EXCEPT !.todo = todo, !.begun = num, !.pc = pc]
    <3>1. calls' = [calls EXCEPT ![x] = f] /\ Current(TidOf[x[1]], calls[x].pid, calls[x].epoch)
      BY <1>15, <2>2, Zenon DEF Prepare
    <3>7. num \in Nat
      <4>1. TidOf[x[1]] # NoTid => TidOf[x[1]] \in Tids
        BY <1>3, Zenon DEF Tids
      <4>2. calls[x].epoch \in Int
        <5>1. calls[x] \in CallSet
          BY <1>3, Zenon
        <5> QED BY <5>1 DEF CallSet
      <4>3. d \in TxnDetails
        BY <3>1, <4>1, <4>2, <1>1, CurrentEpoch, Zenon
      <4> HIDE DEF d
      <4> QED BY <4>3 DEF TxnDetails
    <3>2. todo \in SUBSET Partitions
      BY Zenon
    <3>3. pc \in {"resolve", "mark"}
      BY Zenon
    <3> HIDE DEF todo, pc, num
    <3>4. f \in CallSet /\ f.pc = pc
      <4>1. calls[x] \in CallSet
        BY <1>3, Zenon
      <4> QED BY <3>2, <3>3, <3>7, <4>1, Zenon DEF CallSet, CallPcs
    <3> HIDE DEF f
    <3>5. CASE pc = "resolve"
      <4>1. f.pc \notin {"seed", "mark", "wait", "register"}
        BY <3>4, <3>5
      <4> QED BY <1>6, <3>1, <3>4, <4>1, Zenon
    <3>6. CASE pc = "mark"
      <4>1. f.pc # "register"
        BY <3>4, <3>6
      <4>2. calls'[x] = f => CallMoves(x)
        BY <1>15, <3>4, <3>6, Zenon DEF CallMoves
      <4> QED BY <1>1, <3>1, <3>4, <4>1, <4>2, OneCallMoves, Zenon
    <3> QED BY <3>3, <3>5, <3>6, Zenon
  <2> QED BY <2>1, <2>2, Zenon
<1>16. ASSUME NEW x \in Clients \X Slots, Mark(x) PROVE CallStep
  <2> DEFINE f == [calls[x] EXCEPT !.pc = "wait"]
  <2>1. calls' = [calls EXCEPT ![x] = f] /\ calls[x].pc = "mark"
    BY <1>16, Zenon DEF Mark
  <2>2. calls[x] \in CallSet
    BY <1>3, Zenon
  <2>3. f \in CallSet /\ f.pc = "wait" /\ f.pid = calls[x].pid /\ f.epoch = calls[x].epoch /\ f.commit = calls[x].commit
        /\ f.begun = calls[x].begun
    BY <2>2 DEF CallSet, CallPcs
  <2> HIDE DEF f
  <2>4. f.pc # "register"
    BY <2>3
  <2>5. calls'[x] = f => CallMoves(x)
    BY <2>1, <2>3, Zenon DEF CallMoves
  <2> QED BY <1>1, <2>1, <2>3, <2>4, <2>5, OneCallMoves, Zenon
<1>17. ASSUME NEW x \in Clients \X Slots, RegisterMarker(x) PROVE CallStep
  <2> DEFINE rest == calls[x].todo \ {CHOOSE p \in calls[x].todo : \A q \in calls[x].todo : p <= q}
             pc == IF rest = {} THEN "resolve" ELSE "mark"
             f == [calls[x] EXCEPT !.todo = rest, !.off = -1, !.pc = pc]
  <2>1. calls' = [calls EXCEPT ![x] = f] /\ calls[x].pc = "register"
    BY <1>17, Zenon DEF RegisterMarker
  <2>2. calls[x] \in CallSet
    BY <1>3, Zenon
  <2>3. calls[x].todo \in SUBSET Partitions
    BY <2>2 DEF CallSet
  <2>4. rest \in SUBSET Partitions /\ pc \in {"resolve", "mark"}
    BY <2>3, Zenon
  <2> HIDE DEF rest, pc
  <2>9. -1 \in Int /\ pc \in CallPcs
    BY <2>4 DEF CallPcs
  <2>10. f \in CallSet
    BY <2>2, <2>4, <2>9, Zenon DEF CallSet
  <2>11. f.pc = pc
    BY <2>2, <2>9 DEF CallSet
  <2>12. f.pid = calls[x].pid /\ f.epoch = calls[x].epoch
    BY <2>2 DEF CallSet
  <2>5. f \in CallSet /\ f.pc = pc /\ f.pid = calls[x].pid /\ f.epoch = calls[x].epoch
    BY <2>10, <2>11, <2>12, Zenon
  <2>8. f.commit = calls[x].commit /\ f.begun = calls[x].begun
    BY <2>2 DEF CallSet
  <2> HIDE DEF f
  <2>6. CASE pc = "resolve"
    <3>1. f.pc \notin {"seed", "mark", "wait", "register"}
      BY <2>5, <2>6
    <3> QED BY <1>6, <2>1, <2>5, <3>1, Zenon
  <2>7. CASE pc = "mark"
    <3>1. f.pc # "register"
      BY <2>5, <2>7
    <3>2. calls'[x] = f => CallMoves(x)
      BY <2>1, <2>5, <2>7, <2>8, Zenon DEF CallMoves
    <3> QED BY <1>1, <2>1, <2>5, <3>1, <3>2, OneCallMoves, Zenon
  <2> QED BY <2>4, <2>6, <2>7, Zenon
<1>18. ASSUME NEW x \in Clients \X Slots, Resolve(x) PROVE CallStep
  <2>1. CASE Succeed(x) \/ \E fenced : Err(x, fenced)
    BY <1>14, <2>1, Zenon
  <2>2. CASE ~(Succeed(x) \/ \E fenced : Err(x, fenced))
    <3>1. PICK offs \in SUBSET (Clients \X Nat) : calls' = [calls EXCEPT ![x].pc = "offsets", ![x].offsets = offs]
      <4> DEFINE t == TidOf[x[1]]
                 call == calls[x]
                 over == Overlaps(t, call.epoch)
                 own == <<t, call.epoch + 1>>
                 ready == \A o \in over : txns[o[1]].epochs[o[2]].state \in Prepared
                 done == IF ready THEN over \cup {own} ELSE {}
                 offs == UNION {txns[o[1]].epochs[o[2]].offsets : o \in {u \in done : Taken(u, own, call.commit)}}
      <4>2. calls' = [calls EXCEPT ![x].pc = "offsets", ![x].offsets = offs] /\ Current(t, call.pid, call.epoch)
        BY <1>18, <2>2, Zenon DEF Resolve
      <4>3. t \in Tids /\ call.epoch + 1 \in DOMAIN txns[t].epochs
        <5>1. t \in Tids /\ txns[t].epochs # <<>> /\ EpochOf(t) = call.epoch
          BY <1>3, <4>2, Zenon DEF Current, Tids
        <5>2. txns[t] \in [producer : Nat, epochs : Seq(TxnDetails)]
          BY <1>1, <5>1, Zenon DEF LedgerTypes
        <5>3. txns[t].epochs \in Seq(TxnDetails)
          BY <5>2
        <5> HIDE DEF t, call
        <5> QED BY <5>1, <5>3 DEF EpochOf
      <4>4. \A o \in done : o[1] \in Tids /\ o[2] \in DOMAIN txns[o[1]].epochs
        <5>1. over \subseteq Epochs
          BY Zenon DEF Overlaps
        <5>2. \A o \in Epochs : o[1] \in Tids /\ o[2] \in DOMAIN txns[o[1]].epochs
          <6> TAKE o \in Epochs
          <6>1. PICK u \in Tids : o \in {u} \X DOMAIN txns[u].epochs
            BY Zenon DEF Epochs
          <6>2. o[1] = u /\ o[2] \in DOMAIN txns[u].epochs
            BY <6>1
          <6> QED BY <6>2, Zenon
        <5>3. own[1] = t /\ own[2] = call.epoch + 1
          OBVIOUS
        <5> HIDE DEF own, over, t, call
        <5> QED BY <4>3, <5>1, <5>2, <5>3, Zenon
      <4>5. \A o \in done : txns[o[1]].epochs[o[2]].offsets \subseteq Clients \X Nat
        <5> HIDE DEF done
        <5> TAKE o \in done
        <5>1. o[1] \in Tids /\ o[2] \in DOMAIN txns[o[1]].epochs
          BY <4>4, Zenon
        <5>2. txns[o[1]] \in [producer : Nat, epochs : Seq(TxnDetails)]
          BY <1>1, <5>1, Zenon DEF LedgerTypes
        <5>3. txns[o[1]].epochs \in Seq(TxnDetails)
          BY <5>2
        <5>4. txns[o[1]].epochs[o[2]] \in TxnDetails
          BY <5>1, <5>3
        <5> QED BY <5>4 DEF TxnDetails
      <4>6. offs \in SUBSET (Clients \X Nat)
        <5> HIDE DEF done
        <5> QED BY <4>5, Zenon
      <4> HIDE DEF offs
      <4> QED BY <4>2, <4>6, Zenon
    <3> DEFINE f == [calls[x] EXCEPT !.pc = "offsets", !.offsets = offs]
    <3>2. calls' = [calls EXCEPT ![x] = f]
      BY <3>1, Zenon
    <3>3. f \in CallSet /\ f.pc = "offsets"
      <4>1. calls[x] \in CallSet
        BY <1>3, Zenon
      <4> QED BY <4>1, Zenon DEF CallSet, CallPcs
    <3> HIDE DEF f
    <3>4. f.pc \notin {"seed", "mark", "wait", "register"}
      BY <3>3
    <3> QED BY <1>6, <3>2, <3>3, <3>4, Zenon
  <2> QED BY <2>1, <2>2, Zenon
<1>19. ASSUME NEW x \in Clients \X Slots, CommitOffsets(x) PROVE CallStep
  <2>1. Succeed(x) \/ \E fenced : Err(x, fenced)
    BY <1>19, Zenon DEF CommitOffsets
  <2> QED BY <1>14, <2>1, Zenon
<1>20. ASSUME NEW g \in regs, Register(g) PROVE CallStep
  BY <1>1, <1>20, NoCallMoves, Zenon DEF Register
<1>21. ASSUME Rest0 PROVE CallStep
  BY <1>1, <1>21, NoCallMoves, Zenon DEF Rest0
<1>22. ASSUME NEW r \in Replicas, FlushWon(r) \/ FlushEmpty(r) \/ FlushFailed(r) PROVE CallStep
  <2>1. PICK out : FlushAnswered(top, r, out)
    BY <1>22, FlushEnds, Zenon
  <2>2. /\ \A x \in Clients \X Slots :
             \/ calls'[x] = NoCall
             \/ calls'[x] = calls[x]
             \/ /\ calls[x].pc = "wait"
                /\ \E off \in Nat : calls'[x] = [calls[x] EXCEPT !.pc = "register", !.off = off]
        /\ calls' = [x \in Clients \X Slots |-> calls'[x]]
    BY <2>1, Zenon DEF FlushAnswered, Delivered1
  <2>3. NoCall.pc \notin {"seed", "mark", "wait", "register"}
    BY <1>5
  <2>4. ASSUME NEW x \in Clients \X Slots
        PROVE  calls'[x] \in CallSet /\ (calls'[x].pc = "register" => calls'[x].off \in Nat) /\ CallMoves(x)
    <3>1. calls[x] \in CallSet
      BY <1>3, Zenon
    <3>2. CASE calls'[x] = NoCall
      <4>1. NoCall.pc # "register"
        BY <2>3
      <4> QED BY <1>5, <2>3, <3>2, <4>1, Zenon DEF CallMoves
    <3>3. CASE calls'[x] = calls[x]
      BY <1>1, <3>1, <3>3, CallStays, Zenon DEF CallTypes
    <3>4. ASSUME calls[x].pc = "wait", NEW off \in Nat, calls'[x] = [calls[x] EXCEPT !.pc = "register", !.off = off]
          PROVE  calls'[x] \in CallSet /\ (calls'[x].pc = "register" => calls'[x].off \in Nat) /\ CallMoves(x)
      <4> DEFINE f == [calls[x] EXCEPT !.pc = "register", !.off = off]
      <4>3. off \in Int /\ "register" \in CallPcs
        BY DEF CallPcs
      <4>4. f \in CallSet
        BY <3>1, <4>3, Zenon DEF CallSet
      <4>5. f.pc = "register" /\ f.off = off
        BY <3>1, <4>3 DEF CallSet
      <4>6. f.pid = calls[x].pid /\ f.epoch = calls[x].epoch
        BY <3>1, <4>3 DEF CallSet
      <4>0. f \in CallSet /\ f.pc = "register" /\ f.off = off /\ f.pid = calls[x].pid /\ f.epoch = calls[x].epoch
        BY <4>4, <4>5, <4>6, Zenon
      <4>1. f.commit = calls[x].commit /\ f.begun = calls[x].begun
        BY <3>1 DEF CallSet
      <4>2. calls'[x] = f
        BY <3>4, Zenon
      <4> HIDE DEF f
      <4> QED BY <3>4, <4>0, <4>1, <4>2, Zenon DEF CallMoves
    <3> QED BY <2>2, <3>2, <3>3, <3>4, Zenon
  <2>5. calls' \in [Clients \X Slots -> CallSet]
    BY <2>2, <2>4, Zenon
  <2>6. CallTypes'
    BY <2>4, <2>5, Zenon DEF CallTypes
  <2> QED BY <2>4, <2>6, Zenon DEF CallStep
<1>23. ASSUME NEW r \in Replicas, Crash(r) PROVE CallStep
  <2> DEFINE dead == {x \in DOMAIN calls : calls[x].pc # "idle" /\ calls[x].at = r}
  <2>1. calls' = [x \in DOMAIN calls |-> IF x \in dead THEN NoCall ELSE calls[x]]
    BY <1>23, Zenon DEF Crash
  <2> HIDE DEF dead
  <2>2. CallTypes'
    BY <1>1, <2>1, CallsEndTyped, Zenon
  <2>3. NoCall.pc \notin {"seed", "mark", "wait", "register"}
    BY <1>5
  <2>4. ASSUME NEW x \in Clients \X Slots PROVE CallMoves(x)
    <3>1. calls'[x] = NoCall \/ calls'[x] = calls[x]
      BY <1>2, <2>1, Zenon
    <3> QED BY <1>1, <2>3, <3>1, CallStays, Zenon DEF CallMoves
  <2> QED BY <2>2, <2>4, Zenon DEF CallStep
<1> QED BY <1>7, <1>8, <1>9, <1>10, <1>11, <1>12, <1>13, <1>15, <1>16, <1>17, <1>18, <1>19, <1>20, <1>21, <1>22, <1>23,
           Zenon DEF Next

-----------------------------------------------------------------------------
(* Types of the clients and of their batches. *)

\* A client that held this identity has the answer to an EndTxn under it.
EndAnswered(pid, epoch) == \E e \in ended : e.pid = pid /\ e.epoch = epoch

\* What a step may do to the client c.
ClientMoves(c) ==
    \/ /\ cl'[c].pid = cl[c].pid /\ cl'[c].epoch = cl[c].epoch /\ cl'[c].seq = cl[c].seq
       /\ cl'[c].sent = cl[c].sent /\ cl'[c].out \subseteq cl[c].out
       /\ cl[c].added => cl'[c].added \/ \E e \in ended' : e.pid = cl[c].pid /\ e.epoch = cl[c].epoch
    \/ \E p \in Partitions, n \in BatchSizes, r \in Replicas : Send(c, p, n, r)
    \/ /\ Seed(<<c, "main">>) /\ cl'[c].pid = calls[<<c, "main">>].pid /\ cl'[c].epoch = calls[<<c, "main">>].epoch
       /\ cl'[c].seq = [p \in Partitions |-> 0] /\ cl'[c].sent = cl[c].sent /\ cl'[c].out = {}
    \/ cl'[c].pid = -1 /\ cl'[c].sent = cl[c].sent /\ cl'[c].out = {}

ClientStep(top) == cl' \in [Clients -> ClientSet(top)] /\ \A c \in Clients : ClientMoves(c)

\* A client that keeps what matters moves.
LEMMA ClientStays ==
    ASSUME NEW c, cl'[c].pid = cl[c].pid, cl'[c].epoch = cl[c].epoch, cl'[c].seq = cl[c].seq,
           cl'[c].sent = cl[c].sent, cl'[c].out \subseteq cl[c].out, cl'[c].added = cl[c].added
    PROVE  ClientMoves(c)
BY Zenon DEF ClientMoves

\* No client moves.
LEMMA NoClientMoves ==
    ASSUME NEW top, ClientTypes(top), cl' = cl
    PROVE  ClientStep(top)
<1>1. \A c \in Clients : ClientMoves(c)
  BY ClientStays, Zenon
<1> QED BY <1>1, Zenon DEF ClientStep, ClientTypes

\* One client moves and the others stay.
LEMMA OneClientMoves ==
    ASSUME NEW top, ClientTypes(top), NEW c \in Clients, NEW f \in ClientSet(top),
           cl' = [cl EXCEPT ![c] = f], cl'[c] = f => ClientMoves(c)
    PROVE  ClientStep(top)
<1>1. cl \in [Clients -> ClientSet(top)]
  BY Zenon DEF ClientTypes
<1>2. /\ cl' \in [Clients -> ClientSet(top)] /\ cl'[c] = f
      /\ \A d \in Clients : d # c => cl'[d] = cl[d]
  BY <1>1
<1>3. \A d \in Clients : ClientMoves(d)
  BY <1>2, ClientStays, Zenon
<1> QED BY <1>2, <1>3, Zenon DEF ClientStep

\* The clients of failed calls move.
LEMMA ErrorsMove ==
    ASSUME NEW top, ClientTypes(top), NEW dead, NEW fenced, cl' = AfterErrors(cl, dead, fenced)
    PROVE  ClientStep(top)
<1>1. cl \in [Clients -> ClientSet(top)]
  BY Zenon DEF ClientTypes
<1>2. Keep(top, cl, cl')
  BY <1>1, AfterErrorsTyped, Zenon
<1>3. \A c \in Clients : ClientMoves(c)
  BY <1>2, ClientStays, Zenon DEF Keep
<1> QED BY <1>2, <1>3, Zenon DEF ClientStep, Keep

\* A new client has its type, and no identity.
LEMMA NewClientTyped ==
    ASSUME Given, NEW top
    PROVE  /\ NewClient \in ClientSet(top) /\ NewClient.pid = -1 /\ NewClient.out = {}
           /\ NewClient.seq = [p \in Partitions |-> 0]
<1> DEFINE zero == [p \in Partitions |-> 0]
<1>1. zero \in [Partitions -> 0..IMax]
  BY DEF Given, ProducerLogAssumption
<1>2. NewClient = [ pc |-> "start", pid |-> -1, epoch |-> -1, seq |-> zero, sent |-> 0, out |-> {}, txn |-> 0,
                    added |-> FALSE, staged |-> FALSE, want |-> "none" ]
  BY Zenon DEF NewClient
<1> HIDE DEF zero
<1>3. NewClient \in ClientSet(top) /\ NewClient.pid = -1 /\ NewClient.out = {} /\ NewClient.seq = zero
  BY <1>1, <1>2 DEF ClientSet, ClientPcs
<1> QED BY <1>3, Zenon DEF zero

\* The client whose call succeeded moves.
LEMMA SuccessMoves ==
    ASSUME Given, NEW top, ClientTypes(top), NEW x \in Clients \X Slots, Succeed(x)
    PROVE  ClientStep(top)
<1> DEFINE c == x[1]
           k == cl[c]
           again == [k EXCEPT !.pc = "ready", !.added = FALSE, !.staged = FALSE, !.want = "none"]
           fresh == [NewClient EXCEPT !.txn = k.txn, !.sent = k.sent]
           told == [c |-> c, txn |-> cl[c].txn, pid |-> cl[c].pid, epoch |-> cl[c].epoch,
                    commit |-> calls[x].commit, staged |-> cl[c].staged]
           Tells == ended' = ended \cup {told}
<1>1. c \in Clients
  OBVIOUS
<1>2. k \in ClientSet(top)
  BY <1>1, Zenon DEF ClientTypes
<1>3. \/ cl' = cl
      \/ Tells /\ cl' = [cl EXCEPT ![c] = again]
      \/ cl' = [cl EXCEPT ![c] = fresh]
  BY Zenon DEF Succeed, AfterEnd
<1>4. CASE cl' = cl
  BY <1>4, NoClientMoves, Zenon
<1>5. CASE Tells /\ cl' = [cl EXCEPT ![c] = again]
  <2>3. \E e \in ended' : e.pid = cl[c].pid /\ e.epoch = cl[c].epoch
    <3>1. told.pid = cl[c].pid /\ told.epoch = cl[c].epoch
      OBVIOUS
    <3>2. told \in ended'
      <4> HIDE DEF told
      <4> QED BY <1>5, Zenon
    <3> HIDE DEF told
    <3> QED BY <3>1, <3>2, Zenon
  <2>1. /\ again \in ClientSet(top) /\ again.pid = k.pid /\ again.epoch = k.epoch /\ again.seq = k.seq
        /\ again.sent = k.sent /\ again.out = k.out
    <3> HIDE DEF k
    <3> QED BY <1>2, Zenon DEF ClientSet, ClientPcs
  <2> HIDE DEF again
  <2>2. cl'[c] = again => ClientMoves(c)
    BY <1>5, <2>1, <2>3, Zenon DEF ClientMoves
  <2> QED BY <1>1, <1>5, <2>1, <2>2, OneClientMoves, Zenon
<1>6. CASE cl' = [cl EXCEPT ![c] = fresh]
  <2>1. k.txn \in Nat /\ k.sent \in Nat
    BY <1>2 DEF ClientSet
  <2>2. NewClient \in ClientSet(top) /\ NewClient.pid = -1 /\ NewClient.out = {}
    BY NewClientTyped, Zenon
  <2>4. fresh \in ClientSet(top) /\ fresh.pid = -1 /\ fresh.sent = k.sent /\ fresh.out = {}
    <3> HIDE DEF k
    <3> QED BY <2>1, <2>2, Zenon DEF ClientSet
  <2> HIDE DEF fresh
  <2>5. cl'[c] = fresh => ClientMoves(c)
    BY <2>4, Zenon DEF ClientMoves
  <2> QED BY <1>1, <1>6, <2>4, <2>5, OneClientMoves, Zenon
<1> QED BY <1>3, <1>4, <1>5, <1>6, Zenon

\* A batch a client sends has its type; without a wrap, also the type of one that does not wrap.
LEMMA DataRequestTyped ==
    ASSUME Given, NEW top \in {IMax, 2 * IMax}, ClientTypes(top),
           top = IMax => Room, NEW c \in Clients, NEW p \in Partitions, NEW n \in BatchSizes
    PROVE  /\ DataRequest(c, p, n) \in DataRequests(top)
           /\ NextSequence(cl[c].seq[p], n) \in 0..IMax
           /\ top = IMax => NextSequence(cl[c].seq[p], n) = cl[c].seq[p] + n
<1> DEFINE k == cl[c]
           base == k.seq[p]
           id == [c |-> c, txn |-> k.txn, k |-> k.sent + 1]
           next == k.out = {}
<1>1. IMax \in Nat /\ n \in 1..IMax
  BY Zenon DEF Given, ProducerLogAssumption, TransactionsAssumption
<1>2. k \in ClientSet(top)
  BY Zenon DEF ClientTypes
<1>3. k.pid \in Int /\ k.epoch \in Int /\ k.seq \in [Partitions -> 0..IMax] /\ k.sent \in Nat /\ k.txn \in Nat
  BY <1>2 DEF ClientSet
<1>4. base \in 0..IMax
  BY <1>3, Zenon
<1>5. top = IMax => base + n <= IMax
  BY Zenon DEF Room
<1>6. base + n <= top
  <2> HIDE DEF base
  <2> QED BY <1>1, <1>4, <1>5
<1>7. id \in BatchIds
  <2>1. k.sent + 1 \in Nat
    BY <1>3
  <2> HIDE DEF k
  <2> QED BY <1>3, <2>1 DEF BatchIds
<1>8. next \in BOOLEAN
  BY Zenon
<1>9. DataRequest(c, p, n) =
        [ kind |-> "data", c |-> c, part |-> p, pid |-> k.pid, epoch |-> k.epoch, base |-> base, n |-> n,
          control |-> FALSE, commit |-> FALSE, id |-> id, next |-> next ]
  BY Zenon DEF DataRequest
<1> HIDE DEF k, base, id, next
<1>10. DataRequest(c, p, n) \in DataRequests(top)
  BY <1>3, <1>4, <1>6, <1>7, <1>8, <1>9 DEF DataRequests
<1>11. NextSequence(base, n) \in 0..IMax
  BY <1>1, <1>4 DEF NextSequence
<1>12. top = IMax => NextSequence(base, n) = base + n
  BY <1>1, <1>4, <1>5 DEF NextSequence
<1> QED BY <1>10, <1>11, <1>12, Zenon DEF base, k

\* The client after it has sent the batch.
LEMMA SendEffect ==
    ASSUME Given, NEW top \in {IMax, 2 * IMax}, ClientTypes(top),
           top = IMax => Room, NEW c \in Clients, NEW p \in Partitions, NEW n \in BatchSizes, NEW r,
           Send(c, p, n, r)
    PROVE  /\ cl' \in [Clients -> ClientSet(top)] /\ \A d \in Clients : d # c => cl'[d] = cl[d]
           /\ cl'[c].pid = cl[c].pid /\ cl'[c].epoch = cl[c].epoch /\ cl'[c].sent = cl[c].sent + 1
           /\ cl'[c].out = cl[c].out \cup {DataRequest(c, p, n)}
           /\ cl'[c].added = cl[c].added
           /\ cl'[c].seq[p] = NextSequence(cl[c].seq[p], n)
           /\ \A u \in Partitions : u # p => cl'[c].seq[u] = cl[c].seq[u]
<1> DEFINE k == cl[c]
           q == DataRequest(c, p, n)
           seq == [k.seq EXCEPT ![p] = NextSequence(@, n)]
           f == [k EXCEPT !.seq = seq, !.sent = k.sent + 1, !.out = k.out \cup {q}]
<1>1. cl' = [cl EXCEPT ![c].seq[p] = NextSequence(@, n), ![c].sent = @ + 1, ![c].out = @ \cup {q}]
  BY Zenon DEF Send
<1>2. cl \in [Clients -> ClientSet(top)]
  BY Zenon DEF ClientTypes
<1>3. k \in ClientSet(top)
  BY <1>2, Zenon
<1>4. k.seq \in [Partitions -> 0..IMax] /\ k.sent \in Nat /\ k.out \subseteq DataRequests(top)
  BY <1>3 DEF ClientSet
<1>5. q \in DataRequests(top) /\ NextSequence(k.seq[p], n) \in 0..IMax
  BY DataRequestTyped, Zenon
<1>6. seq \in [Partitions -> 0..IMax] /\ k.sent + 1 \in Nat /\ k.out \cup {q} \in SUBSET DataRequests(top)
  <2>1. seq \in [Partitions -> 0..IMax]
    <3> HIDE DEF k
    <3> QED BY <1>4, <1>5
  <2>2. k.sent + 1 \in Nat
    BY <1>4
  <2>3. k.out \cup {q} \in SUBSET DataRequests(top)
    BY <1>4, <1>5, Zenon
  <2> QED BY <2>1, <2>2, <2>3, Zenon
<1>7. cl' = [cl EXCEPT ![c] = f]
  BY <1>1, <1>2, Zenon
<1>8. /\ f \in ClientSet(top) /\ f.pid = k.pid /\ f.epoch = k.epoch /\ f.sent = k.sent + 1
      /\ f.out = k.out \cup {q} /\ f.seq = seq
  <2> DEFINE more == k.sent + 1
             out == k.out \cup {q}
  <2> SUFFICES LET g == [k EXCEPT !.seq = seq, !.sent = more, !.out = out]
               IN  /\ g \in ClientSet(top) /\ g.pid = k.pid /\ g.epoch = k.epoch /\ g.sent = more
                   /\ g.out = out /\ g.seq = seq
    BY Zenon
  <2>1. seq \in [Partitions -> 0..IMax] /\ more \in Nat /\ out \in SUBSET DataRequests(top)
    BY <1>6, Zenon
  <2> HIDE DEF k, seq, more, out
  <2> QED BY <1>3, <2>1, Zenon DEF ClientSet
<1>9. f.added = k.added
  <2> HIDE DEF k, seq, q
  <2> QED BY <1>3 DEF ClientSet
<1> HIDE DEF f
<1>10. /\ cl' \in [Clients -> ClientSet(top)] /\ cl'[c] = f
       /\ \A d \in Clients : d # c => cl'[d] = cl[d]
  <2> HIDE DEF k, seq, q
  <2> QED BY <1>2, <1>7, <1>8
<1>11. seq[p] = NextSequence(k.seq[p], n) /\ \A u \in Partitions : u # p => seq[u] = k.seq[u]
  <2> HIDE DEF k
  <2> QED BY <1>4, Zenon
<1> HIDE DEF seq
<1> QED BY <1>8, <1>9, <1>10, <1>11, Zenon

\* Every step moves the clients in these ways.
LEMMA NextClientStep ==
    ASSUME Given, NEW top \in {IMax, 2 * IMax}, Types(top), Next,
           top = IMax => Room
    PROVE  ClientStep(top)
<1>0. top \in Int
  BY DEF Given, ProducerLogAssumption
<1>1. CallTypes /\ ClientTypes(top) /\ LedgerTypes
  BY Zenon DEF Types
<1>2. cl \in [Clients -> ClientSet(top)]
  BY <1>1, Zenon DEF ClientTypes
<1>3. ASSUME cl' = cl PROVE ClientStep(top)
  BY <1>1, <1>3, NoClientMoves, Zenon
<1>4. ASSUME NEW c \in Clients, NEW f \in ClientSet(top), cl' = [cl EXCEPT ![c] = f],
             f.pid = cl[c].pid, f.epoch = cl[c].epoch, f.seq = cl[c].seq, f.sent = cl[c].sent,
             f.out \subseteq cl[c].out, cl[c].added => f.added
      PROVE  ClientStep(top)
  <2>1. cl'[c] = f => ClientMoves(c)
    BY <1>4, Zenon DEF ClientMoves
  <2> QED BY <1>1, <1>4, <2>1, OneClientMoves, Zenon
<1>5. ASSUME NEW c \in Clients, NEW pc \in ClientPcs, NEW want \in {"none", "commit", "abort"},
             cl' = [cl EXCEPT ![c].pc = pc, ![c].want = want] \/ cl' = [cl EXCEPT ![c].pc = pc]
      PROVE  ClientStep(top)
  <2> DEFINE k == cl[c]
             f == [k EXCEPT !.pc = pc, !.want = want]
             g == [k EXCEPT !.pc = pc]
  <2>1. k \in ClientSet(top)
    BY <1>2, Zenon
  <2>2. CASE cl' = [cl EXCEPT ![c] = f]
    <3>1. /\ f \in ClientSet(top) /\ f.pid = k.pid /\ f.epoch = k.epoch /\ f.seq = k.seq
          /\ f.sent = k.sent /\ f.out = k.out
      <4> HIDE DEF k
      <4> QED BY <2>1, Zenon DEF ClientSet
    <3>2. f.added = k.added
      <4> HIDE DEF k
      <4> QED BY <2>1 DEF ClientSet
    <3> HIDE DEF f
    <3> QED BY <1>4, <2>2, <3>1, <3>2, Zenon
  <2>3. CASE cl' = [cl EXCEPT ![c] = g]
    <3>1. /\ g \in ClientSet(top) /\ g.pid = k.pid /\ g.epoch = k.epoch /\ g.seq = k.seq
          /\ g.sent = k.sent /\ g.out = k.out
      <4> HIDE DEF k
      <4> QED BY <2>1 DEF ClientSet
    <3>2. g.added = k.added
      <4> HIDE DEF k
      <4> QED BY <2>1 DEF ClientSet
    <3> HIDE DEF g
    <3> QED BY <1>4, <2>3, <3>1, <3>2, Zenon
  <2> QED BY <1>5, <2>2, <2>3, Zenon
<1>6. ASSUME NEW c \in Clients, NEW r \in Replicas, NEW p \in Partitions, NEW n \in BatchSizes, Send(c, p, n, r)
      PROVE  ClientStep(top)
  <2>1. cl' \in [Clients -> ClientSet(top)] /\ \A d \in Clients : d # c => cl'[d] = cl[d]
    BY <1>1, <1>6, SendEffect, Zenon
  <2>2. ClientMoves(c)
    BY <1>6, Zenon DEF ClientMoves
  <2>3. \A d \in Clients : ClientMoves(d)
    BY <2>1, <2>2, ClientStays, Zenon
  <2> QED BY <2>1, <2>3, Zenon DEF ClientStep
<1>7. ASSUME NEW c \in Clients, NEW r \in Replicas, Resend(c, r) PROVE ClientStep(top)
  BY <1>3, <1>7, Zenon DEF Resend
<1>8. "fenced" \in ClientPcs /\ "call" \in ClientPcs /\ "start" \in ClientPcs /\ "open" \in ClientPcs /\ "ready" \in ClientPcs
  BY DEF ClientPcs
<1>9. ASSUME NEW c \in Clients, AddPartitions(c) PROVE ClientStep(top)
  <2>1. CASE cl' = [cl EXCEPT ![c].pc = "fenced"]
    BY <1>5, <1>8, <2>1, Zenon
  <2>2. CASE cl' # [cl EXCEPT ![c].pc = "fenced"]
    <3> DEFINE k == cl[c]
               txn == IF cl[c].pc = "ready" THEN k.txn + 1 ELSE k.txn
               f == [k EXCEPT !.pc = "open", !.added = TRUE, !.txn = txn]
    <3>1. cl' = [cl EXCEPT ![c] = f]
      BY <1>9, <2>2, Zenon DEF AddPartitions
    <3>2. k \in ClientSet(top)
      BY <1>2, Zenon
    <3>3. txn \in Nat
      <4>1. k.txn \in Nat
        BY <3>2 DEF ClientSet
      <4>2. k.txn + 1 \in Nat
        BY <4>1
      <4> QED BY <4>1, <4>2, Zenon
    <3>4. /\ f \in ClientSet(top) /\ f.pid = k.pid /\ f.epoch = k.epoch /\ f.seq = k.seq
          /\ f.sent = k.sent /\ f.out = k.out
      <4> HIDE DEF k, txn
      <4> QED BY <3>2, <3>3, Zenon DEF ClientSet, ClientPcs
    <3>5. f.added = TRUE
      <4> HIDE DEF k, txn
      <4> QED BY <3>2, <3>3 DEF ClientSet
    <3> HIDE DEF f
    <3> QED BY <1>4, <3>1, <3>4, <3>5, Zenon
  <2> QED BY <2>1, <2>2, Zenon
<1>10. ASSUME NEW c \in Clients, StageOffsets(c) PROVE ClientStep(top)
  <2>1. CASE cl' = [cl EXCEPT ![c].pc = "fenced"]
    BY <1>5, <1>8, <2>1, Zenon
  <2>2. CASE cl' # [cl EXCEPT ![c].pc = "fenced"]
    <3> DEFINE k == cl[c]
               txn == IF cl[c].pc = "ready" THEN k.txn + 1 ELSE k.txn
               f == [k EXCEPT !.pc = "open", !.txn = txn, !.staged = TRUE]
    <3>1. cl' = [cl EXCEPT ![c] = f]
      BY <1>10, <2>2, Zenon DEF StageOffsets
    <3>2. k \in ClientSet(top)
      BY <1>2, Zenon
    <3>3. txn \in Nat
      <4>1. k.txn \in Nat
        BY <3>2 DEF ClientSet
      <4>2. k.txn + 1 \in Nat
        BY <4>1
      <4> QED BY <4>1, <4>2, Zenon
    <3>4. /\ f \in ClientSet(top) /\ f.pid = k.pid /\ f.epoch = k.epoch /\ f.seq = k.seq
          /\ f.sent = k.sent /\ f.out = k.out
      <4> HIDE DEF k, txn
      <4> QED BY <3>2, <3>3, Zenon DEF ClientSet, ClientPcs
    <3>5. f.added = k.added
      <4> HIDE DEF k, txn
      <4> QED BY <3>2, <3>3 DEF ClientSet
    <3> HIDE DEF f
    <3> QED BY <1>4, <3>1, <3>4, <3>5, Zenon
  <2> QED BY <2>1, <2>2, Zenon
<1>11. ASSUME NEW c \in Clients, NEW r \in Replicas, StartInit(c, r) PROVE ClientStep(top)
  <2>1. cl' = [cl EXCEPT ![c].pc = "call"]
    BY <1>11, Zenon DEF StartInit
  <2> QED BY <1>5, <1>8, <2>1, Zenon
<1>12. ASSUME NEW c \in Clients, NEW r \in Replicas, NEW commit \in BOOLEAN, StartEnd(c, commit, r)
       PROVE  ClientStep(top)
  <2>1. cl' = [cl EXCEPT ![c].pc = "call", ![c].want = IF commit THEN "commit" ELSE "abort"]
    BY <1>12, Zenon DEF StartEnd
  <2>2. (IF commit THEN "commit" ELSE "abort") \in {"none", "commit", "abort"}
    BY Zenon
  <2> QED BY <1>5, <1>8, <2>1, <2>2, Zenon
<1>13. ASSUME NEW c \in Clients, Abandon(c) PROVE ClientStep(top)
  <2>1. cl' = [cl EXCEPT ![c].pc = IF cl[c].want = "none" THEN "start" ELSE "open"]
    BY <1>13, Zenon DEF Abandon
  <2>2. (IF cl[c].want = "none" THEN "start" ELSE "open") \in ClientPcs
    BY <1>8, Zenon
  <2> QED BY <1>5, <2>1, <2>2, Zenon
<1>14. ASSUME NEW x \in Clients \X Slots, InitCas(x) PROVE ClientStep(top)
  BY <1>3, <1>14, Zenon DEF InitCas
<1>15. ASSUME NEW x \in Clients \X Slots, Seed(x) PROVE ClientStep(top)
  <2> DEFINE c == x[1]
             k == cl[c]
             call == calls[x]
             f == [NewClient EXCEPT !.pc = "ready", !.pid = call.pid, !.epoch = call.epoch, !.txn = k.txn, !.sent = k.sent]
  <2>1. \/ cl' = cl \/ (x[2] = "main" /\ cl' = [cl EXCEPT ![c] = f])
        \/ cl' = AfterErrors(cl, {x}, FALSE)
    BY <1>15, Zenon DEF Seed
  <2>2. CASE x[2] = "main" /\ cl' = [cl EXCEPT ![c] = f]
    <3>1. x = <<c, "main">> /\ c \in Clients
      BY <2>2
    <3>2. k \in ClientSet(top) /\ call \in CallSet
      BY <1>1, <1>2, <3>1, Zenon DEF CallTypes
    <3>3. k.txn \in Nat /\ k.sent \in Nat /\ call.pid \in Int /\ call.epoch \in Int
      BY <3>2 DEF ClientSet, CallSet
    <3>4. /\ NewClient \in ClientSet(top) /\ NewClient.out = {} /\ NewClient.seq = [p \in Partitions |-> 0]
      BY NewClientTyped, Zenon
    <3>5. /\ f \in ClientSet(top) /\ f.pid = call.pid /\ f.epoch = call.epoch /\ f.seq = NewClient.seq
          /\ f.sent = k.sent /\ f.out = NewClient.out
      <4> HIDE DEF k, call
      <4> QED BY <3>3, <3>4, Zenon DEF ClientSet, ClientPcs
    <3> HIDE DEF f
    <3>6. cl'[c] = f => ClientMoves(c)
      BY <1>15, <3>1, <3>4, <3>5, Zenon DEF ClientMoves
    <3> QED BY <1>1, <2>2, <3>1, <3>5, <3>6, OneClientMoves, Zenon
  <2> QED BY <1>1, <1>3, <2>1, <2>2, ErrorsMove, Zenon
<1>16. ASSUME NEW x \in Clients \X Slots, Succeed(x) \/ \E fenced : Err(x, fenced) PROVE ClientStep(top)
  <2>1. CASE Succeed(x)
    BY <1>1, <2>1, SuccessMoves, Zenon
  <2>2. ASSUME NEW fenced, Err(x, fenced) PROVE ClientStep(top)
    <3>1. cl' = AfterErrors(cl, {x}, fenced)
      BY <2>2, Zenon DEF Err
    <3> QED BY <1>1, <3>1, ErrorsMove, Zenon
  <2> QED BY <1>16, <2>1, <2>2, Zenon
<1>17. ASSUME NEW x \in Clients \X Slots, Prepare(x) PROVE ClientStep(top)
  <2>1. cl' = cl \/ \E fenced : Err(x, fenced)
    BY <1>17, Zenon DEF Prepare
  <2> QED BY <1>3, <1>16, <2>1, Zenon
<1>18. ASSUME NEW x \in Clients \X Slots, Mark(x) \/ RegisterMarker(x) PROVE ClientStep(top)
  BY <1>3, <1>18, Zenon DEF Mark, RegisterMarker
<1>19. ASSUME NEW x \in Clients \X Slots, Resolve(x) PROVE ClientStep(top)
  <2>1. cl' = cl \/ Succeed(x) \/ \E fenced : Err(x, fenced)
    BY <1>19, Zenon DEF Resolve
  <2> QED BY <1>3, <1>16, <2>1, Zenon
<1>20. ASSUME NEW x \in Clients \X Slots, CommitOffsets(x) PROVE ClientStep(top)
  <2>1. Succeed(x) \/ \E fenced : Err(x, fenced)
    BY <1>20, Zenon DEF CommitOffsets
  <2> QED BY <1>16, <2>1, Zenon
<1>21. ASSUME NEW g \in regs, Register(g) PROVE ClientStep(top)
  <2> DEFINE c == g.q.c
             k == cl[c]
             left == {q \in k.out : q.id # g.q.id}
             f == [k EXCEPT !.out = left]
  <2>1. cl' = cl \/ cl' = [cl EXCEPT ![c] = f]
    BY <1>21, Zenon DEF Register
  <2>2. g.q \in DataRequests(top)
    <3>1. g \in [q : DataRequests(top), off : Nat, at : Replicas]
      BY <1>1, Zenon DEF ClientTypes
    <3> QED BY <3>1
  <2>3. c \in Clients
    BY <2>2, Zenon DEF DataRequests
  <2>4. k \in ClientSet(top)
    BY <1>2, <2>3, Zenon
  <2>5. k.out \subseteq DataRequests(top)
    BY <2>4 DEF ClientSet
  <2>6. left \subseteq k.out /\ left \in SUBSET DataRequests(top)
    BY <2>5, Zenon
  <2>7. /\ f \in ClientSet(top) /\ f.pid = k.pid /\ f.epoch = k.epoch /\ f.seq = k.seq
        /\ f.sent = k.sent /\ f.out = left
    <3> HIDE DEF k, left
    <3> QED BY <2>4, <2>6 DEF ClientSet
  <2>8. f.added = k.added
    <3> HIDE DEF k, left
    <3> QED BY <2>4, <2>6 DEF ClientSet
  <2> HIDE DEF f
  <2> QED BY <1>3, <1>4, <2>1, <2>3, <2>6, <2>7, <2>8, Zenon
<1>22. ASSUME Rest0 PROVE ClientStep(top)
  BY <1>3, <1>22, Zenon DEF Rest0
<1>23. ASSUME NEW r \in Replicas, FlushWon(r) \/ FlushEmpty(r) \/ FlushFailed(r) PROVE ClientStep(top)
  <2>1. PICK out : FlushAnswered(top, r, out)
    BY <1>0, <1>23, FlushEnds, Zenon
  <2>2. /\ cl' \in [Clients -> ClientSet(top)]
        /\ \A c \in Clients : /\ cl'[c].pid = cl[c].pid /\ cl'[c].epoch = cl[c].epoch /\ cl'[c].seq = cl[c].seq
                              /\ cl'[c].sent = cl[c].sent /\ cl'[c].out \subseteq cl[c].out
                              /\ cl'[c].added = cl[c].added
    BY <2>1, Zenon DEF FlushAnswered, Delivered1
  <2>3. \A c \in Clients : ClientMoves(c)
    BY <2>2, ClientStays, Zenon
  <2> QED BY <2>2, <2>3, Zenon DEF ClientStep
<1>24. ASSUME NEW r \in Replicas, Crash(r) PROVE ClientStep(top)
  <2>1. \E dead : cl' = AfterErrors(cl, dead, FALSE)
    BY <1>24, Zenon DEF Crash
  <2> QED BY <1>1, <2>1, ErrorsMove, Zenon
<1> QED BY <1>6, <1>7, <1>9, <1>10, <1>11, <1>12, <1>13, <1>14, <1>15, <1>17, <1>18, <1>19, <1>20, <1>21, <1>22, <1>23,
           <1>24, Zenon DEF Next

\* The answers a step gives: none, or those of a flush that ends.
LEMMA NextAnswers ==
    ASSUME Given, NEW top \in Int, Types(top), Next
    PROVE  \/ regs' \subseteq regs /\ UNCHANGED <<acks, refused>>
           \/ \E r \in Replicas : \E out : FlushAnswered(top, r, out)
<1> DEFINE Quiet == regs' \subseteq regs /\ UNCHANGED <<acks, refused>>
<1>1. ASSUME NEW c \in Clients, NEW r \in Replicas,
             \/ \E p \in Partitions, n \in BatchSizes : Send(c, p, n, r)
             \/ Resend(c, r) \/ StartInit(c, r) \/ \E commit \in BOOLEAN : StartEnd(c, commit, r)
      PROVE  Quiet
  BY <1>1, Zenon DEF Send, Resend, StartInit, StartEnd, history
<1>2. ASSUME NEW c \in Clients, AddPartitions(c) \/ StageOffsets(c) \/ Abandon(c) PROVE Quiet
  BY <1>2, Zenon DEF AddPartitions, StageOffsets, Abandon, history
<1>3. ASSUME NEW x \in Clients \X Slots, InitCas(x) \/ Seed(x) \/ Prepare(x) \/ Mark(x) PROVE Quiet
  BY <1>3, Zenon DEF InitCas, Seed, Prepare, Mark, history
<1>4. ASSUME NEW x \in Clients \X Slots, RegisterMarker(x) \/ Resolve(x) \/ CommitOffsets(x) PROVE Quiet
  BY <1>4, Zenon DEF RegisterMarker, Resolve, CommitOffsets, history
<1>5. ASSUME NEW g \in regs, Register(g) PROVE Quiet
  BY <1>5, Zenon DEF Register, history
<1>6. ASSUME Rest0 PROVE Quiet
  BY <1>6, Zenon DEF Rest0, history
<1>7. ASSUME NEW r \in Replicas, Crash(r) PROVE Quiet
  BY <1>7, Zenon DEF Crash
<1>8. ASSUME NEW r \in Replicas, FlushWon(r) \/ FlushEmpty(r) \/ FlushFailed(r)
      PROVE  \E out : FlushAnswered(top, r, out)
  BY <1>8, FlushEnds, Zenon
<1> QED BY <1>1, <1>2, <1>3, <1>4, <1>5, <1>6, <1>7, <1>8, Zenon DEF Next

\* A request of kind data is a batch.
LEMMA DataKind ==
    ASSUME NEW top, NEW q \in Requests(top)
    PROVE  /\ q.kind = "data" => q \in DataRequests(top)
           /\ q \in DataRequests(top) => q.control = FALSE /\ q.id \in BatchIds /\ q.part \in Partitions
           /\ q \in MarkerRequests => q.control = TRUE
<1>1. q \in MarkerRequests => q.kind = "marker" /\ q.control = TRUE
  BY Zenon DEF MarkerRequests
<1>2. q.kind = "marker" => q.kind # "data"
  OBVIOUS
<1>3. q \in DataRequests(top) => q.control = FALSE /\ q.id \in BatchIds /\ q.part \in Partitions
  BY Zenon DEF DataRequests
<1> QED BY <1>1, <1>2, <1>3, Zenon DEF Requests

\* The clients' variables keep their types.
LEMMA ClientTypesStep ==
    ASSUME Given, NEW top \in {IMax, 2 * IMax}, Types(top), Next,
           top = IMax => Room
    PROVE  ClientTypes(top)'
<1>0. top \in Int
  BY DEF Given, ProducerLogAssumption
<1>1. cl' \in [Clients -> ClientSet(top)]
  BY NextClientStep, Zenon DEF ClientStep
<1>2. /\ regs \subseteq [q : DataRequests(top), off : Nat, at : Replicas]
      /\ acks \subseteq [id : BatchIds, part : Partitions, off : Nat] /\ refused \subseteq DataRequests(top)
  BY Zenon DEF Types, ClientTypes
<1>3. CASE regs' \subseteq regs /\ UNCHANGED <<acks, refused>>
  <2>1. acks' = acks /\ refused' = refused
    BY <1>3, Zenon
  <2> QED BY <1>1, <1>2, <1>3, <2>1, Zenon DEF ClientTypes
<1>4. ASSUME NEW r \in Replicas, NEW out, FlushAnswered(top, r, out) PROVE ClientTypes(top)'
  <2> DEFINE reqs == flush[r].reqs
  <2>1. flush[r] \in Flushes(top)
    BY Zenon DEF Types, LogTypes
  <2>2. reqs \in Seq(Requests(top))
    BY <2>1 DEF Flushes
  <2>3. out \in Seq(Answers) /\ DOMAIN reqs = DOMAIN out /\ Delivered1(top, r, reqs, out)
    BY <1>4, Zenon DEF FlushAnswered
  <2> HIDE DEF reqs
  <2>4. ASSUME NEW k \in DOMAIN reqs, reqs[k].kind = "data"
        PROVE  /\ reqs[k] \in DataRequests(top) /\ reqs[k].id \in BatchIds /\ reqs[k].part \in Partitions
               /\ out[k].class = "ok" => out[k].off \in Nat
    <3>1. reqs[k] \in Requests(top)
      BY <2>2
    <3>2. out[k] \in Answers
      BY <2>3
    <3>3. out[k].class = "ok" => out[k].off \in Nat
      BY <3>2 DEF Answers
    <3> QED BY <2>4, <3>1, <3>3, DataKind, Zenon
  <2>5. ASSUME NEW g \in regs' PROVE g \in [q : DataRequests(top), off : Nat, at : Replicas]
    <3>1. CASE g \in regs
      BY <1>2, <3>1, Zenon
    <3>2. ASSUME NEW k \in DOMAIN reqs, reqs[k].kind = "data", out[k].class = "ok",
                 g = [q |-> reqs[k], off |-> out[k].off, at |-> r]
          PROVE  g \in [q : DataRequests(top), off : Nat, at : Replicas]
      <4>1. reqs[k] \in DataRequests(top) /\ out[k].off \in Nat
        BY <2>4, <3>2, Zenon
      <4> QED BY <3>2, <4>1
    <3> QED BY <2>3, <3>1, <3>2, Zenon DEF Delivered1
  <2>6. ASSUME NEW a \in acks' PROVE a \in [id : BatchIds, part : Partitions, off : Nat]
    <3>1. CASE a \in acks
      BY <1>2, <3>1, Zenon
    <3>2. ASSUME NEW k \in DOMAIN reqs, reqs[k].kind = "data", out[k].class = "ok",
                 a = [id |-> reqs[k].id, part |-> reqs[k].part, off |-> out[k].off]
          PROVE  a \in [id : BatchIds, part : Partitions, off : Nat]
      <4>1. reqs[k].id \in BatchIds /\ reqs[k].part \in Partitions /\ out[k].off \in Nat
        BY <2>4, <3>2, Zenon
      <4> QED BY <3>2, <4>1
    <3> QED BY <2>3, <3>1, <3>2, Zenon DEF Delivered1
  <2>7. ASSUME NEW q \in refused' PROVE q \in DataRequests(top)
    <3>1. q \in refused \/ \E k \in DOMAIN reqs : reqs[k].kind = "data" /\ q = reqs[k]
      BY <2>3, Zenon DEF Delivered1
    <3>2. ASSUME NEW k \in DOMAIN reqs, reqs[k].kind = "data", q = reqs[k] PROVE q \in DataRequests(top)
      BY <2>4, <3>2, Zenon
    <3> QED BY <1>2, <3>1, <3>2, Zenon
  <2> QED BY <1>1, <2>5, <2>6, <2>7, Zenon DEF ClientTypes
<1> QED BY <1>0, <1>3, <1>4, NextAnswers, Zenon

\* A marker has the type of a request.
LEMMA MarkerTyped ==
    ASSUME CallTypes, NEW x \in Clients \X Slots, NEW p \in calls[x].todo
    PROVE  MarkerRequest(x, p) \in MarkerRequests
<1> DEFINE call == calls[x]
           id == [c |-> x[1], num |-> call.num, begun |-> call.begun]
<1>1. call \in CallSet /\ x[1] \in Clients
  BY DEF CallTypes
<1>2. /\ call.pid \in Int /\ call.epoch \in Int /\ call.todo \subseteq Partitions /\ call.num \in Nat
      /\ call.begun \in Nat
  BY <1>1 DEF CallSet
<1>3. call.commit \in BOOLEAN
  BY <1>1 DEF CallSet
<1>4. id \in MarkerIds /\ p \in Partitions
  BY <1>1, <1>2 DEF MarkerIds
<1>5. MarkerRequest(x, p) =
        [ kind |-> "marker", c |-> x[1], part |-> p, pid |-> call.pid, epoch |-> call.epoch, base |-> -1, n |-> 1,
          control |-> TRUE, commit |-> call.commit, id |-> id, next |-> FALSE ]
  BY Zenon DEF MarkerRequest
<1> HIDE DEF call, id
<1> QED BY <1>1, <1>2, <1>3, <1>4, <1>5 DEF MarkerRequests

\* A batch sent again keeps its type.
LEMMA ResentTyped ==
    ASSUME NEW top, NEW q \in DataRequests(top), NEW b \in BOOLEAN
    PROVE  [q EXCEPT !.next = b] \in DataRequests(top)
BY Zenon DEF DataRequests

\* Every step does one of these things to the log.
LEMMA NextLogStep ==
    ASSUME Given, NEW top \in {IMax, 2 * IMax}, Types(top), Next,
           top = IMax => Room
    PROVE  LogStep(top)
<1>0. CallTypes /\ ClientTypes(top)
  BY Zenon DEF Types
<1>1. ASSUME NEW c \in Clients, NEW r \in Replicas, NEW p \in Partitions, NEW n \in BatchSizes, Send(c, p, n, r)
      PROVE  LogStep(top)
  <2>1. DataRequest(c, p, n) \in Requests(top)
    BY <1>0, DataRequestTyped, Zenon DEF Requests
  <2>2. Park(r, DataRequest(c, p, n)) /\ UNCHANGED <<segments, folded, flush, late>>
    BY <1>1, Zenon DEF Send
  <2>3. Origin(DataRequest(c, p, n))
    BY <1>1, Zenon DEF Origin
  <2> QED BY <2>1, <2>2, <2>3, Zenon DEF LogStep
<1>2. ASSUME NEW c \in Clients, NEW r \in Replicas, Resend(c, r) PROVE LogStep(top)
  <2>1. PICK q \in cl[c].out : Park(r, [q EXCEPT !.next = \A u \in cl[c].out : q.id.k <= u.id.k])
    BY <1>2, Zenon DEF Resend
  <2> DEFINE b == \A u \in cl[c].out : q.id.k <= u.id.k
  <2>2. UNCHANGED <<segments, folded, flush, late>>
    BY <1>2, Zenon DEF Resend
  <2>3. cl[c] \in ClientSet(top)
    BY <1>0, Zenon DEF ClientTypes
  <2>4. cl[c].out \subseteq DataRequests(top)
    BY <2>3 DEF ClientSet
  <2>5. q \in DataRequests(top)
    BY <2>4, Zenon
  <2>6. b \in BOOLEAN
    BY Zenon
  <2>7. [q EXCEPT !.next = b] \in Requests(top)
    BY <2>5, <2>6, ResentTyped, Zenon DEF Requests
  <2>8. Park(r, [q EXCEPT !.next = b])
    BY <2>1, Zenon
  <2> HIDE DEF b
  <2>9. Origin([q EXCEPT !.next = b])
    BY <2>6, Zenon DEF Origin
  <2> QED BY <2>2, <2>7, <2>8, <2>9, Zenon DEF LogStep
<1>3. ASSUME NEW x \in Clients \X Slots, Mark(x) PROVE LogStep(top)
  <2>1. PICK p \in calls[x].todo : Park(calls[x].at, MarkerRequest(x, p))
    BY <1>3, Zenon DEF Mark
  <2>2. UNCHANGED <<segments, folded, flush, late>>
    BY <1>3, Zenon DEF Mark
  <2>3. MarkerRequest(x, p) \in Requests(top)
    BY <1>0, MarkerTyped, Zenon DEF Requests
  <2>4. Origin(MarkerRequest(x, p))
    BY <1>3, Zenon DEF Origin
  <2> QED BY <2>1, <2>2, <2>3, <2>4, Zenon DEF LogStep
<1>4. ASSUME NEW c \in Clients, NEW r \in Replicas,
             StartInit(c, r) \/ \E commit \in BOOLEAN : StartEnd(c, commit, r)
      PROVE  LogStep(top)
  BY <1>4, Zenon DEF StartInit, StartEnd, LogStep
<1>5. ASSUME NEW c \in Clients, AddPartitions(c) \/ StageOffsets(c) \/ Abandon(c) PROVE LogStep(top)
  BY <1>5, Zenon DEF AddPartitions, StageOffsets, Abandon, LogStep
<1>6. ASSUME NEW x \in Clients \X Slots, InitCas(x) \/ Seed(x) \/ Prepare(x) PROVE LogStep(top)
  BY <1>6, Zenon DEF InitCas, Seed, Prepare, LogStep
<1>7. ASSUME NEW x \in Clients \X Slots, RegisterMarker(x) \/ Resolve(x) \/ CommitOffsets(x) PROVE LogStep(top)
  BY <1>7, Zenon DEF RegisterMarker, Resolve, CommitOffsets, LogStep
<1>8. ASSUME NEW g \in regs, Register(g) PROVE LogStep(top)
  BY <1>8, Zenon DEF Register, LogStep
<1>9. ASSUME NEW r \in Replicas, TakeWindow(r) \/ Attempt(r) \/ PutLost(r) PROVE LogStep(top)
  BY <1>9, Zenon DEF LogStep
<1>10. ASSUME NEW r \in Replicas, FlushWon(r) \/ FlushEmpty(r) \/ FlushFailed(r) PROVE LogStep(top)
  BY <1>10, Zenon DEF LogStep, FlushWon, FlushEmpty, FlushFailed
<1>11. ASSUME NEW r \in Replicas, Crash(r) PROVE LogStep(top)
  BY <1>11, Zenon DEF LogStep, Crash
<1>12. ASSUME LatePut PROVE LogStep(top)
  BY <1>12, Zenon DEF LogStep
<1> QED BY <1>1, <1>2, <1>3, <1>4, <1>5, <1>6, <1>7, <1>8, <1>9, <1>10, <1>11, <1>12, Zenon DEF Next

-----------------------------------------------------------------------------
(* Types of the ledger. *)

\* What a step may do to the i-th epoch of t: its state, and how often a transaction has begun.
StateMoves(t, i) ==
    \/ /\ txns'[t].epochs[i].begun = txns[t].epochs[i].begun
       /\ \/ txns'[t].epochs[i].state = txns[t].epochs[i].state
          \/ \E x \in Clients \X Slots :
               /\ Prepare(x) /\ t = TidOf[x[1]] /\ i = calls[x].epoch + 1
               /\ Current(t, calls[x].pid, calls[x].epoch)
               /\ txns[t].epochs[i].state = "Begin"
               /\ txns'[t].epochs[i].state = IF calls[x].commit THEN "PrepareCommit" ELSE "PrepareAbort"
          \/ txns[t].epochs[i].state \in {"none", "PrepareCommit"} /\ txns'[t].epochs[i].state = "Committed"
          \/ txns[t].epochs[i].state = "PrepareAbort" /\ txns'[t].epochs[i].state = "Aborted"
    \/ /\ txns'[t].epochs[i].begun = txns[t].epochs[i].begun + 1 /\ txns'[t].epochs[i].state = "Begin"
       /\ \E c \in Clients : /\ AddPartitions(c) /\ t = TidOf[c] /\ i = cl[c].epoch + 1
                             /\ Current(t, cl[c].pid, cl[c].epoch) /\ ~cl[c].added

\* A step that gives out no identity: the ids, their producers and the number of their epochs stay.
LedgerKeeps ==
    /\ lastPid' = lastPid
    /\ \A t \in Tids : /\ txns'[t].producer = txns[t].producer
                       /\ Len(txns'[t].epochs) = Len(txns[t].epochs)
                       /\ \A i \in 1..Len(txns[t].epochs) : StateMoves(t, i)

LedgerStep == LedgerTypes' /\ (LedgerKeeps \/ \E x \in Clients \X Slots : InitCas(x))

\* The ledger does not change.
LEMMA LedgerStays ==
    ASSUME LedgerTypes, lastPid' = lastPid, txns' = txns
    PROVE  LedgerStep
<1>1. LedgerKeeps
  BY Zenon DEF LedgerKeeps, StateMoves
<1>2. LedgerTypes'
  BY Zenon DEF LedgerTypes
<1> QED BY <1>1, <1>2, Zenon DEF LedgerStep

\* One epoch's detail changes.
LEMMA DetailChanges ==
    ASSUME LedgerTypes, lastPid' = lastPid, NEW t \in Tids, NEW i \in DOMAIN txns[t].epochs, NEW d \in TxnDetails,
           txns' = [txns EXCEPT ![t] = [txns[t] EXCEPT !.epochs = [txns[t].epochs EXCEPT ![i] = d]]],
           txns'[t].epochs[i] = d => StateMoves(t, i)
    PROVE  LedgerStep
<1> DEFINE T == [producer : Nat, epochs : Seq(TxnDetails)]
           was == txns[t]
           now == [was EXCEPT !.epochs = [was.epochs EXCEPT ![i] = d]]
<1>1. txns \in [Tids -> T] /\ lastPid \in Nat
  BY Zenon DEF LedgerTypes
<1>2. was \in T
  BY <1>1, Zenon
<1>3. was.epochs \in Seq(TxnDetails) /\ was.producer \in Nat
  BY <1>2
<1>4. /\ [was.epochs EXCEPT ![i] = d] \in Seq(TxnDetails)
      /\ Len([was.epochs EXCEPT ![i] = d]) = Len(was.epochs)
      /\ [was.epochs EXCEPT ![i] = d][i] = d
      /\ \A j \in 1..Len(was.epochs) : j # i => [was.epochs EXCEPT ![i] = d][j] = was.epochs[j]
  <2>1. i \in DOMAIN was.epochs
    BY Zenon
  <2> HIDE DEF was
  <2> QED BY <1>3, <2>1
<1>5. now \in T /\ now.producer = was.producer /\ now.epochs = [was.epochs EXCEPT ![i] = d]
  <2> DEFINE more == [was.epochs EXCEPT ![i] = d]
  <2>1. more \in Seq(TxnDetails) /\ now = [was EXCEPT !.epochs = more]
    BY <1>4, Zenon
  <2>2. /\ [was EXCEPT !.epochs = more] \in T /\ [was EXCEPT !.epochs = more].producer = was.producer
        /\ [was EXCEPT !.epochs = more].epochs = more
    <3> HIDE DEF was, more
    <3> QED BY <1>2, <2>1
  <2> QED BY <2>1, <2>2, Zenon
<1>6. txns' = [txns EXCEPT ![t] = now]
  BY Zenon
<1> HIDE DEF now, T
<1>7. txns' \in [Tids -> T] /\ txns'[t] = now /\ \A u \in Tids : u # t => txns'[u] = txns[u]
  BY <1>1, <1>5, <1>6
<1>8. LedgerTypes'
  BY <1>1, <1>7, Zenon DEF LedgerTypes, T
<1>9. /\ txns'[t].producer = txns[t].producer /\ Len(txns'[t].epochs) = Len(txns[t].epochs)
      /\ txns'[t].epochs[i] = d
      /\ \A j \in 1..Len(txns[t].epochs) : j # i => txns'[t].epochs[j] = txns[t].epochs[j]
  BY <1>4, <1>5, <1>7, Zenon
<1>10. StateMoves(t, i)
  BY <1>9, Zenon
<1>11. ASSUME NEW u \in Tids
       PROVE  /\ txns'[u].producer = txns[u].producer /\ Len(txns'[u].epochs) = Len(txns[u].epochs)
              /\ \A j \in 1..Len(txns[u].epochs) : StateMoves(u, j)
  <2>1. CASE u = t
    <3>1. \A j \in 1..Len(txns[t].epochs) : j # i => StateMoves(t, j)
      BY <1>9, Zenon DEF StateMoves
    <3> QED BY <1>9, <1>10, <2>1, <3>1, Zenon
  <2>2. CASE u # t
    BY <1>7, <2>2, Zenon DEF StateMoves
  <2> QED BY <2>1, <2>2, Zenon
<1> QED BY <1>8, <1>11, Zenon DEF LedgerStep, LedgerKeeps

\* The range a batch or a marker is registered with is a range.
LEMMA WidenTyped ==
    ASSUME NEW w \in Ranges, NEW off \in Nat, NEW n \in Nat \ {0}
    PROVE  Widen(w, off, n) \in Ranges
<1>1. w.start \in Int /\ w.end \in Int /\ (w = NoRange \/ w.start \in 0..w.end)
  BY DEF Ranges
<1>2. CASE w = NoRange
  BY <1>2 DEF Widen, Ranges
<1>3. CASE w # NoRange
  <2> DEFINE lo == IF off < w.start THEN off ELSE w.start
             hi == IF off + n - 1 > w.end THEN off + n - 1 ELSE w.end
  <2>1. lo \in Int /\ hi \in Int /\ lo \in 0..hi
    BY <1>1, <1>3
  <2>2. Widen(w, off, n) = [start |-> lo, end |-> hi]
    BY <1>3, Zenon DEF Widen
  <2> HIDE DEF lo, hi
  <2> QED BY <2>1, <2>2 DEF Ranges
<1> QED BY <1>2, <1>3, Zenon

\* A registration leaves every state as it is.
LEMMA RegisteredTyped ==
    ASSUME LedgerTypes, lastPid' = lastPid, NEW t, NEW epoch \in Int, NEW part, NEW off \in Nat, NEW n \in Nat \ {0},
           txns' = Registered(t, epoch, part, off, n)
    PROVE  LedgerStep
<1>1. CASE txns' = txns
  BY <1>1, LedgerStays, Zenon
<1>2. CASE t \notin Tids /\ txns' # txns
  <2>1. txns \in [Tids -> [producer : Nat, epochs : Seq(TxnDetails)]]
    BY Zenon DEF LedgerTypes
  <2>2. txns' = [txns EXCEPT ![t].epochs[epoch + 1].produces[part] = Widen(@, off, n)]
    BY <1>2, Zenon DEF Registered
  <2>3. txns' = txns
    BY <1>2, <2>1, <2>2
  <2> QED BY <1>2, <2>3
<1>3. CASE t \in Tids /\ txns' # txns
  <2> DEFINE i == epoch + 1
             d == txns[t].epochs[i]
             p == [d.produces EXCEPT ![part] = Widen(@, off, n)]
             e == [d EXCEPT !.produces = p]
  <2>1. /\ i \in DOMAIN txns[t].epochs
        /\ txns' = [txns EXCEPT ![t] = [txns[t] EXCEPT !.epochs = [txns[t].epochs EXCEPT ![i] = e]]]
    BY <1>3, Zenon DEF Registered
  <2>2. txns[t] \in [producer : Nat, epochs : Seq(TxnDetails)]
    BY <1>3, Zenon DEF LedgerTypes
  <2>3. txns[t].epochs \in Seq(TxnDetails)
    BY <2>2
  <2>4. d \in TxnDetails
    BY <2>1, <2>3
  <2>5. d.produces \in [Partitions -> Ranges]
    BY <2>4 DEF TxnDetails
  <2>6. p \in [Partitions -> Ranges]
    <3>1. \A q \in Partitions : Widen(d.produces[q], off, n) \in Ranges
      BY <2>5, WidenTyped, Zenon
    <3> HIDE DEF d
    <3> QED BY <2>5, <3>1, Zenon
  <2>7. e \in TxnDetails /\ e.state = d.state /\ e.begun = d.begun
    <3> HIDE DEF d, p
    <3> QED BY <2>4, <2>6 DEF TxnDetails
  <2> HIDE DEF e
  <2>8. txns'[t].epochs[i] = e => StateMoves(t, i)
    BY <2>7, Zenon DEF StateMoves
  <2> HIDE DEF i
  <2> QED BY <1>3, <2>1, <2>7, <2>8, DetailChanges, Zenon
<1> QED BY <1>1, <1>2, <1>3, Zenon

\* One transaction's part of the second ledger step of end_txn.
LEMMA SettledTyped ==
    ASSUME NEW d \in TxnDetails
    PROVE  /\ Settled(d) \in TxnDetails /\ Settled(d).begun = d.begun
           /\ \/ Settled(d).state = d.state
              \/ d.state \in {"none", "PrepareCommit"} /\ Settled(d).state = "Committed"
              \/ d.state = "PrepareAbort" /\ Settled(d).state = "Aborted"
<1> DEFINE s == CASE d.state \in {"none", "PrepareCommit"} -> "Committed"
                  [] d.state = "PrepareAbort" -> "Aborted"
                  [] OTHER -> d.state
           none == [p \in Partitions |-> NoRange]
           ranges == IF s = "Aborted" THEN d.produces ELSE none
           num == d.begun
<1>1. d.state \in States /\ d.produces \in [Partitions -> Ranges] /\ d.begun \in Nat
  BY DEF TxnDetails
<1>2. none \in [Partitions -> Ranges]
  <2>1. NoRange \in Ranges
    BY DEF NoRange, Ranges
  <2> QED BY <2>1, Zenon
<1>3. CASE d.state \in {"Begin"} \cup Resolved
  BY <1>3, Zenon DEF Settled
<1>4. CASE d.state \notin {"Begin"} \cup Resolved
  <2>1. d.state \in {"none", "PrepareCommit", "PrepareAbort"}
    BY <1>1, <1>4 DEF States, Prepared
  <2>2. \/ d.state \in {"none", "PrepareCommit"} /\ s = "Committed"
        \/ d.state = "PrepareAbort" /\ s = "Aborted"
    <3>1. CASE d.state \in {"none", "PrepareCommit"}
      <4>1. d.state # "PrepareAbort"
        BY <3>1
      <4> QED BY <3>1, <4>1, Zenon
    <3>2. CASE d.state = "PrepareAbort"
      <4>1. d.state \notin {"none", "PrepareCommit"}
        BY <3>2
      <4> QED BY <3>2, <4>1, Zenon
    <3> QED BY <2>1, <3>1, <3>2, Zenon
  <2>3. Settled(d) = [state |-> s, produces |-> ranges, offsets |-> {}, begun |-> num]
    BY <1>4, Zenon DEF Settled
  <2>4. ranges \in [Partitions -> Ranges]
    BY <1>1, <1>2, Zenon
  <2>5. s \in States
    BY <2>2 DEF States, Resolved
  <2>7. num \in Nat
    BY <1>1, Zenon
  <2> HIDE DEF s, ranges, num
  <2>6. Settled(d) \in TxnDetails /\ Settled(d).state = s /\ Settled(d).begun = num
    BY <2>3, <2>4, <2>5, <2>7 DEF TxnDetails
  <2> QED BY <2>2, <2>6, Zenon DEF num
<1> QED BY <1>3, <1>4, Zenon

\* Every step moves the ledger in these ways.
LEMMA NextLedgerStep ==
    ASSUME Given, NEW top \in Int, Types(top), Next
    PROVE  LedgerStep
<1>1. LedgerTypes /\ CallTypes /\ ClientTypes(top)
  BY Zenon DEF Types
<1> DEFINE T == [producer : Nat, epochs : Seq(TxnDetails)]
<1>2. txns \in [Tids -> T] /\ lastPid \in Nat
  BY <1>1, Zenon DEF LedgerTypes
<1>3. \A c \in Clients : TidOf[c] # NoTid => TidOf[c] \in Tids
  BY Zenon DEF Tids
<1>4. ASSUME NEW c \in Clients PROVE cl[c].pid \in Int /\ cl[c].epoch \in Int /\ cl[c].txn \in Nat
  <2>1. cl[c] \in ClientSet(top)
    BY <1>1, Zenon DEF ClientTypes
  <2> QED BY <2>1 DEF ClientSet
<1>5. ASSUME NEW x \in Clients \X Slots
      PROVE  x[1] \in Clients /\ calls[x].pid \in Int /\ calls[x].epoch \in Int /\ calls[x].todo \subseteq Partitions
  <2>1. calls[x] \in CallSet
    BY <1>1, Zenon DEF CallTypes
  <2> QED BY <2>1 DEF CallSet
<1>6. ASSUME lastPid' = lastPid, txns' = txns PROVE LedgerStep
  BY <1>1, <1>6, LedgerStays, Zenon
<1>7. ASSUME NEW c \in Clients, NEW r \in Replicas,
             \/ \E p \in Partitions, n \in BatchSizes : Send(c, p, n, r)
             \/ Resend(c, r) \/ StartInit(c, r) \/ \E commit \in BOOLEAN : StartEnd(c, commit, r)
      PROVE  LedgerStep
  BY <1>6, <1>7, Zenon DEF Send, Resend, StartInit, StartEnd, ledger
<1>8. ASSUME NEW c \in Clients, AddPartitions(c) PROVE LedgerStep
  <2> DEFINE t == TidOf[c]
             i == cl[c].epoch + 1
             d == txns[t].epochs[i]
             num == d.begun + 1
             e == [d EXCEPT !.state = "Begin", !.begun = num]
  <2>1. lastPid' = lastPid
    BY <1>8, Zenon DEF AddPartitions
  <2>2. CASE txns' = txns
    BY <1>6, <2>1, <2>2, Zenon
  <2>3. CASE Current(t, cl[c].pid, cl[c].epoch)
    <3>1. txns' = [txns EXCEPT ![t] = [txns[t] EXCEPT !.epochs = [txns[t].epochs EXCEPT ![i] = e]]] /\ ~cl[c].added
      BY <1>8, <2>3, Zenon DEF AddPartitions, Detail
    <3>2. t \in Tids /\ i \in DOMAIN txns[t].epochs /\ d \in TxnDetails
      BY <1>1, <1>3, <1>4, <2>3, CurrentEpoch, Zenon DEF Detail
    <3>5. num \in Nat
      <4> HIDE DEF d
      <4> QED BY <3>2 DEF TxnDetails
    <3>3. e \in TxnDetails /\ e.state = "Begin" /\ e.begun = num
      <4> HIDE DEF d, num
      <4> QED BY <3>2, <3>5, Zenon DEF TxnDetails, States
    <3> HIDE DEF e
    <3>4. txns'[t].epochs[i] = e => StateMoves(t, i)
      BY <1>8, <2>3, <3>1, <3>3, Zenon DEF StateMoves
    <3> HIDE DEF i, t
    <3> QED BY <1>1, <2>1, <3>1, <3>2, <3>3, <3>4, DetailChanges, Zenon
  <2> QED BY <1>8, <2>2, <2>3, Zenon DEF AddPartitions
<1>9. ASSUME NEW c \in Clients, StageOffsets(c) PROVE LedgerStep
  <2> DEFINE t == TidOf[c]
             i == cl[c].epoch + 1
             d == txns[t].epochs[i]
             n == IF cl[c].pc = "ready" THEN cl[c].txn + 1 ELSE cl[c].txn
             offs == d.offsets \cup {<<c, n>>}
             e == [d EXCEPT !.offsets = offs]
  <2>1. lastPid' = lastPid
    BY <1>9, Zenon DEF StageOffsets
  <2>2. CASE txns' = txns
    BY <1>6, <2>1, <2>2, Zenon
  <2>3. CASE Current(t, cl[c].pid, cl[c].epoch)
    <3>1. txns' = [txns EXCEPT ![t] = [txns[t] EXCEPT !.epochs = [txns[t].epochs EXCEPT ![i] = e]]]
      BY <1>9, <2>3, Zenon DEF StageOffsets
    <3>2. t \in Tids /\ i \in DOMAIN txns[t].epochs /\ d \in TxnDetails
      BY <1>1, <1>3, <1>4, <2>3, CurrentEpoch, Zenon DEF Detail
    <3>3. n \in Nat
      <4>1. cl[c].txn + 1 \in Nat
        BY <1>4
      <4> QED BY <1>4, <4>1, Zenon
    <3>4. offs \in SUBSET (Clients \X Nat)
      <4>1. d.offsets \subseteq Clients \X Nat
        BY <3>2 DEF TxnDetails
      <4>2. <<c, n>> \in Clients \X Nat
        BY <3>3
      <4> QED BY <4>1, <4>2, Zenon
    <3>5. e \in TxnDetails /\ e.state = d.state /\ e.begun = d.begun
      <4> HIDE DEF d, offs
      <4> QED BY <3>2, <3>4 DEF TxnDetails
    <3> HIDE DEF e
    <3>6. txns'[t].epochs[i] = e => StateMoves(t, i)
      BY <3>5, Zenon DEF StateMoves
    <3> HIDE DEF i, t
    <3> QED BY <1>1, <2>1, <3>1, <3>2, <3>5, <3>6, DetailChanges, Zenon
  <2> QED BY <1>9, <2>2, <2>3, Zenon DEF StageOffsets
<1>10. ASSUME NEW c \in Clients, Abandon(c) PROVE LedgerStep
  BY <1>6, <1>10, Zenon DEF Abandon, ledger
<1>11. ASSUME NEW x \in Clients \X Slots, Seed(x) \/ Mark(x) \/ CommitOffsets(x) PROVE LedgerStep
  BY <1>6, <1>11, Zenon DEF Seed, Mark, CommitOffsets, ledger
<1>12. ASSUME NEW x \in Clients \X Slots, InitCas(x) PROVE LedgerStep
  <2> DEFINE t == TidOf[x[1]]
             new == [producer |-> lastPid + 1, epochs |-> <<NewDetail>>]
             more == [txns[t] EXCEPT !.epochs = Append(txns[t].epochs, NewDetail)]
  <2>1. /\ lastPid' = lastPid \/ lastPid' = lastPid + 1
        /\ \/ txns' = txns
           \/ t # NoTid /\ txns' = [txns EXCEPT ![t] = new]
           \/ t # NoTid /\ txns' = [txns EXCEPT ![t] = more]
    BY <1>12, Zenon DEF InitCas
  <2>2. NewDetail \in TxnDetails
    <3> DEFINE none == [p \in Partitions |-> NoRange]
    <3>1. NoRange \in Ranges
      BY DEF NoRange, Ranges
    <3>2. none \in [Partitions -> Ranges]
      BY <3>1, Zenon
    <3>3. NewDetail = [state |-> "none", produces |-> none, offsets |-> {}, begun |-> 0]
      BY Zenon DEF NewDetail
    <3> HIDE DEF none
    <3> QED BY <3>2, <3>3 DEF TxnDetails, States
  <2>3. new \in T
    BY <1>2, <2>2
  <2>4. t # NoTid => more \in T
    <3>1. t # NoTid => txns[t] \in T
      BY <1>2, <1>3, <1>5, Zenon
    <3> DEFINE was == txns[t]
               eps == Append(was.epochs, NewDetail)
    <3>2. was \in T => was.epochs \in Seq(TxnDetails)
      <4> HIDE DEF was
      <4> QED OBVIOUS
    <3>3. was \in T => eps \in Seq(TxnDetails)
      BY <2>2, <3>2
    <3>4. was \in T => [was EXCEPT !.epochs = eps] \in T
      <4> HIDE DEF was, eps
      <4> QED BY <3>3
    <3>5. more = [was EXCEPT !.epochs = eps]
      BY Zenon
    <3> HIDE DEF T, more, eps
    <3> QED BY <3>1, <3>4, <3>5, Zenon
  <2>5. txns' \in [Tids -> T] /\ lastPid' \in Nat
    <3>1. lastPid' \in Nat
      BY <1>2, <2>1
    <3> HIDE DEF new, more, T
    <3>2. t # NoTid => t \in Tids
      BY <1>3, <1>5, Zenon
    <3> HIDE DEF t
    <3> QED BY <1>2, <2>1, <2>3, <2>4, <3>1, <3>2
  <2> QED BY <1>12, <2>5, Zenon DEF LedgerStep, LedgerTypes
<1>13. ASSUME NEW x \in Clients \X Slots, Prepare(x) PROVE LedgerStep
  <2> DEFINE call == calls[x]
             t == TidOf[x[1]]
             i == call.epoch + 1
             d == txns[t].epochs[i]
             s == IF call.commit THEN "PrepareCommit" ELSE "PrepareAbort"
             e == [d EXCEPT !.state = s]
  <2>1. lastPid' = lastPid
    BY <1>13, Zenon DEF Prepare
  <2>2. CASE txns' = txns
    BY <1>6, <2>1, <2>2, Zenon
  <2>3. CASE txns' # txns
    <3>1. /\ txns' = [txns EXCEPT ![t] = [txns[t] EXCEPT !.epochs = [txns[t].epochs EXCEPT ![i] = e]]]
          /\ Current(t, call.pid, call.epoch) /\ d.state = "Begin"
      BY <1>13, <2>3, Zenon DEF Prepare, Detail
    <3>2. t \in Tids /\ i \in DOMAIN txns[t].epochs /\ d \in TxnDetails
      BY <1>1, <1>3, <1>5, <3>1, CurrentEpoch, Zenon DEF Detail
    <3>3. s \in {"PrepareCommit", "PrepareAbort"}
      BY Zenon
    <3>4. e \in TxnDetails /\ e.state = s /\ e.begun = d.begun
      <4> HIDE DEF d, s
      <4> QED BY <3>2, <3>3 DEF TxnDetails, States, Prepared
    <3> HIDE DEF e
    <3>5. txns'[t].epochs[i] = e => StateMoves(t, i)
      BY <1>13, <3>1, <3>4, Zenon DEF StateMoves
    <3> HIDE DEF i, t, call
    <3> QED BY <1>1, <2>1, <3>1, <3>2, <3>4, <3>5, DetailChanges, Zenon
  <2> QED BY <2>2, <2>3, Zenon
<1>14. ASSUME NEW x \in Clients \X Slots, RegisterMarker(x) PROVE LedgerStep
  <2> DEFINE p == CHOOSE p \in calls[x].todo : \A q \in calls[x].todo : p <= q
  <2>1. lastPid' = lastPid /\ txns' = Registered(TidOf[x[1]], calls[x].epoch, p, calls[x].off, 1) /\ calls[x].pc = "register"
    BY <1>14, Zenon DEF RegisterMarker
  <2>2. calls[x].off \in Nat /\ calls[x].epoch \in Int
    BY <1>1, <1>5, <2>1, Zenon DEF CallTypes
  <2>3. 1 \in Nat \ {0}
    OBVIOUS
  <2> HIDE DEF p
  <2> QED BY <1>1, <2>1, <2>2, <2>3, RegisteredTyped, Zenon
<1>15. ASSUME NEW g \in regs, Register(g) PROVE LedgerStep
  <2>1. lastPid' = lastPid /\ (txns' = txns \/ txns' = Registered(TidOf[g.q.c], g.q.epoch, g.q.part, g.off, g.q.n))
    BY <1>15, Zenon DEF Register
  <2>2. g \in [q : DataRequests(top), off : Nat, at : Replicas]
    BY <1>1, Zenon DEF ClientTypes
  <2>3. g.q \in DataRequests(top) /\ g.off \in Nat
    BY <2>2
  <2>4. g.q.epoch \in Int /\ g.q.n \in BatchSizes
    BY <2>3, Zenon DEF DataRequests
  <2>5. g.q.n \in 1..IMax /\ IMax \in Nat
    BY <2>4, Zenon DEF Given, ProducerLogAssumption, TransactionsAssumption
  <2>6. g.q.n \in Nat \ {0}
    BY <2>5
  <2> QED BY <1>1, <1>6, <2>1, <2>3, <2>4, <2>6, RegisteredTyped, Zenon
<1>16. ASSUME NEW x \in Clients \X Slots, Resolve(x) PROVE LedgerStep
  <2>1. lastPid' = lastPid
    BY <1>16, Zenon DEF Resolve
  <2>2. CASE txns' = txns
    BY <1>6, <2>1, <2>2, Zenon
  <2>3. CASE txns' # txns
    <3> DEFINE over  == Overlaps(TidOf[x[1]], calls[x].epoch)
               own   == <<TidOf[x[1]], calls[x].epoch + 1>>
               ready == \A o \in over : txns[o[1]].epochs[o[2]].state \in Prepared
               done  == IF ready THEN over \cup {own} ELSE {}
    <3>1. txns' = [u \in Tids |-> [txns[u] EXCEPT !.epochs =
                       [i \in DOMAIN txns[u].epochs |->
                          IF <<u, i>> \in done THEN Settled(txns[u].epochs[i]) ELSE txns[u].epochs[i]]]]
      BY <1>16, <2>3, Zenon DEF Resolve
    <3> HIDE DEF done
    <3> DEFINE more(u) == [i \in DOMAIN txns[u].epochs |->
                             IF <<u, i>> \in done THEN Settled(txns[u].epochs[i]) ELSE txns[u].epochs[i]]
               now(u) == [txns[u] EXCEPT !.epochs = more(u)]
    <3>2. ASSUME NEW u \in Tids
          PROVE  /\ now(u) \in T /\ now(u).producer = txns[u].producer /\ now(u).epochs = more(u)
                 /\ Len(more(u)) = Len(txns[u].epochs)
                 /\ \A i \in 1..Len(txns[u].epochs) : more(u)[i].begun = txns[u].epochs[i].begun
                 /\ \A i \in 1..Len(txns[u].epochs) :
                      \/ more(u)[i].state = txns[u].epochs[i].state
                      \/ txns[u].epochs[i].state \in {"none", "PrepareCommit"} /\ more(u)[i].state = "Committed"
                      \/ txns[u].epochs[i].state = "PrepareAbort" /\ more(u)[i].state = "Aborted"
      <4> DEFINE was == txns[u]
                 m == more(u)
      <4>1. was \in T
        BY <1>2, Zenon
      <4>2. was.epochs \in Seq(TxnDetails) /\ was.producer \in Nat
        BY <4>1
      <4>3. Len(was.epochs) \in Nat /\ DOMAIN was.epochs = 1..Len(was.epochs)
        BY <4>2
      <4>4. \A i \in 1..Len(was.epochs) : was.epochs[i] \in TxnDetails
        BY <4>2
      <4>5. m = [i \in 1..Len(was.epochs) |->
                   IF <<u, i>> \in done THEN Settled(was.epochs[i]) ELSE was.epochs[i]]
        BY <4>3, Zenon
      <4>6. ASSUME NEW i \in 1..Len(was.epochs)
            PROVE  /\ m[i] \in TxnDetails /\ m[i].begun = was.epochs[i].begun
                   /\ \/ m[i].state = was.epochs[i].state
                      \/ was.epochs[i].state \in {"none", "PrepareCommit"} /\ m[i].state = "Committed"
                      \/ was.epochs[i].state = "PrepareAbort" /\ m[i].state = "Aborted"
        <5>1. m[i] = Settled(was.epochs[i]) \/ m[i] = was.epochs[i]
          BY <4>5, Zenon
        <5>2. was.epochs[i] \in TxnDetails
          BY <4>4, Zenon
        <5> HIDE DEF m
        <5> QED BY <5>1, <5>2, SettledTyped, Zenon
      <4>7. m = [i \in 1..Len(was.epochs) |-> m[i]]
        BY <4>5, Zenon
      <4> HIDE DEF m
      <4>8. m \in Seq(TxnDetails) /\ Len(m) = Len(was.epochs)
        <5> HIDE DEF was
        <5>1. \A i \in 1..Len(was.epochs) : m[i] \in TxnDetails
          BY <4>6, Zenon
        <5> QED BY <4>3, <4>7, <5>1
      <4>9. /\ [was EXCEPT !.epochs = m] \in T /\ [was EXCEPT !.epochs = m].producer = was.producer
            /\ [was EXCEPT !.epochs = m].epochs = m
        <5> HIDE DEF was
        <5> QED BY <4>1, <4>8
      <4>10. m = more(u)
        BY Zenon DEF m
      <4> HIDE DEF more
      <4> QED BY <4>6, <4>8, <4>9, <4>10, Zenon
    <3>3. txns' = [u \in Tids |-> now(u)]
      BY <3>1, Zenon
    <3> HIDE DEF now, more
    <3>4. txns' \in [Tids -> T]
      <4> HIDE DEF T
      <4> QED BY <3>2, <3>3, Zenon
    <3>5. \A u \in Tids : txns'[u] = now(u)
      BY <3>3, Zenon
    <3>6. \A u \in Tids : /\ txns'[u].producer = txns[u].producer
                          /\ Len(txns'[u].epochs) = Len(txns[u].epochs)
                          /\ \A i \in 1..Len(txns[u].epochs) : StateMoves(u, i)
      <4> TAKE u \in Tids
      <4>1. txns'[u].epochs = more(u) /\ txns'[u].producer = txns[u].producer /\ Len(more(u)) = Len(txns[u].epochs)
        BY <3>2, <3>5, Zenon
      <4>2. ASSUME NEW i \in 1..Len(txns[u].epochs) PROVE StateMoves(u, i)
        <5>1. \/ more(u)[i].state = txns[u].epochs[i].state
              \/ txns[u].epochs[i].state \in {"none", "PrepareCommit"} /\ more(u)[i].state = "Committed"
              \/ txns[u].epochs[i].state = "PrepareAbort" /\ more(u)[i].state = "Aborted"
          BY <3>2, Zenon
        <5>2. txns'[u].epochs[i] = more(u)[i] /\ more(u)[i].begun = txns[u].epochs[i].begun
          BY <3>2, <4>1, Zenon
        <5> QED BY <5>1, <5>2, Zenon DEF StateMoves
      <4> QED BY <4>1, <4>2, Zenon
    <3>7. LedgerTypes'
      BY <1>2, <2>1, <3>4, Zenon DEF LedgerTypes
    <3>8. LedgerKeeps
      BY <2>1, <3>6, Zenon DEF LedgerKeeps
    <3> QED BY <3>7, <3>8, Zenon DEF LedgerStep
  <2> QED BY <2>2, <2>3, Zenon
<1>17. ASSUME Rest0 PROVE LedgerStep
  BY <1>6, <1>17, Zenon DEF Rest0, ledger
<1>18. ASSUME NEW r \in Replicas, FlushWon(r) \/ FlushEmpty(r) \/ FlushFailed(r) PROVE LedgerStep
  <2>1. UNCHANGED ledger
    BY <1>18, FlushEnds, Zenon DEF FlushAnswered
  <2> QED BY <1>6, <2>1, Zenon DEF ledger
<1>19. ASSUME NEW r \in Replicas, Crash(r) PROVE LedgerStep
  BY <1>6, <1>19, Zenon DEF Crash, ledger
<1> QED BY <1>7, <1>8, <1>9, <1>10, <1>11, <1>12, <1>13, <1>14, <1>15, <1>16, <1>17, <1>18, <1>19, Zenon DEF Next

-----------------------------------------------------------------------------
(* The type invariant. *)

\* The initial state has these types.
LEMMA InitTypes ==
    ASSUME Given, NEW top \in Int, Init
    PROVE  Types(top)
<1>1. LogTypes(top)
  <2>1. /\ segments = <<>> /\ folded = [r \in Replicas |-> 0] /\ parked = [r \in Replicas |-> <<>>]
        /\ flush = [r \in Replicas |-> NoFlush] /\ late = {}
    BY Zenon DEF Init, LogInit
  <2>2. segments \in Seq(Seq(Entries(top))) /\ Len(segments) = 0
    BY <2>1
  <2>3. folded \in [Replicas -> Nat] /\ \A r \in Replicas : folded[r] <= Len(segments)
    BY <2>1
  <2>4. parked \in [Replicas -> Seq(Requests(top))]
    BY <2>1
  <2>5. NoFlush \in Flushes(top) /\ NoFlush.pc = "idle"
    BY NoFlushTyped, Zenon
  <2>6. flush \in [Replicas -> Flushes(top)] /\ \A r \in Replicas : flush[r] = NoFlush
    BY <2>1, <2>5, Zenon
  <2>7. \A r \in Replicas : flush[r].pc # "put" /\ flush[r].pc # "retry"
    BY <2>5, <2>6
  <2>8. late \subseteq [candidate : Nat, added : Seq(Entries(top))] /\ \A z \in late : z.candidate <= Len(segments)
    BY <2>1, Zenon
  <2> QED BY <2>2, <2>3, <2>4, <2>6, <2>7, <2>8, Zenon DEF LogTypes
<1>2. LedgerTypes
  <2> DEFINE T == [producer : Nat, epochs : Seq(TxnDetails)]
             none == [producer |-> 0, epochs |-> <<>>]
  <2>1. none \in T
    OBVIOUS
  <2>2. txns = [t \in Tids |-> none] /\ lastPid = 0
    BY Zenon DEF Init
  <2>3. lastPid \in Nat
    BY <2>2
  <2>4. txns \in [Tids -> T]
    <3> HIDE DEF T, none
    <3> QED BY <2>1, <2>2, Zenon
  <2> QED BY <2>3, <2>4, Zenon DEF LedgerTypes
<1>3. CallTypes
  <2>1. calls = [x \in Clients \X Slots |-> NoCall]
    BY Zenon DEF Init
  <2>2. NoCall \in CallSet /\ NoCall.pc # "register"
    BY NoCallTyped
  <2> QED BY <2>1, <2>2, Zenon DEF CallTypes
<1>4. ClientTypes(top)
  <2>1. cl = [c \in Clients |-> NewClient] /\ regs = {} /\ acks = {} /\ refused = {}
    BY Zenon DEF Init
  <2>2. NewClient \in ClientSet(top)
    BY NewClientTyped, Zenon
  <2> QED BY <2>1, <2>2, Zenon DEF ClientTypes
<1> QED BY <1>1, <1>2, <1>3, <1>4, Zenon DEF Types

\* Every step keeps the types.
LEMMA TypesStep ==
    ASSUME Given, NEW top \in {IMax, 2 * IMax}, Types(top),
           top = IMax => Room, [Next]_vars
    PROVE  Types(top)'
<1>1. CASE Next
  <2>0. IMax \in Nat
    BY Zenon DEF Given, ProducerLogAssumption
  <2>1. top \in Int
    BY <2>0
  <2>2. LogTypes(top)'
    BY <1>1, <2>1, NextLogStep, LogTypesStep, Zenon DEF Types
  <2>3. LedgerTypes'
    BY <1>1, <2>1, NextLedgerStep, Zenon DEF LedgerStep
  <2>4. CallTypes'
    BY <1>1, <2>1, NextCallStep, Zenon DEF CallStep
  <2>5. ClientTypes(top)'
    BY <1>1, ClientTypesStep, Zenon
  <2> QED BY <2>2, <2>3, <2>4, <2>5, Zenon DEF Types
<1>2. CASE vars' = vars
  <2>1. UNCHANGED <<segments, folded, parked, flush, late>>
    BY <1>2, Zenon DEF vars, logVars
  <2>2. UNCHANGED <<lastPid, txns>>
    BY <1>2, Zenon DEF vars, ledger
  <2>3. UNCHANGED <<calls, cl, regs>>
    BY <1>2, Zenon DEF vars
  <2>4. UNCHANGED <<acks, refused>>
    BY <1>2, Zenon DEF vars, history
  <2>5. LogTypes(top)'
    BY <2>1, Zenon DEF LogTypes, Types
  <2>6. LedgerTypes'
    BY <2>2, Zenon DEF LedgerTypes, Types
  <2>7. CallTypes'
    BY <2>3, Zenon DEF CallTypes, Types
  <2>8. ClientTypes(top)'
    BY <2>3, <2>4, Zenon DEF ClientTypes, Types
  <2> QED BY <2>5, <2>6, <2>7, <2>8, Zenon DEF Types
<1> QED BY <1>1, <1>2, Zenon

\* Types says at least what TypeOK says.
LEMMA TypesGiveTypeOK ==
    ASSUME Given, NEW top \in Int, Types(top)
    PROVE  TypeOK
<1>0. IMax \in Nat /\ BatchSizes \subseteq 1..IMax
  BY Zenon DEF Given, ProducerLogAssumption, TransactionsAssumption
<1>1. ASSUME NEW x \in Stored
      PROVE  /\ Entry(x).part \in Partitions /\ Entry(x).off \in Nat
             /\ Entry(x).n \in Nat \ {0} /\ Entry(x).base \in -1..IMax
  <2>1. segments \in Seq(Seq(Entries(top)))
    BY Zenon DEF Types, LogTypes
  <2>2. Entry(x) \in Entries(top)
    BY <2>1, StoredEntry, Zenon DEF Stored, Entry
  <2>3. CASE Entry(x) \in DataEntries(top)
    <3>1. /\ Entry(x).part \in Partitions /\ Entry(x).off \in Nat
          /\ Entry(x).n \in BatchSizes /\ Entry(x).base \in 0..IMax
      BY <2>3 DEF DataEntries
    <3>2. Entry(x).n \in 1..IMax
      BY <1>0, <3>1, Zenon
    <3> QED BY <1>0, <3>1, <3>2
  <2>4. CASE Entry(x) \in MarkerEntries
    <3>1. /\ Entry(x).part \in Partitions /\ Entry(x).off \in Nat
          /\ Entry(x).n = 1 /\ Entry(x).base = -1
      BY <2>4 DEF MarkerEntries
    <3> QED BY <1>0, <3>1
  <2> QED BY <2>2, <2>3, <2>4, Zenon DEF Entries
<1>2. folded \in [Replicas -> 0..Len(segments)]
  <2>1. segments \in Seq(Seq(Entries(top))) /\ folded \in [Replicas -> Nat] /\ \A r \in Replicas : folded[r] <= Len(segments)
    BY Zenon DEF Types, LogTypes
  <2>2. Len(segments) \in Nat
    BY <2>1
  <2>3. \A r \in Replicas : folded[r] \in 0..Len(segments)
    BY <2>1, <2>2
  <2> QED BY <2>1, <2>3
<1>3. lastPid \in Nat
  BY Zenon DEF Types, LedgerTypes
<1>4. ASSUME NEW t \in Tids, NEW i \in DOMAIN txns[t].epochs
      PROVE  /\ txns[t].epochs[i].state \in {"none", "Begin"} \cup Prepared \cup Resolved
             /\ \A p \in Partitions : LET w == txns[t].epochs[i].produces[p]
                                      IN  w = NoRange \/ w.start \in 0..w.end
  <2> DEFINE d == txns[t].epochs[i]
  <2>1. txns[t] \in [producer : Nat, epochs : Seq(TxnDetails)]
    BY Zenon DEF Types, LedgerTypes
  <2>2. d \in TxnDetails
    <3>1. txns[t].epochs \in Seq(TxnDetails)
      BY <2>1
    <3> QED BY <3>1
  <2>3. d.state \in States /\ d.produces \in [Partitions -> Ranges]
    <3> HIDE DEF d
    <3> QED BY <2>2 DEF TxnDetails
  <2>4. \A p \in Partitions : d.produces[p] \in Ranges
    BY <2>3, Zenon
  <2>5. \A w \in Ranges : w = NoRange \/ w.start \in 0..w.end
    BY Zenon DEF Ranges
  <2> QED BY <2>3, <2>4, <2>5, Zenon DEF States
<1>5. \A x \in DOMAIN calls : calls[x].pc \in CallPcs
  <2>1. calls \in [Clients \X Slots -> CallSet]
    BY Zenon DEF Types, CallTypes
  <2>2. \A f \in CallSet : f.pc \in CallPcs
    BY DEF CallSet
  <2> QED BY <2>1, <2>2, Zenon
<1>6. \A c \in Clients : cl[c].pc \in ClientPcs
  <2>1. cl \in [Clients -> ClientSet(top)]
    BY Zenon DEF Types, ClientTypes
  <2>2. \A f \in ClientSet(top) : f.pc \in ClientPcs
    BY DEF ClientSet
  <2> QED BY <2>1, <2>2, Zenon
<1> QED BY <1>1, <1>2, <1>3, <1>4, <1>5, <1>6, Zenon DEF TypeOK, CallPcs, ClientPcs

-----------------------------------------------------------------------------
(* Identities. *)

\* init_producer_id has given pid and epoch to the transactional id t, or to an idempotent producer.
IssuedTo(t, pid, epoch) ==
    IF t = NoTid
      THEN pid \in 1..lastPid /\ epoch = 0 /\ \A u \in Tids : txns[u].epochs # <<>> => txns[u].producer # pid
      ELSE txns[t].epochs # <<>> /\ txns[t].producer = pid /\ epoch \in 0..EpochOf(t)

\* The ledger gives every transactional id a producer id of its own.
LedgerIds ==
    /\ \A t \in Tids : txns[t].epochs # <<>> => txns[t].producer \in 1..lastPid
    /\ \A t, u \in Tids : t # u /\ txns[t].epochs # <<>> /\ txns[u].epochs # <<>>
                            => txns[t].producer # txns[u].producer

\* A client has been given what it holds; so has an init_producer_id call past its ledger step.
HoldersIssued ==
    /\ \A c \in Clients : cl[c].pid # -1 => IssuedTo(TidOf[c], cl[c].pid, cl[c].epoch)
    /\ \A x \in Clients \X Slots : calls[x].pc = "seed" => IssuedTo(TidOf[x[1]], calls[x].pid, calls[x].epoch)

\* No two of them hold the same.
HoldersDiffer ==
    /\ \A c, d \in Clients : c # d /\ cl[c].pid # -1 => <<cl[c].pid, cl[c].epoch>> # <<cl[d].pid, cl[d].epoch>>
    /\ \A x, y \in Clients \X Slots : x # y /\ calls[x].pc = "seed" /\ calls[y].pc = "seed"
         => <<calls[x].pid, calls[x].epoch>> # <<calls[y].pid, calls[y].epoch>>
    /\ \A x \in Clients \X Slots, c \in Clients : calls[x].pc = "seed"
         => <<calls[x].pid, calls[x].epoch>> # <<cl[c].pid, cl[c].epoch>>

IdInv == LedgerIds /\ HoldersIssued /\ HoldersDiffer

\* What has been given out is numbered.
LEMMA IssuedNumbered ==
    ASSUME LedgerIds, NEW t, t = NoTid \/ t \in Tids, NEW pid, NEW epoch, IssuedTo(t, pid, epoch)
    PROVE  pid \in 1..lastPid
BY Zenon DEF IssuedTo, LedgerIds

\* A step that gives out no identity leaves those given out as they are.
LEMMA IssuedKept ==
    ASSUME LedgerTypes, LedgerStep, LedgerKeeps, NEW t, t = NoTid \/ t \in Tids, NEW pid, NEW epoch
    PROVE  IssuedTo(t, pid, epoch)' <=> IssuedTo(t, pid, epoch)
<1>1. lastPid' = lastPid
  BY Zenon DEF LedgerKeeps
<1>2. \A u \in Tids : txns'[u].producer = txns[u].producer /\ (txns'[u].epochs = <<>> <=> txns[u].epochs = <<>>)
  <2> TAKE u \in Tids
  <2>1. txns'[u].producer = txns[u].producer /\ Len(txns'[u].epochs) = Len(txns[u].epochs)
    BY Zenon DEF LedgerKeeps
  <2>2. txns[u] \in [producer : Nat, epochs : Seq(TxnDetails)]
    BY Zenon DEF LedgerTypes
  <2>3. txns'[u] \in [producer : Nat, epochs : Seq(TxnDetails)]
    BY Zenon DEF LedgerTypes, LedgerStep
  <2>4. txns[u].epochs \in Seq(TxnDetails) /\ txns'[u].epochs \in Seq(TxnDetails)
    BY <2>2, <2>3
  <2>5. txns'[u].epochs = <<>> <=> txns[u].epochs = <<>>
    BY <2>1, <2>4
  <2> QED BY <2>1, <2>5, Zenon
<1>3. CASE t = NoTid
  BY <1>1, <1>2, <1>3, Zenon DEF IssuedTo
<1>4. CASE t # NoTid
  <2>1. t \in Tids
    BY <1>4, Zenon
  <2>2. EpochOf(t)' = EpochOf(t)
    <3>1. Len(txns'[t].epochs) = Len(txns[t].epochs)
      BY <2>1, Zenon DEF LedgerKeeps
    <3> QED BY <3>1, Zenon DEF EpochOf
  <2> QED BY <1>2, <1>4, <2>1, <2>2, Zenon DEF IssuedTo
<1> QED BY <1>3, <1>4, Zenon

\* x gets pid and epoch, which nobody had.
Fresh(x, pid, epoch) ==
    /\ calls'[x].pid = pid /\ calls'[x].epoch = epoch
    /\ IssuedTo(TidOf[x[1]], pid, epoch)'
    /\ \A t, p, e : (t = NoTid \/ t \in Tids) /\ IssuedTo(t, p, e) => <<p, e>> # <<pid, epoch>>
    /\ TidOf[x[1]] # NoTid => Detail(TidOf[x[1]], epoch)'.state = "none"

\* The ledger step of init_producer_id: what was given out stays, and x's identity is new.
LEMMA InitCasEffect ==
    ASSUME Given, NEW top \in Int, Types(top), LedgerIds,
           NEW x \in Clients \X Slots, InitCas(x)
    PROVE  /\ LedgerIds'
           /\ \A t, p, e : (t = NoTid \/ t \in Tids) /\ IssuedTo(t, p, e) => IssuedTo(t, p, e)'
           /\ calls'[x].pc = "seed" => \E pid, epoch : Fresh(x, pid, epoch)
           /\ \A y \in Clients \X Slots : y # x => calls'[y] = calls[y]
           /\ \A t \in Tids : \A i \in 1..Len(txns[t].epochs) :
                /\ i \in 1..Len(txns'[t].epochs) /\ txns'[t].epochs[i] = txns[t].epochs[i]
                /\ txns'[t].producer = txns[t].producer
<1> DEFINE T == [producer : Nat, epochs : Seq(TxnDetails)]
           t == TidOf[x[1]]
<1>1. txns \in [Tids -> T] /\ lastPid \in Nat
  BY Zenon DEF Types, LedgerTypes
<1>2. t # NoTid => t \in Tids
  BY Zenon DEF Tids
<1>3. calls \in [Clients \X Slots -> CallSet]
  BY Zenon DEF Types, CallTypes
<1>4. \A u \in Tids : txns[u].epochs \in Seq(TxnDetails) /\ txns[u].producer \in Nat
  <2> TAKE u \in Tids
  <2>1. txns[u] \in T
    BY <1>1, Zenon
  <2> QED BY <2>1
<1>5. \A y \in Clients \X Slots : y # x => calls'[y] = calls[y]
  <2>1. PICK pid, epoch :
               \/ calls' = [calls EXCEPT ![x].pc = "seed", ![x].pid = pid, ![x].epoch = epoch]
               \/ calls' = [calls EXCEPT ![x].pc = "prepare", ![x].pid = pid, ![x].epoch = epoch, ![x].commit = FALSE]
    BY InitCasCalls, Zenon
  <2> QED BY <1>3, <2>1
<1>6. ASSUME NEW pid, NEW epoch, calls' = [calls EXCEPT ![x].pc = "seed", ![x].pid = pid, ![x].epoch = epoch]
      PROVE  calls'[x].pid = pid /\ calls'[x].epoch = epoch
  BY <1>3, <1>6 DEF CallSet
<1>7. CASE t = NoTid
  <2>0. PICK pid : pid = lastPid + 1
    BY Zenon
  <2>1. lastPid' = lastPid + 1 /\ txns' = txns
        /\ calls' = [calls EXCEPT ![x].pc = "seed", ![x].pid = pid, ![x].epoch = 0]
    BY <1>7, <2>0, Zenon DEF InitCas
  <2>2. calls'[x].pid = pid /\ calls'[x].epoch = 0
    BY <1>6, <2>1, Zenon
  <2>3. \A n \in 1..lastPid : n \in 1..lastPid' /\ n # pid
    BY <1>1, <2>0, <2>1
  <2>4. pid \in 1..lastPid'
    BY <1>1, <2>0, <2>1
  <2>5. LedgerIds'
    BY <2>1, <2>3, Zenon DEF LedgerIds
  <2>6. ASSUME NEW u, NEW p, NEW e, u = NoTid \/ u \in Tids, IssuedTo(u, p, e)
        PROVE  IssuedTo(u, p, e)' /\ <<p, e>> # <<pid, 0>>
    <3>1. p \in 1..lastPid
      BY <2>6, IssuedNumbered, Zenon
    <3>2. CASE u = NoTid
      BY <2>1, <2>3, <2>6, <3>1, <3>2, Zenon DEF IssuedTo
    <3>3. CASE u # NoTid
      <4>1. IssuedTo(u, p, e)'
        BY <2>1, <2>6, <3>3, Zenon DEF IssuedTo, EpochOf
      <4> QED BY <2>3, <3>1, <4>1, Zenon
    <3> QED BY <3>2, <3>3, Zenon
  <2>7. IssuedTo(t, pid, 0)'
    <3>1. \A u \in Tids : txns'[u].epochs # <<>> => txns'[u].producer # pid
      BY <2>1, <2>3, Zenon DEF LedgerIds
    <3> QED BY <1>7, <2>4, <3>1, Zenon DEF IssuedTo
  <2>8. Fresh(x, pid, 0)
    BY <1>7, <2>2, <2>6, <2>7, Zenon DEF Fresh
  <2>9. \A u \in Tids : \A i \in 1..Len(txns[u].epochs) :
          /\ i \in 1..Len(txns'[u].epochs) /\ txns'[u].epochs[i] = txns[u].epochs[i]
          /\ txns'[u].producer = txns[u].producer
    BY <2>1, Zenon
  <2> QED BY <1>5, <2>5, <2>6, <2>8, <2>9, Zenon
<1>8. CASE t # NoTid /\ txns[t].epochs = <<>>
  <2>0. PICK pid : pid = lastPid + 1
    BY Zenon
  <2> DEFINE new == [producer |-> pid, epochs |-> <<NewDetail>>]
  <2>1. /\ lastPid' = lastPid + 1 /\ txns' = [txns EXCEPT ![t] = new]
        /\ calls' = [calls EXCEPT ![x].pc = "seed", ![x].pid = pid, ![x].epoch = 0]
    BY <1>8, <2>0, Zenon DEF InitCas
  <2>2. calls'[x].pid = pid /\ calls'[x].epoch = 0
    BY <1>6, <2>1, Zenon
  <2>3. \A n \in 1..lastPid : n \in 1..lastPid' /\ n # pid
    BY <1>1, <2>0, <2>1
  <2>4. pid \in 1..lastPid'
    BY <1>1, <2>0, <2>1
  <2>5. t \in Tids /\ txns'[t] = new /\ \A u \in Tids : u # t => txns'[u] = txns[u]
    <3> HIDE DEF new, T, t
    <3> QED BY <1>1, <1>2, <1>8, <2>1
  <2>6. new.producer = pid /\ new.epochs = <<NewDetail>> /\ Len(new.epochs) = 1 /\ new.epochs # <<>>
    <3> DEFINE d == NewDetail
    <3> HIDE DEF d
    <3>1. <<d>> # <<>> /\ Len(<<d>>) = 1
      OBVIOUS
    <3> QED BY <3>1 DEF d
  <2>6a. new.epochs[1].state = "none"
    <3>1. NewDetail.state = "none"
      BY DEF NewDetail
    <3> DEFINE d == NewDetail
    <3>2. <<d>>[1] = d
      <4> HIDE DEF d
      <4> QED OBVIOUS
    <3> QED BY <2>6, <3>1, <3>2
  <2> HIDE DEF new
  <2>7. LedgerIds'
    <3>1. ASSUME NEW u \in Tids, (txns[u].epochs # <<>>)' PROVE txns'[u].producer \in 1..lastPid'
      BY <2>3, <2>4, <2>5, <2>6, <3>1, Zenon DEF LedgerIds
    <3>2. ASSUME NEW u \in Tids, NEW v \in Tids, u # v, txns'[u].epochs # <<>>, txns'[v].epochs # <<>>
          PROVE  txns'[u].producer # txns'[v].producer
      <4>1. CASE u # t /\ v # t
        BY <2>5, <3>2, <4>1, Zenon DEF LedgerIds
      <4>2. CASE u = t
        <5>1. txns[v].producer \in 1..lastPid /\ txns'[v] = txns[v]
          BY <2>5, <3>2, <4>2, Zenon DEF LedgerIds
        <5> QED BY <2>3, <2>5, <2>6, <4>2, <5>1, Zenon
      <4>3. CASE v = t
        <5>1. txns[u].producer \in 1..lastPid /\ txns'[u] = txns[u]
          BY <2>5, <3>2, <4>3, Zenon DEF LedgerIds
        <5> QED BY <2>3, <2>5, <2>6, <4>3, <5>1, Zenon
      <4> QED BY <4>1, <4>2, <4>3, Zenon
    <3> QED BY <3>1, <3>2, Zenon DEF LedgerIds
  <2>8. ASSUME NEW u, NEW p, NEW e, u = NoTid \/ u \in Tids, IssuedTo(u, p, e)
        PROVE  IssuedTo(u, p, e)' /\ <<p, e>> # <<pid, 0>>
    <3>1. p \in 1..lastPid
      BY <2>8, IssuedNumbered, Zenon
    <3>2. CASE u = NoTid
      <4>1. \A v \in Tids : txns'[v].epochs # <<>> => txns'[v].producer # p
        BY <2>3, <2>5, <2>6, <2>8, <3>1, <3>2, Zenon DEF IssuedTo
      <4> QED BY <2>3, <2>8, <3>1, <3>2, <4>1, Zenon DEF IssuedTo
    <3>3. CASE u # NoTid
      <4>1. u # t /\ txns'[u] = txns[u]
        BY <1>8, <2>5, <2>8, <3>3, Zenon DEF IssuedTo
      <4>2. IssuedTo(u, p, e)'
        BY <2>8, <3>3, <4>1, Zenon DEF IssuedTo, EpochOf
      <4> QED BY <2>3, <3>1, <4>2, Zenon
    <3> QED BY <3>2, <3>3, Zenon
  <2>9. IssuedTo(t, pid, 0)'
    <3>1. EpochOf(t)' = 0
      BY <2>5, <2>6 DEF EpochOf
    <3>2. 0 \in 0..(EpochOf(t)')
      BY <3>1
    <3>3. (txns[t].epochs # <<>>)' /\ txns'[t].producer = pid
      BY <2>5, <2>6, Zenon
    <3> QED BY <1>8, <3>2, <3>3, Zenon DEF IssuedTo
  <2>10. Detail(t, 0)'.state = "none"
    <3>1. Detail(t, 0)' = txns'[t].epochs[1]
      BY DEF Detail
    <3> QED BY <2>5, <2>6a, <3>1
  <2>11. Fresh(x, pid, 0)
    BY <2>2, <2>8, <2>9, <2>10, Zenon DEF Fresh
  <2>12. \A u \in Tids : \A i \in 1..Len(txns[u].epochs) :
          /\ i \in 1..Len(txns'[u].epochs) /\ txns'[u].epochs[i] = txns[u].epochs[i]
          /\ txns'[u].producer = txns[u].producer
    <3> TAKE u \in Tids
    <3>1. CASE u = t
      <4>1. 1..Len(txns[u].epochs) = {}
        BY <1>8, <3>1
      <4> QED BY <4>1, Zenon
    <3>2. CASE u # t
      BY <2>5, <3>2, Zenon
    <3> QED BY <3>1, <3>2, Zenon
  <2> QED BY <1>5, <2>7, <2>8, <2>11, <2>12, Zenon
<1>9. CASE t # NoTid /\ txns[t].epochs # <<>> /\ Detail(t, EpochOf(t)).state = "Begin"
  <2>1. /\ lastPid' = lastPid /\ txns' = txns
        /\ calls' = [calls EXCEPT ![x].pc = "prepare", ![x].pid = txns[t].producer,
                                  ![x].epoch = EpochOf(t), ![x].commit = FALSE]
    BY <1>9, Zenon DEF InitCas
  <2>2. calls'[x].pc = "prepare"
    BY <1>3, <2>1 DEF CallSet
  <2>3. LedgerIds'
    BY <2>1, Zenon DEF LedgerIds
  <2>4. ASSUME NEW u, NEW p, NEW e, u = NoTid \/ u \in Tids, IssuedTo(u, p, e) PROVE IssuedTo(u, p, e)'
    BY <2>1, <2>4, Zenon DEF IssuedTo, EpochOf
  <2>5. \A u \in Tids : \A i \in 1..Len(txns[u].epochs) :
          /\ i \in 1..Len(txns'[u].epochs) /\ txns'[u].epochs[i] = txns[u].epochs[i]
          /\ txns'[u].producer = txns[u].producer
    BY <2>1, Zenon
  <2>6. calls'[x].pc # "seed"
    BY <2>2
  <2> QED BY <1>5, <2>3, <2>4, <2>5, <2>6, Zenon
<1>10. CASE t # NoTid /\ txns[t].epochs # <<>> /\ Detail(t, EpochOf(t)).state # "Begin"
  <2> DEFINE was == txns[t]
             eps == Append(was.epochs, NewDetail)
             new == [was EXCEPT !.epochs = eps]
  <2>0. PICK pid, n : pid = txns[t].producer /\ n = EpochOf(t) + 1
    BY Zenon
  <2>1. /\ lastPid' = lastPid /\ txns' = [txns EXCEPT ![t] = new]
        /\ calls' = [calls EXCEPT ![x].pc = "seed", ![x].pid = pid, ![x].epoch = n]
    BY <1>10, <2>0, Zenon DEF InitCas
  <2>2. calls'[x].pid = pid /\ calls'[x].epoch = n
    BY <1>6, <2>1, Zenon
  <2>3. t \in Tids /\ txns'[t] = new /\ \A u \in Tids : u # t => txns'[u] = txns[u]
    <3> HIDE DEF new, T, t
    <3> QED BY <1>1, <1>2, <1>10, <2>1
  <2>4. was.epochs \in Seq(TxnDetails) /\ was.producer \in Nat /\ was \in T
    BY <1>1, <1>4, <2>3, Zenon
  <2>5. /\ Len(eps) = Len(was.epochs) + 1 /\ \A i \in 1..Len(was.epochs) : eps[i] = was.epochs[i]
        /\ eps[Len(was.epochs) + 1] = NewDetail /\ eps # <<>>
    <3>1. NewDetail \in {NewDetail} \cup TxnDetails /\ was.epochs \in Seq({NewDetail} \cup TxnDetails)
      <4> DEFINE S == {NewDetail} \cup TxnDetails
      <4>1. NewDetail \in S /\ TxnDetails \subseteq S
        BY Zenon
      <4> HIDE DEF S, was
      <4>2. was.epochs \in Seq(S)
        BY <2>4, <4>1
      <4> QED BY <4>1, <4>2 DEF S
    <3> DEFINE d == NewDetail
               s == was.epochs
    <3>2. s \in Seq({d} \cup TxnDetails)
      BY <3>1, Zenon
    <3>3. eps = Append(s, d)
      BY Zenon
    <3> HIDE DEF d, s, eps
    <3>4. /\ Len(eps) = Len(s) + 1 /\ \A i \in 1..Len(s) : eps[i] = s[i]
          /\ eps[Len(s) + 1] = d /\ eps # <<>>
      BY <3>2, <3>3
    <3> QED BY <3>4 DEF d, s
  <2>6. new.producer = was.producer /\ new.epochs = eps
    <3> HIDE DEF was, eps
    <3> QED BY <2>4
  <2> HIDE DEF new, eps
  <2>7. Len(was.epochs) \in Nat /\ Len(was.epochs) # 0 /\ n = Len(was.epochs)
    <3>1. Len(was.epochs) \in Nat /\ Len(was.epochs) # 0
      BY <1>10, <2>4
    <3>2. EpochOf(t) = Len(was.epochs) - 1
      BY Zenon DEF EpochOf
    <3> QED BY <2>0, <3>1, <3>2
  <2>8. EpochOf(t)' = n /\ EpochOf(t) = n - 1 /\ n \in Nat
    <3>1. EpochOf(t)' = Len(new.epochs) - 1
      BY <2>3, Zenon DEF EpochOf
    <3>2. EpochOf(t) = Len(was.epochs) - 1
      BY Zenon DEF EpochOf
    <3> QED BY <2>5, <2>6, <2>7, <3>1, <3>2
  <2>9. /\ \A u \in Tids : txns'[u].producer = txns[u].producer /\ (txns'[u].epochs # <<>> <=> txns[u].epochs # <<>>)
    BY <1>10, <2>3, <2>5, <2>6, Zenon
  <2>10. LedgerIds'
    BY <2>1, <2>9, Zenon DEF LedgerIds
  <2>11. ASSUME NEW u, NEW p, NEW e, u = NoTid \/ u \in Tids, IssuedTo(u, p, e)
         PROVE  IssuedTo(u, p, e)' /\ <<p, e>> # <<pid, n>>
    <3>1. CASE u = NoTid
      <4>1. p \in 1..lastPid /\ e = 0 /\ \A v \in Tids : txns[v].epochs # <<>> => txns[v].producer # p
        BY <2>11, <3>1, Zenon DEF IssuedTo
      <4>2. p # pid
        BY <1>10, <2>0, <2>3, <4>1, Zenon
      <4>3. \A v \in Tids : txns'[v].epochs # <<>> => txns'[v].producer # p
        BY <2>9, <4>1, Zenon
      <4>4. IssuedTo(u, p, e)'
        BY <2>1, <3>1, <4>1, <4>3, Zenon DEF IssuedTo
      <4> QED BY <4>2, <4>4, Zenon
    <3>2. CASE u # NoTid
      <4>1. u \in Tids /\ txns[u].epochs # <<>> /\ txns[u].producer = p /\ e \in 0..EpochOf(u)
        BY <2>11, <3>2, Zenon DEF IssuedTo
      <4>2. CASE u = t
        <5>1. e \in 0..(n - 1)
          BY <2>8, <4>1, <4>2
        <5>2. e \in 0..n /\ e # n
          BY <2>8, <5>1
        <5>3. e \in 0..(EpochOf(u)')
          BY <2>8, <4>2, <5>2
        <5> QED BY <2>9, <3>2, <4>1, <5>2, <5>3, Zenon DEF IssuedTo
      <4>3. CASE u # t
        <5>1. p # pid
          BY <2>0, <1>10, <2>3, <4>1, <4>3, Zenon DEF LedgerIds
        <5>2. IssuedTo(u, p, e)'
          BY <2>3, <2>11, <3>2, <4>1, <4>3, Zenon DEF IssuedTo, EpochOf
        <5> QED BY <5>1, <5>2, Zenon
      <4> QED BY <4>2, <4>3, Zenon
    <3> QED BY <3>1, <3>2, Zenon
  <2>12. IssuedTo(t, pid, n)'
    <3>1. n \in 0..(EpochOf(t)')
      BY <2>8
    <3>2. (txns[t].epochs # <<>>)' /\ txns'[t].producer = pid
      BY <1>10, <2>0, <2>3, <2>9, Zenon
    <3> QED BY <1>10, <3>1, <3>2, Zenon DEF IssuedTo
  <2>13. Detail(t, n)'.state = "none"
    <3>1. Detail(t, n)' = txns'[t].epochs[n + 1]
      BY Zenon DEF Detail
    <3>2. txns'[t].epochs[n + 1] = NewDetail
      BY <2>3, <2>5, <2>6, <2>7, Zenon
    <3>3. NewDetail.state = "none"
      BY DEF NewDetail
    <3> QED BY <3>1, <3>2, <3>3, Zenon
  <2>14. Fresh(x, pid, n)
    BY <2>2, <2>11, <2>12, <2>13, Zenon DEF Fresh
  <2>15. \A u \in Tids : \A i \in 1..Len(txns[u].epochs) :
           /\ i \in 1..Len(txns'[u].epochs) /\ txns'[u].epochs[i] = txns[u].epochs[i]
           /\ txns'[u].producer = txns[u].producer
    <3> TAKE u \in Tids
    <3>1. CASE u = t
      <4>1. \A i \in 1..Len(was.epochs) : i \in 1..(Len(was.epochs) + 1)
        BY <2>7
      <4>2. txns'[u].epochs = eps /\ txns[u] = was /\ txns'[u].producer = txns[u].producer
        BY <2>3, <2>6, <3>1, Zenon
      <4> QED BY <2>5, <4>1, <4>2, Zenon
    <3>2. CASE u # t
      BY <2>3, <3>2, Zenon
    <3> QED BY <3>1, <3>2, Zenon
  <2> QED BY <1>5, <2>10, <2>11, <2>14, <2>15, Zenon
<1> QED BY <1>7, <1>8, <1>9, <1>10, Zenon

\* What a step that is no ledger step of init_producer_id may make of the calls that hold an identity,
\* and of the clients.
LEMMA HoldersMove ==
    ASSUME Given, NEW top \in {IMax, 2 * IMax}, Types(top),
           top = IMax => Room, Next, ~\E x \in Clients \X Slots : InitCas(x)
    PROVE  /\ \A x \in Clients \X Slots : calls'[x].pc = "seed" =>
                \E y \in Clients \X Slots :
                  /\ calls[y].pc = "seed" /\ calls'[x] = calls[y] /\ y[1] = x[1]
                  /\ y = x \/ (Abandon(x[1]) /\ x[2] = "old" /\ y = <<x[1], "main">>)
           /\ \A c \in Clients : cl'[c].pid # -1 =>
                \/ cl'[c].pid = cl[c].pid /\ cl'[c].epoch = cl[c].epoch
                \/ /\ Seed(<<c, "main">>) /\ calls[<<c, "main">>].pc = "seed"
                   /\ cl'[c].pid = calls[<<c, "main">>].pid /\ cl'[c].epoch = calls[<<c, "main">>].epoch
<1>0. IMax \in Nat
  BY Zenon DEF Given, ProducerLogAssumption
<1>1. top \in Int
  BY <1>0
<1>2. CallStep /\ ClientStep(top) /\ ClientTypes(top)
  BY <1>1, NextCallStep, NextClientStep, Zenon DEF Types
<1>3. ASSUME NEW x \in Clients \X Slots, calls'[x].pc = "seed"
      PROVE  \E y \in Clients \X Slots :
               /\ calls[y].pc = "seed" /\ calls'[x] = calls[y] /\ y[1] = x[1]
               /\ y = x \/ (Abandon(x[1]) /\ x[2] = "old" /\ y = <<x[1], "main">>)
  <2>1. "seed" \notin {"mark", "wait", "register"} /\ "seed" # "mark"
    OBVIOUS
  <2>2. \/ calls[x].pc = "seed" /\ calls'[x] = calls[x]
        \/ Abandon(x[1]) /\ x[2] = "old" /\ calls'[x] = calls[<<x[1], "main">>]
    <3>1. CallMoves(x)
      BY <1>2, Zenon DEF CallStep
    <3> QED BY <1>3, <2>1, <3>1, Zenon DEF CallMoves
  <2>3. CASE calls[x].pc = "seed" /\ calls'[x] = calls[x]
    BY <2>3, Zenon
  <2>4. CASE Abandon(x[1]) /\ x[2] = "old" /\ calls'[x] = calls[<<x[1], "main">>]
    <3> DEFINE y == <<x[1], "main">>
    <3>1. y \in Clients \X Slots /\ y[1] = x[1]
      BY DEF Slots
    <3> QED BY <1>3, <2>4, <3>1, Zenon
  <2> QED BY <2>2, <2>3, <2>4, Zenon
<1>4. ASSUME NEW c \in Clients, cl'[c].pid # -1
      PROVE  \/ cl'[c].pid = cl[c].pid /\ cl'[c].epoch = cl[c].epoch
             \/ /\ Seed(<<c, "main">>) /\ calls[<<c, "main">>].pc = "seed"
                /\ cl'[c].pid = calls[<<c, "main">>].pid /\ cl'[c].epoch = calls[<<c, "main">>].epoch
  <2>1. ClientMoves(c)
    BY <1>2, Zenon DEF ClientStep
  <2>2. ASSUME NEW p \in Partitions, NEW n \in BatchSizes, NEW r \in Replicas, Send(c, p, n, r)
        PROVE  cl'[c].pid = cl[c].pid /\ cl'[c].epoch = cl[c].epoch
    BY <1>2, <2>2, SendEffect, Zenon
  <2>3. Seed(<<c, "main">>) => calls[<<c, "main">>].pc = "seed"
    BY Zenon DEF Seed
  <2> QED BY <1>4, <2>1, <2>2, <2>3, Zenon DEF ClientMoves
<1> QED BY <1>3, <1>4, Zenon

\* What holds an identity in one state was given it.
LEMMA IdStep ==
    ASSUME Given, NEW top \in {IMax, 2 * IMax}, Types(top),
           top = IMax => Room, IdInv, [Next]_vars
    PROVE  IdInv'
<1> DEFINE X == Clients \X Slots
<1>0. IMax \in Nat
  BY Zenon DEF Given, ProducerLogAssumption
<1>1. top \in Int
  BY <1>0
<1>2. LedgerIds /\ HoldersIssued /\ HoldersDiffer /\ LedgerTypes
  BY Zenon DEF IdInv, Types
<1>2a. \A x \in X, y \in X : x # y /\ calls[x].pc = "seed" /\ calls[y].pc = "seed"
          => <<calls[x].pid, calls[x].epoch>> # <<calls[y].pid, calls[y].epoch>>
  BY <1>2, Zenon DEF HoldersDiffer
<1>2b. \A x \in X, c \in Clients : calls[x].pc = "seed" => <<calls[x].pid, calls[x].epoch>> # <<cl[c].pid, cl[c].epoch>>
  BY <1>2, Zenon DEF HoldersDiffer
<1>3. \A c \in Clients : TidOf[c] = NoTid \/ TidOf[c] \in Tids
  BY Zenon DEF Tids
<1>4. \A x \in X : x[1] \in Clients
  OBVIOUS
<1>5. CASE Next /\ \E x \in X : InitCas(x)
  <2>1. PICK x \in X : InitCas(x)
    BY <1>5, Zenon
  <2>2. /\ LedgerIds'
        /\ \A t, p, e : (t = NoTid \/ t \in Tids) /\ IssuedTo(t, p, e) => IssuedTo(t, p, e)'
        /\ calls'[x].pc = "seed" => \E pid, epoch : Fresh(x, pid, epoch)
        /\ \A y \in X : y # x => calls'[y] = calls[y]
    BY <1>1, <1>2, <2>1, InitCasEffect, Zenon
  <2>3. cl' = cl
    BY <2>1, Zenon DEF InitCas
  <2>4. ASSUME calls'[x].pc = "seed"
        PROVE  /\ IssuedTo(TidOf[x[1]], calls[x].pid, calls[x].epoch)'
               /\ \A t, p, e : (t = NoTid \/ t \in Tids) /\ IssuedTo(t, p, e) =>
                    <<p, e>> # <<calls'[x].pid, calls'[x].epoch>>
    <3>1. PICK pid, epoch : Fresh(x, pid, epoch)
      BY <2>2, <2>4, Zenon
    <3>2. IssuedTo(TidOf[x[1]], calls[x].pid, calls[x].epoch)'
      BY <3>1, Zenon DEF Fresh, IssuedTo
    <3>3. \A t, p, e : (t = NoTid \/ t \in Tids) /\ IssuedTo(t, p, e) =>
            <<p, e>> # <<calls'[x].pid, calls'[x].epoch>>
      BY <3>1, Zenon DEF Fresh
    <3> QED BY <3>2, <3>3, Zenon
  <2>5. ASSUME NEW y \in X, y # x, calls'[y].pc = "seed"
        PROVE  /\ IssuedTo(TidOf[y[1]], calls[y].pid, calls[y].epoch) /\ calls[y].pc = "seed"
               /\ IssuedTo(TidOf[y[1]], calls[y].pid, calls[y].epoch)'
    <3>1. calls[y].pc = "seed" /\ calls'[y] = calls[y]
      BY <2>2, <2>5, Zenon
    <3>2. IssuedTo(TidOf[y[1]], calls[y].pid, calls[y].epoch)
      BY <1>2, <3>1, Zenon DEF HoldersIssued
    <3>3. PICK p, e : p = calls[y].pid /\ e = calls[y].epoch
      BY Zenon
    <3>4. IssuedTo(TidOf[y[1]], p, e)'
      BY <1>3, <1>4, <2>2, <3>2, <3>3, Zenon
    <3>5. IssuedTo(TidOf[y[1]], calls[y].pid, calls[y].epoch)'
      BY <3>1, <3>3, <3>4, Zenon DEF IssuedTo
    <3> QED BY <3>1, <3>2, <3>5, Zenon
  <2>6. ASSUME NEW c \in Clients, cl[c].pid # -1
        PROVE  /\ IssuedTo(TidOf[c], cl[c].pid, cl[c].epoch)
               /\ IssuedTo(TidOf[c], cl[c].pid, cl[c].epoch)'
    <3>1. IssuedTo(TidOf[c], cl[c].pid, cl[c].epoch)
      BY <1>2, <2>6, Zenon DEF HoldersIssued
    <3>2. PICK p, e : p = cl[c].pid /\ e = cl[c].epoch
      BY Zenon
    <3>3. IssuedTo(TidOf[c], p, e)'
      BY <1>3, <2>2, <3>1, <3>2, Zenon
    <3> QED BY <2>3, <3>1, <3>2, <3>3, Zenon DEF IssuedTo
  <2>7. HoldersIssued'
    <3>1. \A c \in Clients : (cl[c].pid # -1 => IssuedTo(TidOf[c], cl[c].pid, cl[c].epoch))'
      BY <2>3, <2>6, Zenon
    <3>2. \A y \in X : (calls[y].pc = "seed" => IssuedTo(TidOf[y[1]], calls[y].pid, calls[y].epoch))'
      BY <2>4, <2>5, Zenon
    <3> QED BY <3>1, <3>2, Zenon DEF HoldersIssued
  <2>8. HoldersDiffer'
    <3>1. ASSUME NEW y \in X, y # x, calls'[y].pc = "seed", calls'[x].pc = "seed"
          PROVE  <<calls'[x].pid, calls'[x].epoch>> # <<calls'[y].pid, calls'[y].epoch>>
      <4>1. <<calls[y].pid, calls[y].epoch>> # <<calls'[x].pid, calls'[x].epoch>>
        BY <1>3, <1>4, <2>4, <2>5, <3>1, Zenon
      <4> QED BY <2>2, <3>1, <4>1, Zenon
    <3>2. ASSUME NEW y \in X, NEW z \in X, y # z, calls'[y].pc = "seed", calls'[z].pc = "seed"
          PROVE  <<calls'[y].pid, calls'[y].epoch>> # <<calls'[z].pid, calls'[z].epoch>>
      <4>1. CASE y = x \/ z = x
        BY <3>1, <3>2, <4>1, Zenon
      <4>2. CASE y # x /\ z # x
        <5>1. calls'[y] = calls[y] /\ calls'[z] = calls[z]
          BY <2>2, <4>2, Zenon
        <5>2. <<calls[y].pid, calls[y].epoch>> # <<calls[z].pid, calls[z].epoch>>
          BY <1>2a, <3>2, <5>1, Zenon
        <5> QED BY <5>1, <5>2, Zenon
      <4> QED BY <4>1, <4>2, Zenon
    <3>3. ASSUME NEW y \in X, NEW c \in Clients, calls'[y].pc = "seed"
          PROVE  <<calls'[y].pid, calls'[y].epoch>> # <<cl'[c].pid, cl'[c].epoch>>
      <4>1. CASE y # x
        <5>1. calls'[y] = calls[y]
          BY <2>2, <4>1, Zenon
        <5>2. <<calls[y].pid, calls[y].epoch>> # <<cl[c].pid, cl[c].epoch>>
          BY <1>2b, <3>3, <5>1, Zenon
        <5> QED BY <2>3, <5>1, <5>2, Zenon
      <4>2. CASE y = x /\ cl[c].pid # -1
        BY <1>3, <2>3, <2>4, <2>6, <3>3, <4>2, Zenon
      <4>3. CASE y = x /\ cl[c].pid = -1
        <5>1. IssuedTo(TidOf[x[1]], calls[x].pid, calls[x].epoch)'
          BY <2>4, <3>3, <4>3, Zenon
        <5>2. PICK p, e : p = calls'[x].pid /\ e = calls'[x].epoch
          BY Zenon
        <5>3. IssuedTo(TidOf[x[1]], p, e)'
          BY <5>1, <5>2, Zenon DEF IssuedTo
        <5>4. (LedgerIds /\ IssuedTo(TidOf[x[1]], p, e) => p \in 1..lastPid)'
          BY <1>3, <1>4, Zenon DEF IssuedTo, LedgerIds
        <5>5. p \in 1..lastPid'
          BY <2>2, <5>3, <5>4, Zenon
        <5>6. p # -1
          BY <5>5
        <5> QED BY <2>3, <4>3, <5>2, <5>6, Zenon
      <4> QED BY <4>1, <4>2, <4>3, Zenon
    <3>4. \A c, d \in Clients : c # d /\ cl'[c].pid # -1 => <<cl'[c].pid, cl'[c].epoch>> # <<cl'[d].pid, cl'[d].epoch>>
      BY <1>2, <2>3, Zenon DEF HoldersDiffer
    <3> QED BY <3>2, <3>3, <3>4, Zenon DEF HoldersDiffer
  <2> QED BY <2>2, <2>7, <2>8, Zenon DEF IdInv
<1>6. CASE Next /\ ~\E x \in X : InitCas(x)
  <2>1. LedgerStep /\ LedgerKeeps
    BY <1>1, <1>6, NextLedgerStep, Zenon DEF LedgerStep
  <2>2. \A t, p, e : (t = NoTid \/ t \in Tids) => (IssuedTo(t, p, e)' <=> IssuedTo(t, p, e))
    BY <1>2, <2>1, IssuedKept, Zenon
  <2>3. \A x \in X : calls'[x].pc = "seed" =>
                \E y \in X :
                  /\ calls[y].pc = "seed" /\ calls'[x] = calls[y] /\ y[1] = x[1]
                  /\ y = x \/ (Abandon(x[1]) /\ x[2] = "old" /\ y = <<x[1], "main">>)
    BY <1>6, HoldersMove, Zenon
  <2>4. \A c \in Clients : cl'[c].pid # -1 =>
                \/ cl'[c].pid = cl[c].pid /\ cl'[c].epoch = cl[c].epoch
                \/ /\ Seed(<<c, "main">>) /\ calls[<<c, "main">>].pc = "seed"
                   /\ cl'[c].pid = calls[<<c, "main">>].pid /\ cl'[c].epoch = calls[<<c, "main">>].epoch
    BY <1>6, HoldersMove, Zenon
  <2>5. \A c \in Clients : <<c, "main">> \in X /\ <<c, "main">>[1] = c /\ <<c, "old">> \in X
    BY DEF Slots
  <2>6. LedgerIds'
    <3>1. lastPid' = lastPid /\ \A t \in Tids : txns'[t].producer = txns[t].producer
      BY <2>1, Zenon DEF LedgerKeeps
    <3>2. \A t \in Tids : (txns'[t].epochs = <<>> <=> txns[t].epochs = <<>>)
      <4> TAKE t \in Tids
      <4>1. txns[t] \in [producer : Nat, epochs : Seq(TxnDetails)]
        BY <1>2, Zenon DEF LedgerTypes
      <4>2. txns'[t] \in [producer : Nat, epochs : Seq(TxnDetails)]
        BY <2>1, Zenon DEF LedgerTypes, LedgerStep
      <4>3. txns[t].epochs \in Seq(TxnDetails) /\ txns'[t].epochs \in Seq(TxnDetails)
        BY <4>1, <4>2
      <4>4. Len(txns'[t].epochs) = Len(txns[t].epochs)
        BY <2>1, Zenon DEF LedgerKeeps
      <4> QED BY <4>3, <4>4
    <3> QED BY <1>2, <3>1, <3>2, Zenon DEF LedgerIds
  <2>7. HoldersIssued'
    <3>1. ASSUME NEW c \in Clients, cl'[c].pid # -1 PROVE IssuedTo(TidOf[c], cl[c].pid, cl[c].epoch)'
      <4>1. PICK p, e : p = cl'[c].pid /\ e = cl'[c].epoch
        BY Zenon
      <4>2. IssuedTo(TidOf[c], p, e)
        BY <1>2, <2>4, <2>5, <3>1, <4>1, Zenon DEF HoldersIssued
      <4>3. IssuedTo(TidOf[c], p, e)'
        BY <1>3, <2>2, <4>2, Zenon
      <4> QED BY <4>1, <4>3, Zenon DEF IssuedTo
    <3>2. ASSUME NEW x \in X, calls'[x].pc = "seed" PROVE IssuedTo(TidOf[x[1]], calls[x].pid, calls[x].epoch)'
      <4>1. PICK p, e : p = calls'[x].pid /\ e = calls'[x].epoch
        BY Zenon
      <4>2. IssuedTo(TidOf[x[1]], p, e)
        BY <1>2, <2>3, <3>2, <4>1, Zenon DEF HoldersIssued
      <4>3. IssuedTo(TidOf[x[1]], p, e)'
        BY <1>3, <1>4, <2>2, <4>2, Zenon
      <4> QED BY <4>1, <4>3, Zenon DEF IssuedTo
    <3> QED BY <3>1, <3>2, Zenon DEF HoldersIssued
  <2>8. ASSUME NEW c \in Clients, Abandon(c) \/ Seed(<<c, "main">>) PROVE calls'[<<c, "main">>].pc = "idle"
    <3>1. calls \in [X -> CallSet]
      BY Zenon DEF Types, CallTypes
    <3>2. calls'[<<c, "main">>] = NoCall
      <4>1. CASE Abandon(c)
        <5>1. calls' = [calls EXCEPT ![<<c, "old">>] = calls[<<c, "main">>], ![<<c, "main">>] = NoCall]
          BY <4>1, Zenon DEF Abandon
        <5> QED BY <2>5, <3>1, <5>1
      <4>2. CASE Seed(<<c, "main">>)
        <5>1. calls' = [calls EXCEPT ![<<c, "main">>] = NoCall]
          BY <4>2, Zenon DEF Seed
        <5> QED BY <2>5, <3>1, <5>1, Zenon
      <4> QED BY <2>8, <4>1, <4>2, Zenon
    <3> QED BY <3>2, NoCallTyped, Zenon
  <2>9. ASSUME NEW c \in Clients, Abandon(c), Seed(<<c, "main">>) PROVE calls'[<<c, "old">>].pc = "idle"
    <3>1. calls \in [X -> CallSet]
      BY Zenon DEF Types, CallTypes
    <3>2. calls' = [calls EXCEPT ![<<c, "main">>] = NoCall] /\ calls[<<c, "old">>].pc = "idle"
      BY <2>9, Zenon DEF Seed, Abandon
    <3>3. <<c, "old">> # <<c, "main">>
      OBVIOUS
    <3> QED BY <2>5, <3>1, <3>2, <3>3
  <2>10. ASSUME NEW x \in X PROVE x[2] = "old" => x = <<x[1], "old">>
    OBVIOUS
  <2>11. "idle" # "seed"
    OBVIOUS
  <2>12. ASSUME NEW x \in X, NEW z \in X, x # z, calls'[x].pc = "seed", calls'[z].pc = "seed"
         PROVE  <<calls'[x].pid, calls'[x].epoch>> # <<calls'[z].pid, calls'[z].epoch>>
    <3>1. PICK y \in X : /\ calls[y].pc = "seed" /\ calls'[x] = calls[y]
                         /\ y = x \/ (Abandon(x[1]) /\ x[2] = "old" /\ y = <<x[1], "main">>)
      BY <2>3, <2>12, Zenon
    <3>2. PICK w \in X : /\ calls[w].pc = "seed" /\ calls'[z] = calls[w]
                         /\ w = z \/ (Abandon(z[1]) /\ z[2] = "old" /\ w = <<z[1], "main">>)
      BY <2>3, <2>12, Zenon
    <3>3. y # w
      <4>1. CASE y = x /\ w = z
        BY <2>12, <4>1, Zenon
      <4>2. CASE y = x /\ Abandon(z[1]) /\ w = <<z[1], "main">>
        BY <1>4, <2>8, <2>11, <2>12, <4>2, Zenon
      <4>3. CASE w = z /\ Abandon(x[1]) /\ y = <<x[1], "main">>
        BY <1>4, <2>8, <2>11, <2>12, <4>3, Zenon
      <4>4. CASE x[2] = "old" /\ y = <<x[1], "main">> /\ z[2] = "old" /\ w = <<z[1], "main">>
        <5>1. x = <<x[1], "old">> /\ z = <<z[1], "old">>
          BY <2>10, <4>4, Zenon
        <5>2. x[1] = z[1] => x = z
          BY <5>1
        <5> QED BY <2>12, <4>4, <5>2
      <4> QED BY <3>1, <3>2, <4>1, <4>2, <4>3, <4>4, Zenon
    <3>4. <<calls[y].pid, calls[y].epoch>> # <<calls[w].pid, calls[w].epoch>>
      BY <1>2, <3>1, <3>2, <3>3, Zenon DEF HoldersDiffer
    <3> QED BY <3>1, <3>2, <3>4, Zenon
  <2>13. ASSUME NEW x \in X, NEW c \in Clients, calls'[x].pc = "seed"
         PROVE  <<calls'[x].pid, calls'[x].epoch>> # <<cl'[c].pid, cl'[c].epoch>>
    <3>1. PICK y \in X : /\ calls[y].pc = "seed" /\ calls'[x] = calls[y]
                         /\ y = x \/ (Abandon(x[1]) /\ x[2] = "old" /\ y = <<x[1], "main">>)
      BY <2>3, <2>13, Zenon
    <3>2. CASE cl'[c].pid = cl[c].pid /\ cl'[c].epoch = cl[c].epoch
      <4>1. <<calls[y].pid, calls[y].epoch>> # <<cl[c].pid, cl[c].epoch>>
        BY <1>2, <3>1, Zenon DEF HoldersDiffer
      <4> QED BY <3>1, <3>2, <4>1, Zenon
    <3>3. CASE /\ Seed(<<c, "main">>) /\ calls[<<c, "main">>].pc = "seed"
               /\ cl'[c].pid = calls[<<c, "main">>].pid /\ cl'[c].epoch = calls[<<c, "main">>].epoch
      <4>1. y # <<c, "main">>
        <5>1. CASE y = x
          BY <2>8, <2>11, <2>13, <3>3, <5>1, Zenon
        <5>2. CASE Abandon(x[1]) /\ x[2] = "old" /\ y = <<x[1], "main">>
          <6>1. x = <<x[1], "old">>
            BY <2>10, <5>2, Zenon
          <6>2. x[1] # c
            BY <1>4, <2>9, <2>11, <2>13, <3>3, <5>2, <6>1, Zenon
          <6> QED BY <5>2, <6>2
        <5> QED BY <3>1, <5>1, <5>2, Zenon
      <4>2. <<calls[y].pid, calls[y].epoch>> # <<calls[<<c, "main">>].pid, calls[<<c, "main">>].epoch>>
        BY <1>2, <2>5, <3>1, <3>3, <4>1, Zenon DEF HoldersDiffer
      <4> QED BY <3>1, <3>3, <4>2, Zenon
    <3>4. CASE cl'[c].pid = -1
      <4>1. IssuedTo(TidOf[y[1]], calls[y].pid, calls[y].epoch)
        BY <1>2, <3>1, Zenon DEF HoldersIssued
      <4>2. calls[y].pid \in 1..lastPid
        BY <1>2, <1>3, <1>4, <4>1, IssuedNumbered, Zenon
      <4>3. calls[y].pid # -1
        BY <4>2
      <4> QED BY <3>1, <3>4, <4>3, Zenon
    <3> QED BY <2>4, <3>2, <3>3, <3>4, Zenon
  <2>14. ASSUME NEW c \in Clients, NEW d \in Clients, c # d, cl'[c].pid # -1
         PROVE  <<cl'[c].pid, cl'[c].epoch>> # <<cl'[d].pid, cl'[d].epoch>>
    <3> DEFINE From(b) == /\ calls[<<b, "main">>].pc = "seed"
                          /\ cl'[b].pid = calls[<<b, "main">>].pid /\ cl'[b].epoch = calls[<<b, "main">>].epoch
               Same(b) == cl'[b].pid = cl[b].pid /\ cl'[b].epoch = cl[b].epoch
    <3>1. (Same(c) \/ From(c)) /\ (Same(d) \/ From(d) \/ cl'[d].pid = -1)
      BY <2>4, <2>14, Zenon
    <3>2. <<c, "main">> # <<d, "main">>
      BY <2>14
    <3>3. CASE Same(c) /\ Same(d)
      BY <1>2, <2>14, <3>3, Zenon DEF HoldersDiffer
    <3>4. CASE From(c) /\ Same(d)
      <4>1. <<calls[<<c, "main">>].pid, calls[<<c, "main">>].epoch>> # <<cl[d].pid, cl[d].epoch>>
        BY <1>2b, <2>5, <3>4, Zenon
      <4> QED BY <3>4, <4>1, Zenon
    <3>5. CASE Same(c) /\ From(d)
      <4>1. <<calls[<<d, "main">>].pid, calls[<<d, "main">>].epoch>> # <<cl[c].pid, cl[c].epoch>>
        BY <1>2b, <2>5, <3>5, Zenon
      <4> QED BY <3>5, <4>1, Zenon
    <3>6. CASE From(c) /\ From(d)
      <4>1. <<calls[<<c, "main">>].pid, calls[<<c, "main">>].epoch>> # <<calls[<<d, "main">>].pid, calls[<<d, "main">>].epoch>>
        BY <1>2a, <2>5, <3>2, <3>6, Zenon
      <4> QED BY <3>6, <4>1, Zenon
    <3>7. CASE cl'[d].pid = -1
      BY <2>14, <3>7, Zenon
    <3> QED BY <3>1, <3>3, <3>4, <3>5, <3>6, <3>7, Zenon
  <2>15. HoldersDiffer'
    BY <2>12, <2>13, <2>14, Zenon DEF HoldersDiffer
  <2> QED BY <2>6, <2>7, <2>15, Zenon DEF IdInv
<1>7. CASE vars' = vars
  <2>1. UNCHANGED <<lastPid, txns, calls, cl>>
    BY <1>7, Zenon DEF vars, ledger
  <2>2. LedgerIds'
    BY <1>2, <2>1, Zenon DEF LedgerIds
  <2>3. HoldersIssued'
    BY <1>2, <2>1, ZenonT(30) DEF HoldersIssued, IssuedTo, EpochOf
  <2>4. HoldersDiffer'
    BY <1>2, <2>1, Zenon DEF HoldersDiffer
  <2> QED BY <2>2, <2>3, <2>4, Zenon DEF IdInv
<1> QED BY <1>5, <1>6, <1>7, Zenon

\* Nobody holds anything at first.
LEMMA IdInit ==
    ASSUME Init
    PROVE  IdInv
<1>1. /\ txns = [t \in Tids |-> [producer |-> 0, epochs |-> <<>>]]
      /\ calls = [x \in Clients \X Slots |-> NoCall] /\ cl = [c \in Clients |-> NewClient]
  BY Zenon DEF Init
<1>2. \A t \in Tids : txns[t].epochs = <<>>
  BY <1>1
<1>3. NewClient.pid = -1 /\ NoCall.pc # "seed"
  BY DEF NewClient, NoCall
<1>4. (\A c \in Clients : cl[c].pid = -1) /\ (\A x \in Clients \X Slots : calls[x].pc # "seed")
  BY <1>1, <1>3, Zenon
<1> QED BY <1>2, <1>4, Zenon DEF IdInv, LedgerIds, HoldersIssued, HoldersDiffer

=============================================================================
