------------------------- MODULE FlushQueue_proofs -------------------------
(***************************************************************************)
(* Theorems about FlushQueue, for any number of connections and batches:   *)
(* the types, the hand-over between the closers of windows and the worker  *)
(* (one worker at most, no closed window without one), the order in which  *)
(* batches reach the flush, and what closes a window.                      *)
(***************************************************************************)
EXTENDS FlushQueue, TLAPS, FiniteSetTheorems, SequenceTheorems

\* The worker is where the flag says: polling, or awaiting one flush.
WorkerInv ==
    /\ draining => \/ polling = 1 /\ flights = {}
                   \/ polling = 0 /\ \E w \in Windows : flights = {w}
    /\ ~ draining => polling = 0 /\ flights = {} /\ closed = <<>>

IInv == TypeOK /\ WorkerInv /\ enqueued = started + Len(closed)

\* enqueue_prefix_flush keeps the queue typed and leaves it with a worker.
LEMMA EnqueueEffect ==
    ASSUME IInv, NEW w \in Windows, Enqueue(w), UNCHANGED <<started, flights>>
    PROVE  /\ closed' \in Seq(Windows) /\ enqueued' \in Nat
           /\ draining' \in BOOLEAN /\ polling' \in Nat
           /\ WorkerInv' /\ enqueued' = started' + Len(closed')
  <1>1. /\ closed \in Seq(Windows) /\ enqueued \in Nat /\ polling \in Nat
        /\ started \in Nat /\ draining \in BOOLEAN
    BY Zenon DEF IInv, TypeOK
  <1>2. closed' = Append(closed, w) /\ enqueued' = enqueued + 1 /\ draining' = TRUE
    BY Zenon DEF Enqueue
  <1>3. closed' \in Seq(Windows) /\ Len(closed') = Len(closed) + 1
    BY <1>1, <1>2
  <1>4. enqueued = started + Len(closed) /\ Len(closed) \in Nat
    BY <1>1 DEF IInv
  <1>5. enqueued' \in Nat /\ enqueued' = started' + Len(closed')
    BY <1>1, <1>2, <1>3, <1>4
  <1>6. CASE draining
    <2>1. polling' = polling /\ flights' = flights
      BY <1>6, Zenon DEF Enqueue
    <2>2. WorkerInv'
      BY <2>1, <1>2, <1>6, Zenon DEF WorkerInv, IInv
    <2> QED BY <2>1, <2>2, <1>1, <1>2, <1>3, <1>5, Zenon
  <1>7. CASE ~ draining
    <2>1. polling' = polling + 1 /\ flights' = flights
      BY <1>7, Zenon DEF Enqueue
    <2>2. polling = 0 /\ flights = {}
      BY <1>7, Zenon DEF WorkerInv, IInv
    <2>3. polling' = 1 /\ polling' \in Nat
      BY <2>1, <2>2
    <2>4. WorkerInv'
      BY <2>1, <2>2, <2>3, <1>2, Zenon DEF WorkerInv
    <2> QED BY <2>3, <2>4, <1>1, <1>2, <1>3, <1>5, Zenon
  <1> QED BY <1>6, <1>7, <1>1, Zenon

\* A batch is admitted: the window stays open, or closes and is queued.
LEMMA AdmitStep ==
    ASSUME FlushQueueAssumption, IInv, NEW c \in Conns, NEW b \in Batches, Admit(c, b)
    PROVE  IInv'
  <1> DEFINE first == pending = <<>>
             w == IF first THEN windows + 1 ELSE window
             bs == Append(pending, b)
             win == [number |-> w, pending |-> bs, full |-> TRUE, timed |-> FALSE]
  <1>1. /\ pending \in Seq(Batches) /\ window \in Nat /\ windows \in Nat
        /\ size \in Nat /\ Size[b] \in Nat /\ backfill \in BOOLEAN
        /\ timers \subseteq Nat /\ waiting \in [Conns -> Nat]
        /\ admitted \in Seq(Batches)
    BY Zenon DEF IInv, TypeOK, FlushQueueAssumption
  <1>2. /\ w \in Nat /\ bs \in Seq(Batches) /\ size + Size[b] \in Nat
        /\ 0 \in Nat /\ <<>> \in Seq(Batches)
    BY <1>1
  <1>3. win \in Windows
    BY <1>2 DEF Windows
  <1>4. admitted' \in Seq(Batches)
    <2>1. admitted' = Append(admitted, b)
      BY Zenon DEF Admit
    <2> QED BY <2>1, <1>1
  <1>5. windows' \in Nat
    <2>1. windows' = (IF first THEN w ELSE windows)
      BY Zenon DEF Admit
    <2> QED BY <2>1, <1>1, <1>2, Zenon
  <1>6. UNCHANGED <<started, flights, answer, log, lingered>>
    BY Zenon DEF Admit
  <1>7. CASE /\ Enqueue(win)
             /\ TakeBuffer
             /\ waiting' = [waiting EXCEPT ![c] = enqueued']
             /\ UNCHANGED timers
    <2>1. /\ closed' \in Seq(Windows) /\ enqueued' \in Nat
          /\ draining' \in BOOLEAN /\ polling' \in Nat
          /\ WorkerInv' /\ enqueued' = started' + Len(closed')
      BY <1>3, <1>6, <1>7, EnqueueEffect, Zenon
    <2>2. waiting' \in [Conns -> Nat]
      BY <1>1, <1>7, <2>1, Zenon
    <2>3. /\ pending' \in Seq(Batches) /\ size' \in Nat /\ backfill' \in BOOLEAN
          /\ window' \in Nat
      BY <1>2, <1>7, Zenon DEF TakeBuffer
    <2> QED BY <2>1, <2>2, <2>3, <1>1, <1>4, <1>5, <1>6, <1>7, Zenon DEF IInv, TypeOK
  <1>8. CASE /\ pending' = bs /\ size' = size + Size[b]
             /\ backfill' = (backfill \/ b \in Backfill) /\ window' = w
             /\ timers' = IF first THEN timers \cup {w} ELSE timers
             /\ UNCHANGED <<queueVars, waiting>>
    <2>1. timers' \subseteq Nat
      BY <1>1, <1>2, <1>8, Zenon
    <2>2. UNCHANGED <<closed, enqueued, draining, polling, waiting>>
      BY <1>8, Zenon DEF queueVars
    <2>3. WorkerInv'
      BY <2>2, <1>6, Zenon DEF WorkerInv, IInv
    <2> QED BY <2>1, <2>2, <2>3, <1>2, <1>4, <1>5, <1>6, <1>8, Zenon DEF IInv, TypeOK
  <1> QED BY <1>7, <1>8, Zenon DEF Admit

\* A timer fires: it closes its own window, or does nothing.
LEMMA LingerStep ==
    ASSUME IInv, NEW t \in timers, LingerElapses(t)
    PROVE  IInv'
  <1> DEFINE win == [number |-> t, pending |-> pending, full |-> FALSE, timed |-> TRUE]
  <1>1. /\ pending \in Seq(Batches) /\ timers \subseteq Nat /\ lingered \subseteq Nat
        /\ window \in Nat
    BY Zenon DEF IInv, TypeOK
  <1>2. timers' \subseteq Nat /\ lingered' \subseteq Nat
    BY <1>1, Zenon DEF LingerElapses
  <1>3. UNCHANGED <<windows, started, flights, waiting, answer, admitted, log>>
    BY Zenon DEF LingerElapses
  <1>4. CASE Enqueue(win) /\ TakeBuffer
    <2>1. win \in Windows
      BY <1>1 DEF Windows
    <2>2. /\ closed' \in Seq(Windows) /\ enqueued' \in Nat
          /\ draining' \in BOOLEAN /\ polling' \in Nat
          /\ WorkerInv' /\ enqueued' = started' + Len(closed')
      BY <2>1, <1>3, <1>4, EnqueueEffect, Zenon
    <2>3. <<>> \in Seq(Batches) /\ 0 \in Nat
      OBVIOUS
    <2> QED BY <2>2, <2>3, <1>2, <1>3, <1>4, Zenon DEF IInv, TypeOK, TakeBuffer
  <1>5. CASE UNCHANGED <<bufferVars, queueVars>>
    <2>1. UNCHANGED <<pending, size, backfill, window, closed, enqueued, draining, polling>>
      BY <1>5, Zenon DEF bufferVars, queueVars
    <2>2. WorkerInv'
      BY <2>1, <1>3, Zenon DEF WorkerInv, IInv
    <2> QED BY <2>1, <2>2, <1>2, <1>3, Zenon DEF IInv, TypeOK
  <1> QED BY <1>4, <1>5, Zenon DEF LingerElapses

\* The worker pops a window and awaits its flush.
LEMMA FlightStep ==
    ASSUME IInv, StartFlight
    PROVE  IInv'
  <1>1. /\ closed \in Seq(Windows) /\ started \in Nat /\ polling \in Nat
        /\ enqueued \in Nat /\ log \in Seq(Batches) /\ flights \subseteq Windows
    BY Zenon DEF IInv, TypeOK
  <1>2. /\ polling > 0 /\ closed # <<>> /\ closed' = Tail(closed)
        /\ started' = started + 1 /\ flights' = flights \cup {Head(closed)}
        /\ polling' = polling - 1 /\ log' = log \o Head(closed).pending
        /\ UNCHANGED <<pending, size, backfill, window, windows, timers, enqueued, draining, waiting,
                       answer, admitted, lingered>>
    BY Zenon DEF StartFlight, bufferVars
  <1>3. /\ Head(closed) \in Windows /\ Tail(closed) \in Seq(Windows)
        /\ Len(closed) = Len(Tail(closed)) + 1 /\ Len(Tail(closed)) \in Nat
    BY <1>1, <1>2
  <1>4. polling # 0
    BY <1>1, <1>2
  <1>5. draining /\ polling = 1 /\ flights = {}
    BY <1>4, Zenon DEF IInv, WorkerInv
  <1>6. polling' = 0 /\ polling' \in Nat
    BY <1>2, <1>5
  <1>7. flights' = {Head(closed)}
    BY <1>2, <1>5, Zenon
  <1>8. Head(closed).pending \in Seq(Batches)
    BY <1>3 DEF Windows
  <1>9. log' \in Seq(Batches)
    BY <1>1, <1>2, <1>8
  <1>10. enqueued = started + Len(closed)
    BY Zenon DEF IInv
  <1>11. started' \in Nat /\ enqueued' = started' + Len(closed')
    BY <1>1, <1>2, <1>3, <1>10
  <1>12. WorkerInv'
    BY <1>2, <1>3, <1>5, <1>6, <1>7, Zenon DEF WorkerInv
  <1>13. flights' \subseteq Windows /\ closed' \in Seq(Windows)
    BY <1>2, <1>3, <1>7, Zenon
  <1> QED BY <1>2, <1>6, <1>9, <1>11, <1>12, <1>13, Zenon DEF IInv, TypeOK

\* The worker finds the queue empty and ends.
LEMMA EndStep ==
    ASSUME IInv, WorkerEnds
    PROVE  IInv'
  <1>1. /\ polling > 0 /\ closed = <<>> /\ polling' = polling - 1 /\ draining' = FALSE
        /\ UNCHANGED <<pending, size, backfill, window, windows, timers, closed, enqueued, started,
                       flights, waiting, answer, admitted, log, lingered>>
    BY Zenon DEF WorkerEnds, bufferVars
  <1>2. polling \in Nat
    BY Zenon DEF IInv, TypeOK
  <1>3. polling # 0
    BY <1>1, <1>2
  <1>4. polling = 1 /\ flights = {}
    BY <1>3, Zenon DEF IInv, WorkerInv
  <1>5. polling' = 0 /\ polling' \in Nat
    BY <1>1, <1>4
  <1>6. WorkerInv'
    BY <1>1, <1>4, <1>5, Zenon DEF WorkerInv
  <1> QED BY <1>1, <1>5, <1>6, Zenon DEF IInv, TypeOK

\* A flush ends and its worker polls again.
LEMMA LandedStep ==
    ASSUME IInv, NEW w \in flights, NEW how \in {"sent", "dropped"}, Landed(w, how)
    PROVE  IInv'
  <1>1. /\ flights' = flights \ {w} /\ polling' = polling + 1
        /\ answer' = [b \in Batches |-> IF b \in Elements(w.pending) THEN how ELSE answer[b]]
        /\ UNCHANGED <<pending, size, backfill, window, windows, timers, closed, enqueued, started,
                       draining, waiting, admitted, log, lingered>>
    BY Zenon DEF Landed, bufferVars
  <1>2. draining /\ polling = 0 /\ flights = {w}
    BY Zenon DEF IInv, WorkerInv
  <1>3. polling' = 1 /\ polling' \in Nat
    BY <1>1, <1>2
  <1>4. flights' = {}
    BY <1>1, <1>2, Zenon
  <1>5. answer' \in [Batches -> {"none", "sent", "dropped"}]
    BY <1>1, Zenon DEF IInv, TypeOK
  <1>6. WorkerInv'
    BY <1>1, <1>2, <1>3, <1>4, Zenon DEF WorkerInv
  <1>7. flights' \subseteq Windows
    BY <1>4, Zenon
  <1> QED BY <1>1, <1>3, <1>5, <1>6, <1>7, Zenon DEF IInv, TypeOK

\* The invariant holds initially.
LEMMA InitHolds == Init => IInv
  <1> SUFFICES ASSUME Init PROVE IInv
    OBVIOUS
  <1>1. TypeOK
    <2>1. 0 \in Nat /\ {} \subseteq Nat /\ <<>> \in Seq(Batches) /\ <<>> \in Seq(Windows)
      OBVIOUS
    <2>2. "none" \in {"none", "sent", "dropped"} /\ FALSE \in BOOLEAN /\ {} \subseteq Windows
      BY Zenon
    <2>3. waiting \in [Conns -> Nat] /\ answer \in [Batches -> {"none", "sent", "dropped"}]
      BY <2>1, <2>2, Zenon DEF Init
    <2> QED BY <2>1, <2>2, <2>3, Zenon DEF Init, TypeOK
  <1>2. WorkerInv
    BY Zenon DEF Init, WorkerInv
  <1>3. enqueued = started + Len(closed)
    BY DEF Init
  <1> QED BY <1>1, <1>2, <1>3, Zenon DEF IInv

\* Every step preserves it.
LEMMA StepHolds ==
    ASSUME FlushQueueAssumption, IInv, [Next]_vars
    PROVE  IInv'
  <1>1. ASSUME NEW c \in Conns, NEW b \in Batches, Admit(c, b) PROVE IInv'
    BY <1>1, FlushQueueAssumption, AdmitStep, Zenon
  <1>2. ASSUME NEW c \in Conns, AdmissionReturns(c) PROVE IInv'
    <2>1. /\ waiting' = [waiting EXCEPT ![c] = 0]
          /\ UNCHANGED <<pending, size, backfill, window, windows, timers, closed, enqueued, draining,
                         polling, started, flights, answer, admitted, log, lingered>>
      BY <1>2, Zenon DEF AdmissionReturns, bufferVars, queueVars
    <2>2. 0 \in Nat
      OBVIOUS
    <2>3. waiting' \in [Conns -> Nat]
      BY <2>1, <2>2, Zenon DEF IInv, TypeOK
    <2>4. WorkerInv'
      BY <2>1, Zenon DEF IInv, WorkerInv
    <2> QED BY <2>1, <2>3, <2>4, Zenon DEF IInv, TypeOK
  <1>3. ASSUME NEW t \in timers, LingerElapses(t) PROVE IInv'
    BY <1>3, LingerStep, Zenon
  <1>4. ASSUME StartFlight PROVE IInv'
    BY <1>4, FlightStep, Zenon
  <1>5. ASSUME WorkerEnds PROVE IInv'
    BY <1>5, EndStep, Zenon
  <1>6. ASSUME NEW w \in flights, FlushAnswers(w) \/ FlushPanics(w) PROVE IInv'
    BY <1>6, LandedStep, Zenon DEF FlushAnswers, FlushPanics
  <1>7. CASE UNCHANGED vars
    BY <1>7, Zenon DEF vars, bufferVars, IInv, TypeOK, WorkerInv
  <1> QED BY <1>1, <1>2, <1>3, <1>4, <1>5, <1>6, <1>7, Zenon DEF Next

\* Every variable of the admission keeps its type, and WorkerInv holds.
THEOREM QueueConsistent == Spec => []IInv
  <1>1. Init => IInv
    BY InitHolds
  <1>2. IInv /\ [Next]_vars => IInv'
    BY StepHolds, FlushQueueAssumption
  <1> QED BY <1>1, <1>2, PTL DEF Spec

\* Types of the admission state, for every number of connections and batches.
THEOREM QueueTypeCorrect == Spec => []TypeOK
  <1>1. IInv => TypeOK
    BY Zenon DEF IInv
  <1> QED BY <1>1, QueueConsistent, PTL

\* The hand-over of enqueue_prefix_flush and drain_prefix_flush_queue: one worker at
\* most, the flag tells, a closed window always has one, and positions are exact.
THEOREM QueueNeverStranded == Spec => []OneWorker
  <1>1. IInv => OneWorker
    <2> SUFFICES ASSUME IInv PROVE OneWorker
      OBVIOUS
    <2>1. closed # <<>> => draining
      BY Zenon DEF IInv, WorkerInv, TypeOK
    <2>2. enqueued = started + Len(closed)
      BY Zenon DEF IInv
    <2>3. polling + Cardinality(flights) = (IF draining THEN 1 ELSE 0)
      <3>1. CASE polling = 1 /\ flights = {} /\ draining
        <4>1. Cardinality(flights) = 0
          BY <3>1, FS_EmptySet, Zenon
        <4> QED BY <3>1, <4>1
      <3>2. CASE polling = 0 /\ draining /\ \E w \in Windows : flights = {w}
        <4>1. Cardinality(flights) = 1
          BY <3>2, FS_Singleton, Zenon
        <4> QED BY <3>2, <4>1
      <3>3. CASE polling = 0 /\ flights = {} /\ ~ draining
        <4>1. Cardinality(flights) = 0
          BY <3>3, FS_EmptySet, Zenon
        <4> QED BY <3>3, <4>1
      <3> QED BY <3>1, <3>2, <3>3, Zenon DEF IInv, WorkerInv, TypeOK
    <2> QED BY <2>1, <2>2, <2>3, Zenon DEF OneWorker
  <1> QED BY <1>1, QueueConsistent, PTL
-----------------------------------------------------------------------------
(* The order of admission.                                                 *)

\* A piece of the admitted batches is still that piece after the next one.
LEMMA SubSeqOfAppend ==
    ASSUME NEW S, NEW s \in Seq(S), NEW e \in S, NEW m \in 1..Len(s) + 1, NEW n \in 0..Len(s)
    PROVE  SubSeq(Append(s, e), m, n) = SubSeq(s, m, n)
  OBVIOUS

\* The last piece grows with the next one.
LEMMA AppendToSubSeq ==
    ASSUME NEW S, NEW s \in Seq(S), NEW e \in S, NEW m \in 1..Len(s) + 1
    PROVE  SubSeq(Append(s, e), m, Len(s) + 1) = Append(SubSeq(s, m, Len(s)), e)
  OBVIOUS

\* `cut` says where the admitted batches are cut into started, queued and open ones.
Cuts(cut) ==
    /\ cut \in [0..Len(closed) -> 0..Len(admitted)]
    /\ log = SubSeq(admitted, 1, cut[0])
    /\ \A i \in DOMAIN closed :
           /\ cut[i - 1] <= cut[i]
           /\ closed[i].pending = SubSeq(admitted, cut[i - 1] + 1, cut[i])
    /\ pending = SubSeq(admitted, cut[Len(closed)] + 1, Len(admitted))

\* A window is closed with the batches `bs`, which are what follows the last cut:
\* one more cut at the end of what is admitted by then.
LEMMA CutEnqueue ==
    ASSUME TypeOK, NEW cut, Cuts(cut), NEW w \in Windows, closed' = Append(closed, w),
           pending' = <<>>, log' = log, admitted' \in Seq(Batches),
           Len(admitted') >= Len(admitted),
           \A m \in 1..Len(admitted) + 1, n \in 0..Len(admitted) :
               SubSeq(admitted', m, n) = SubSeq(admitted, m, n),
           w.pending = SubSeq(admitted', cut[Len(closed)] + 1, Len(admitted'))
    PROVE  AdmissionOrder'
  <1> DEFINE n == Len(closed)
             next == [i \in 0..n + 1 |-> IF i = n + 1 THEN Len(admitted') ELSE cut[i]]
  <1>1. n \in Nat /\ Len(admitted) \in Nat /\ Len(admitted') \in Nat /\ closed \in Seq(Windows)
    BY DEF TypeOK
  <1>2. /\ Len(closed') = n + 1 /\ DOMAIN closed' = 1..n + 1 /\ DOMAIN closed = 1..n
        /\ closed'[n + 1] = w /\ \A i \in 1..n : closed'[i] = closed[i]
    BY <1>1
  <1>3. \A i \in 0..n : cut[i] \in 0..Len(admitted) /\ next[i] = cut[i]
    <2> TAKE i \in 0..n
    <2>1. cut[i] \in 0..Len(admitted)
      BY Zenon DEF Cuts
    <2>2. i \in 0..n + 1 /\ i # n + 1
      BY <1>1
    <2> QED BY <2>1, <2>2, Zenon
  <1>4. next[n + 1] = Len(admitted') /\ n + 1 \in 0..n + 1
    BY <1>1
  <1>5. next \in [0..Len(closed') -> 0..Len(admitted')]
    <2>1. ASSUME NEW i \in 0..n + 1 PROVE (IF i = n + 1 THEN Len(admitted') ELSE cut[i]) \in 0..Len(admitted')
      <3>1. CASE i = n + 1
        BY <3>1, <1>1
      <3>2. CASE i # n + 1
        <4>1. i \in 0..n
          BY <3>2, <1>1
        <4>2. cut[i] \in 0..Len(admitted)
          BY <4>1, <1>3, Zenon
        <4>3. cut[i] \in 0..Len(admitted')
          BY <4>2, <1>1
        <4> QED BY <3>2, <4>3, Zenon
      <3> QED BY <3>1, <3>2, Zenon
    <2> QED BY <2>1, <1>2, Zenon
  <1> HIDE DEF next
  <1>6. log' = SubSeq(admitted', 1, next[0])
    <2>1. log = SubSeq(admitted, 1, cut[0])
      BY Zenon DEF Cuts
    <2>2. 0 \in 0..n /\ 1 \in 1..Len(admitted) + 1
      BY <1>1
    <2>3. next[0] = cut[0] /\ cut[0] \in 0..Len(admitted)
      BY <1>3, <2>2, Zenon
    <2> QED BY <2>1, <2>2, <2>3, Zenon
  <1>7. ASSUME NEW i \in DOMAIN closed'
        PROVE  /\ next[i - 1] <= next[i]
               /\ closed'[i].pending = SubSeq(admitted', next[i - 1] + 1, next[i])
    <2>1. CASE i \in 1..n
      <3>1. cut[i - 1] <= cut[i] /\ closed[i].pending = SubSeq(admitted, cut[i - 1] + 1, cut[i])
        BY <1>2, <2>1, Zenon DEF Cuts
      <3>2. i \in 0..n /\ i - 1 \in 0..n
        BY <1>1, <2>1
      <3>3. next[i] = cut[i] /\ next[i - 1] = cut[i - 1]
        BY <1>3, <3>2, Zenon
      <3>4. cut[i - 1] \in 0..Len(admitted) /\ cut[i] \in 0..Len(admitted)
        BY <1>3, <3>2, Zenon
      <3>6. cut[i - 1] + 1 \in 1..Len(admitted) + 1
        BY <1>1, <3>4
      <3>5. SubSeq(admitted', cut[i - 1] + 1, cut[i]) = SubSeq(admitted, cut[i - 1] + 1, cut[i])
        BY <3>4, <3>6, Zenon
      <3> QED BY <1>2, <2>1, <3>1, <3>3, <3>5, Zenon
    <2>2. CASE i = n + 1
      <3>3. n \in 0..n /\ i - 1 = n
        BY <1>1, <2>2
      <3>1. next[i - 1] = cut[n] /\ cut[n] \in 0..Len(admitted) /\ i - 1 = n
        BY <1>3, <3>3, Zenon
      <3>4. cut[n] <= Len(admitted')
        BY <1>1, <3>1
      <3>2. next[i - 1] <= next[i]
        BY <1>4, <2>2, <3>1, <3>4, Zenon
      <3> QED BY <1>2, <1>4, <2>2, <3>1, <3>2, Zenon
    <2> QED BY <1>1, <1>2, <2>1, <2>2
  <1>8. pending' = SubSeq(admitted', next[Len(closed')] + 1, Len(admitted'))
    BY <1>1, <1>2, <1>4
  <1> QED BY <1>5, <1>6, <1>7, <1>8, Zenon DEF AdmissionOrder

\* A batch joins the open window, or closes it: it comes last either way.
LEMMA OrderAdmit ==
    ASSUME FlushQueueAssumption, TypeOK, NEW cut, Cuts(cut), NEW c \in Conns, NEW b \in Batches, Admit(c, b)
    PROVE  AdmissionOrder'
  <1> DEFINE w == IF pending = <<>> THEN windows + 1 ELSE window
             bs == Append(pending, b)
             win == [number |-> w, pending |-> bs, full |-> TRUE, timed |-> FALSE]
             end == cut[Len(closed)]
  <1>1. /\ admitted \in Seq(Batches) /\ pending \in Seq(Batches) /\ closed \in Seq(Windows)
        /\ window \in Nat /\ windows \in Nat
    BY Zenon DEF TypeOK
  <1>2. admitted' = Append(admitted, b) /\ log' = log
    BY Zenon DEF Admit
  <1>3. admitted' \in Seq(Batches) /\ Len(admitted') = Len(admitted) + 1 /\ Len(admitted) \in Nat
    BY <1>1, <1>2
  <1>4. \A m \in 1..Len(admitted) + 1, n \in 0..Len(admitted) :
          SubSeq(admitted', m, n) = SubSeq(admitted, m, n)
    BY <1>1, <1>2, SubSeqOfAppend, Zenon
  <1>5. end \in 0..Len(admitted)
    <2>1. Len(closed) \in 0..Len(closed)
      BY <1>1
    <2> QED BY <2>1, Zenon DEF Cuts
  <1>6. end + 1 \in 1..Len(admitted) + 1
    BY <1>3, <1>5
  <1>7. pending = SubSeq(admitted, end + 1, Len(admitted))
    BY Zenon DEF Cuts
  <1>8. bs = SubSeq(admitted', end + 1, Len(admitted'))
    BY <1>1, <1>2, <1>3, <1>6, <1>7, AppendToSubSeq, Zenon
  <1>9. CASE Enqueue(win) /\ TakeBuffer
    <2>1. closed' = Append(closed, win) /\ pending' = <<>>
      BY <1>9, Zenon DEF Enqueue, TakeBuffer
    <2>2. w \in Nat /\ bs \in Seq(Batches)
      BY <1>1
    <2>3. win \in Windows /\ win.pending = bs
      BY <2>2 DEF Windows
    <2>4. Len(admitted') >= Len(admitted)
      BY <1>3
    <2> HIDE DEF win, bs
    <2> QED BY <2>1, <2>3, <2>4, <1>2, <1>3, <1>4, <1>8, CutEnqueue, Zenon
  <1>10. CASE pending' = bs /\ closed' = closed
    <2>1. cut \in [0..Len(closed') -> 0..Len(admitted')]
      BY <1>3, <1>10 DEF Cuts
    <2>2. \A i \in 0..Len(closed) : cut[i] \in 0..Len(admitted)
      BY Zenon DEF Cuts
    <2>3. Len(closed) \in Nat /\ DOMAIN closed = 1..Len(closed)
      BY <1>1
    <2>4. log' = SubSeq(admitted', 1, cut[0])
      <3>1. cut[0] \in 0..Len(admitted) /\ 1 \in 1..Len(admitted) + 1
        BY <2>2, <2>3, <1>3
      <3> QED BY <3>1, <1>2, <1>4, Zenon DEF Cuts
    <2>5. ASSUME NEW i \in DOMAIN closed'
          PROVE  /\ cut[i - 1] <= cut[i]
                 /\ closed'[i].pending = SubSeq(admitted', cut[i - 1] + 1, cut[i])
      <3>3. i \in 0..Len(closed) /\ i - 1 \in 0..Len(closed)
        BY <2>3, <1>10
      <3>4. cut[i - 1] \in 0..Len(admitted) /\ cut[i] \in 0..Len(admitted)
        BY <3>3, <2>2, Zenon
      <3>1. cut[i - 1] + 1 \in 1..Len(admitted) + 1 /\ cut[i] \in 0..Len(admitted)
        BY <3>4, <1>3
      <3>2. cut[i - 1] <= cut[i] /\ closed[i].pending = SubSeq(admitted, cut[i - 1] + 1, cut[i])
        BY <1>10, Zenon DEF Cuts
      <3> QED BY <3>1, <3>2, <1>4, <1>10, Zenon
    <2> QED BY <2>1, <2>4, <2>5, <1>8, <1>10, Zenon DEF AdmissionOrder
  <1> QED BY <1>9, <1>10, Zenon DEF Admit, queueVars

\* A timer closes the open window as it is, or does nothing.
LEMMA OrderLinger ==
    ASSUME TypeOK, NEW cut, Cuts(cut), NEW t \in timers, LingerElapses(t)
    PROVE  AdmissionOrder'
  <1> DEFINE win == [number |-> t, pending |-> pending, full |-> FALSE, timed |-> TRUE]
  <1>1. /\ admitted \in Seq(Batches) /\ pending \in Seq(Batches) /\ timers \subseteq Nat
        /\ admitted' = admitted /\ log' = log
    BY Zenon DEF TypeOK, LingerElapses
  <1>2. CASE Enqueue(win) /\ TakeBuffer
    <2>1. closed' = Append(closed, win) /\ pending' = <<>>
      BY <1>2, Zenon DEF Enqueue, TakeBuffer
    <2>2. win \in Windows /\ win.pending = pending
      BY <1>1 DEF Windows
    <2>3. Len(admitted') >= Len(admitted)
      BY <1>1
    <2>4. pending = SubSeq(admitted', cut[Len(closed)] + 1, Len(admitted'))
      BY <1>1, Zenon DEF Cuts
    <2> HIDE DEF win
    <2> QED BY <2>1, <2>2, <2>3, <2>4, <1>1, CutEnqueue, Zenon
  <1>3. CASE UNCHANGED <<bufferVars, queueVars>>
    <2>1. pending' = pending /\ closed' = closed
      BY <1>3, Zenon DEF bufferVars, queueVars
    <2> QED BY <2>1, <1>1, Zenon DEF Cuts, AdmissionOrder
  <1> QED BY <1>2, <1>3, Zenon DEF LingerElapses

\* The worker starts the flush of the first queued window: its batches follow the log's.
LEMMA OrderFlight ==
    ASSUME TypeOK, NEW cut, Cuts(cut), StartFlight
    PROVE  AdmissionOrder'
  <1> DEFINE n == Len(closed)
             next == [i \in 0..n - 1 |-> cut[i + 1]]
  <1>1. /\ admitted \in Seq(Batches) /\ closed \in Seq(Windows) /\ closed # <<>>
        /\ closed' = Tail(closed) /\ log' = log \o Head(closed).pending
        /\ admitted' = admitted /\ pending' = pending
    BY Zenon DEF TypeOK, StartFlight, bufferVars
  <1>2. /\ n \in Nat /\ n >= 1 /\ Len(closed') = n - 1 /\ DOMAIN closed' = 1..n - 1
        /\ DOMAIN closed = 1..n /\ Head(closed) = closed[1]
        /\ \A i \in 1..n - 1 : closed'[i] = closed[i + 1]
    BY <1>1
  <1>3. \A i \in 0..n : cut[i] \in 0..Len(admitted)
    BY Zenon DEF Cuts
  <1>4. \A i \in 0..n - 1 : next[i] = cut[i + 1]
    BY Zenon
  <1>5. next \in [0..Len(closed') -> 0..Len(admitted')]
    BY <1>1, <1>2, <1>3
  <1>6. log' = SubSeq(admitted', 1, next[0])
    <2>1. log = SubSeq(admitted, 1, cut[0]) /\ closed[1].pending = SubSeq(admitted, cut[0] + 1, cut[1])
          /\ cut[0] <= cut[1]
      <3>1. 1 \in DOMAIN closed /\ 1 - 1 = 0
        BY <1>2
      <3>2. cut[1 - 1] <= cut[1] /\ closed[1].pending = SubSeq(admitted, cut[1 - 1] + 1, cut[1])
        BY <3>1, Zenon DEF Cuts
      <3>3. log = SubSeq(admitted, 1, cut[0])
        BY Zenon DEF Cuts
      <3> QED BY <3>1, <3>2, <3>3
    <2>2. /\ 1 \in 1..Len(admitted) + 1 /\ cut[0] \in (1 - 1)..Len(admitted) /\ cut[1] \in cut[0]..Len(admitted)
          /\ next[0] = cut[1]
      BY <1>1, <1>2, <1>3, <1>4, <2>1
    <2>3. SubSeq(admitted, 1, cut[0]) \o SubSeq(admitted, cut[0] + 1, cut[1]) = SubSeq(admitted, 1, cut[1])
      BY <1>1, <2>2, ConcatAdjacentSubSeq, Zenon
    <2> QED BY <1>1, <1>2, <2>1, <2>2, <2>3, Zenon
  <1>7. ASSUME NEW i \in DOMAIN closed'
        PROVE  /\ next[i - 1] <= next[i]
               /\ closed'[i].pending = SubSeq(admitted', next[i - 1] + 1, next[i])
    <2>1. i \in 1..n - 1 /\ i + 1 \in DOMAIN closed /\ (i + 1) - 1 = i
      BY <1>2
    <2>2. cut[(i + 1) - 1] <= cut[i + 1]
          /\ closed[i + 1].pending = SubSeq(admitted, cut[(i + 1) - 1] + 1, cut[i + 1])
      BY <2>1, Zenon DEF Cuts
    <2>3. i \in 0..n - 1 /\ i - 1 \in 0..n - 1 /\ (i - 1) + 1 = i
      BY <1>2, <2>1
    <2>4. next[i] = cut[i + 1] /\ next[i - 1] = cut[i]
      BY <1>4, <2>3
    <2> QED BY <1>1, <1>2, <2>1, <2>2, <2>4
  <1>8. pending' = SubSeq(admitted', next[Len(closed')] + 1, Len(admitted'))
    <2>1. next[Len(closed')] = cut[n]
      BY <1>2, <1>4
    <2> QED BY <2>1, <1>1, Zenon DEF Cuts
  <1> HIDE DEF next
  <1> QED BY <1>5, <1>6, <1>7, <1>8, Zenon DEF AdmissionOrder

\* Every step keeps the order of admission.
LEMMA OrderStep ==
    ASSUME FlushQueueAssumption, TypeOK, AdmissionOrder, [Next]_vars
    PROVE  AdmissionOrder'
  <1>1. PICK cut : Cuts(cut)
    BY Zenon DEF AdmissionOrder, Cuts
  <1>2. ASSUME NEW c \in Conns, NEW b \in Batches, Admit(c, b) PROVE AdmissionOrder'
    BY <1>1, <1>2, FlushQueueAssumption, OrderAdmit, Zenon
  <1>3. ASSUME NEW t \in timers, LingerElapses(t) PROVE AdmissionOrder'
    BY <1>1, <1>3, OrderLinger, Zenon
  <1>4. ASSUME StartFlight PROVE AdmissionOrder'
    BY <1>1, <1>4, OrderFlight, Zenon
  <1>5. ASSUME UNCHANGED <<closed, log, pending, admitted>> PROVE AdmissionOrder'
    BY <1>1, <1>5, Zenon DEF Cuts, AdmissionOrder
  <1>6. ASSUME NEW c \in Conns, AdmissionReturns(c) PROVE UNCHANGED <<closed, log, pending, admitted>>
    BY <1>6, Zenon DEF AdmissionReturns, bufferVars, queueVars
  <1>7. ASSUME WorkerEnds PROVE UNCHANGED <<closed, log, pending, admitted>>
    BY <1>7, Zenon DEF WorkerEnds, bufferVars
  <1>8. ASSUME NEW w \in flights, FlushAnswers(w) \/ FlushPanics(w)
        PROVE  UNCHANGED <<closed, log, pending, admitted>>
    BY <1>8, Zenon DEF FlushAnswers, FlushPanics, Landed, bufferVars
  <1>9. CASE UNCHANGED vars
    BY <1>9, <1>5, Zenon DEF vars, bufferVars
  <1> QED BY <1>2, <1>3, <1>4, <1>5, <1>6, <1>7, <1>8, <1>9, Zenon DEF Next

\* Buffer order is offset order, for any number of connections and batches: batches reach
\* the flush in the order admit_prefix_coalesced buffered them, whichever way their
\* windows were closed, and none is lost or flushed twice.
THEOREM AdmissionAlwaysInOrder == Spec => []AdmissionOrder
  <1>1. Init => AdmissionOrder
    <2> SUFFICES ASSUME Init PROVE AdmissionOrder
      OBVIOUS
    <2> DEFINE cut == [i \in 0..0 |-> 0]
    <2>1. closed = <<>> /\ log = <<>> /\ pending = <<>> /\ admitted = <<>>
      BY Zenon DEF Init
    <2>2. cut \in [0..Len(closed) -> 0..Len(admitted)] /\ cut[0] = 0 /\ Len(closed) = 0 /\ Len(admitted) = 0
      BY <2>1
    <2>3. log = SubSeq(admitted, 1, cut[0]) /\ pending = SubSeq(admitted, cut[Len(closed)] + 1, Len(admitted))
      BY <2>1, <2>2
    <2>4. DOMAIN closed = {}
      BY <2>1
    <2> HIDE DEF cut
    <2> QED BY <2>2, <2>3, <2>4, Zenon DEF AdmissionOrder
  <1>2. TypeOK /\ AdmissionOrder /\ [Next]_vars => AdmissionOrder'
    BY OrderStep, FlushQueueAssumption
  <1> QED BY <1>1, <1>2, QueueTypeCorrect, PTL DEF Spec

\* The timer of a window closes that window or none (the window check of the linger task):
\* every queued window was full or has lingered itself.
THEOREM WindowsNeverCutShort == Spec => []NoWindowCutShort
  <1>1. Init => NoWindowCutShort
    BY DEF Init, NoWindowCutShort
  <1>2. ASSUME TypeOK, NoWindowCutShort, [Next]_vars PROVE NoWindowCutShort'
    <2>1. closed \in Seq(Windows)
      BY <1>2, Zenon DEF TypeOK
    <2>2. ASSUME NEW w, Enqueue(w), w.full \/ w.number \in lingered', lingered \subseteq lingered'
          PROVE  NoWindowCutShort'
      <3>1. closed' = Append(closed, w)
        BY <2>2, Zenon DEF Enqueue
      <3>2. /\ DOMAIN closed' = DOMAIN closed \cup {Len(closed) + 1} /\ closed'[Len(closed) + 1] = w
            /\ \A i \in DOMAIN closed : closed'[i] = closed[i]
        BY <2>1, <3>1
      <3> QED BY <1>2, <2>2, <3>2, Zenon DEF NoWindowCutShort
    <2>3. ASSUME closed' = closed, lingered \subseteq lingered' PROVE NoWindowCutShort'
      BY <1>2, <2>3, Zenon DEF NoWindowCutShort
    <2>4. ASSUME NEW c \in Conns, NEW b \in Batches, Admit(c, b) PROVE NoWindowCutShort'
      <3> DEFINE w == [number |-> IF pending = <<>> THEN windows + 1 ELSE window,
                       pending |-> Append(pending, b), full |-> TRUE, timed |-> FALSE]
      <3>1. (Enqueue(w) \/ closed' = closed) /\ lingered' = lingered
        BY <2>4, Zenon DEF Admit, queueVars
      <3>2. w.full
        OBVIOUS
      <3> HIDE DEF w
      <3> QED BY <2>2, <2>3, <3>1, <3>2, Zenon
    <2>5. ASSUME NEW t \in timers, LingerElapses(t) PROVE NoWindowCutShort'
      <3> DEFINE w == [number |-> t, pending |-> pending, full |-> FALSE, timed |-> TRUE]
      <3>1. (Enqueue(w) \/ closed' = closed) /\ lingered' = lingered \cup {t}
        BY <2>5, Zenon DEF LingerElapses, queueVars
      <3>2. w.number = t
        OBVIOUS
      <3> HIDE DEF w
      <3> QED BY <2>2, <2>3, <3>1, <3>2, Zenon
    <2>6. ASSUME StartFlight PROVE NoWindowCutShort'
      <3>1. closed' = Tail(closed) /\ closed # <<>> /\ lingered' = lingered
        BY <2>6, Zenon DEF StartFlight
      <3>2. \A i \in DOMAIN closed' : i + 1 \in DOMAIN closed /\ closed'[i] = closed[i + 1]
        BY <2>1, <3>1
      <3> QED BY <1>2, <3>1, <3>2, Zenon DEF NoWindowCutShort
    <2>7. ASSUME \/ \E c \in Conns : AdmissionReturns(c)
                 \/ WorkerEnds
                 \/ \E w \in flights : FlushAnswers(w) \/ FlushPanics(w)
                 \/ UNCHANGED vars
          PROVE  closed' = closed /\ lingered' = lingered
      BY <2>7, Zenon DEF AdmissionReturns, WorkerEnds, FlushAnswers, FlushPanics, Landed, queueVars, vars
    <2> QED BY <1>2, <2>3, <2>4, <2>5, <2>6, <2>7, Zenon DEF Next
  <1> QED BY <1>1, <1>2, QueueTypeCorrect, PTL DEF Spec
=============================================================================
