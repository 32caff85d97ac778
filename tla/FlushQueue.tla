----------------------------- MODULE FlushQueue -----------------------------
(***************************************************************************)
(* Produce admission of one prefix (dynostore/coalesce.rs): connections    *)
(* push batches into the open window, the window closes on size, on a      *)
(* transaction marker or on its linger timer, closed windows queue for the *)
(* one worker of the prefix, and admission waits when the queue is too     *)
(* long.  What a flush does is in SegmentLog; here it ends by answering    *)
(* every batch of its window, or by a panic that drops their answers.      *)
(***************************************************************************)
EXTENDS Naturals, Sequences, FiniteSets

CONSTANTS
    Conns,          \* connections (one admission at a time each)
    Batches,        \* batches that arrive
    Control,        \* the transaction markers among them
    Backfill,       \* the backfill-class ones among them
    Size,           \* [Batches -> Nat]: stands for count, bytes and records
    TightSize,      \* coalesce_batches / coalesce_bytes
    RelaxedSize,    \* the same for a window with a backfill batch
    Depth           \* FLUSH_QUEUE_DEPTH

ASSUME FlushQueueAssumption ==
    /\ Control \subseteq Batches /\ Backfill \subseteq Batches
    /\ Size \in [Batches -> Nat]
    /\ TightSize \in Nat /\ RelaxedSize \in Nat /\ Depth \in Nat

VARIABLES
    pending,        \* PrefixCoalesceBuffer::pending of the open window
    size,           \* its pending.len(), bytes and records as one number
    backfill,       \* whether a backfill-class batch is in it
    window,         \* its number (0: the buffer was taken, none is open)
    windows,        \* COALESCE_WINDOW: window numbers drawn so far
    timers,         \* windows whose linger timer is running
    closed,         \* PrefixFlushQueue::closed: sequence of windows
    enqueued,       \* windows ever pushed
    started,        \* windows whose flush has started
    draining,       \* whether a worker is believed to drain the queue
    polling,        \* workers about to pop the queue
    flights,        \* windows being flushed, each by a worker that awaits it
    waiting,        \* [Conns -> Nat]: position the connection waits for (0: none)
    answer,         \* [Batches -> "none" | "sent" | "dropped"]
    admitted,       \* history: batches in the order they were buffered
    log,            \* history: batches in the order their flushes started
    lingered        \* history: windows whose own linger has elapsed

bufferVars == <<pending, size, backfill, window>>

vars == <<bufferVars, windows, timers, closed, enqueued, started, draining,
          polling, flights, waiting, answer, admitted, log, lingered>>

queueVars == <<closed, enqueued, draining, polling>>

\* The batches of a window.
Elements(s) == {s[i] : i \in DOMAIN s}

Windows == [number : Nat, pending : Seq(Batches), full : BOOLEAN, timed : BOOLEAN]

TypeOK ==
    /\ pending \in Seq(Batches)
    /\ size \in Nat /\ backfill \in BOOLEAN
    /\ window \in Nat /\ windows \in Nat
    /\ timers \subseteq Nat /\ lingered \subseteq Nat
    /\ closed \in Seq(Windows)
    /\ enqueued \in Nat /\ started \in Nat
    /\ draining \in BOOLEAN
    /\ polling \in Nat
    /\ flights \subseteq Windows
    /\ waiting \in [Conns -> Nat]
    /\ answer \in [Batches -> {"none", "sent", "dropped"}]
    /\ admitted \in Seq(Batches) /\ log \in Seq(Batches)

Init ==
    /\ pending = <<>> /\ size = 0 /\ backfill = FALSE /\ window = 0
    /\ windows = 0
    /\ timers = {} /\ lingered = {}
    /\ closed = <<>> /\ enqueued = 0 /\ started = 0
    /\ draining = FALSE /\ polling = 0 /\ flights = {}
    /\ waiting = [c \in Conns |-> 0]
    /\ answer = [b \in Batches |-> "none"]
    /\ admitted = <<>> /\ log = <<>>

-----------------------------------------------------------------------------
(* Closing a window.                                                       *)

\* flush_thresholds: a window that holds a backfill batch fills up later.
FlushThreshold(bulk) == IF bulk THEN RelaxedSize ELSE TightSize

\* std::mem::take, or the removal from the map: an empty buffer is left.
TakeBuffer ==
    /\ pending' = <<>>
    /\ size' = 0
    /\ backfill' = FALSE
    /\ window' = 0

\* Mutant: every push starts a worker.
EnqueueAlwaysSpawns(w) ==
    /\ closed' = Append(closed, w)
    /\ enqueued' = enqueued + 1
    /\ draining' = TRUE
    /\ polling' = polling + 1

\* Mutant: a window is pushed at the front.
EnqueueInFront(w) ==
    /\ closed' = <<w>> \o closed
    /\ enqueued' = enqueued + 1
    /\ draining' = TRUE
    /\ polling' = IF draining THEN polling ELSE polling + 1

\* enqueue_prefix_flush, in the critical section that took the window.
Enqueue(w) ==
    /\ closed' = Append(closed, w)
    /\ enqueued' = enqueued + 1
    /\ draining' = TRUE
    /\ polling' = IF draining THEN polling ELSE polling + 1

-----------------------------------------------------------------------------
(* Admission (admit_prefix_coalesced).                                     *)

\* A batch is buffered and the window closes on it or stays open; the batch that
\* opens a window starts its timer, unless it closes it at once.  The connection
\* that closed the window waits for its position.
Admit(c, b) ==
    LET first == pending = <<>>
        w     == IF first THEN windows + 1 ELSE window
        bs    == Append(pending, b)
        bulk  == backfill \/ b \in Backfill
        full  == size + Size[b] >= FlushThreshold(bulk) \/ b \in Control
    IN  /\ waiting[c] = 0
        /\ b \notin Elements(admitted)
        /\ admitted' = Append(admitted, b)
        /\ windows' = IF first THEN w ELSE windows
        /\ \/ /\ full
              /\ Enqueue([number |-> w, pending |-> bs, full |-> TRUE, timed |-> FALSE])
              /\ TakeBuffer
              /\ waiting' = [waiting EXCEPT ![c] = enqueued']
              /\ UNCHANGED timers
           \/ /\ ~ full
              /\ pending' = bs /\ size' = size + Size[b]
              /\ backfill' = bulk /\ window' = w
              /\ timers' = IF first THEN timers \cup {w} ELSE timers
              /\ UNCHANGED <<queueVars, waiting>>
        /\ UNCHANGED <<started, flights, answer, log, lingered>>

\* Mutant: the wait is for a later window to start.
ProceedsWhenStarted(position) == position < started

\* The wait is over: at most Depth closed windows are ahead of the position.
Proceeds(position) == position <= started + Depth

AdmissionReturns(c) ==
    /\ waiting[c] # 0
    /\ Proceeds(waiting[c])
    /\ waiting' = [waiting EXCEPT ![c] = 0]
    /\ UNCHANGED <<bufferVars, windows, timers, queueVars, started, flights,
                   answer, admitted, log, lingered>>

\* Mutant: the timer takes whatever window is open.
LingerElapsesAny(w) ==
    /\ w \in timers
    /\ timers' = timers \ {w}
    /\ lingered' = lingered \cup {w}
    /\ \/ /\ pending # <<>>
          /\ Enqueue([number |-> window, pending |-> pending,
                      full |-> FALSE, timed |-> TRUE])
          /\ TakeBuffer
       \/ /\ pending = <<>>
          /\ UNCHANGED <<bufferVars, queueVars>>
    /\ UNCHANGED <<windows, started, flights, waiting, answer, admitted, log>>

\* Mutant: the timer closes its window only if nothing joined it since.
LingerElapsesAlone(w) ==
    /\ w \in timers
    /\ timers' = timers \ {w}
    /\ lingered' = lingered \cup {w}
    /\ \/ /\ window = w /\ Len(pending) = 1
          /\ Enqueue([number |-> w, pending |-> pending,
                      full |-> FALSE, timed |-> TRUE])
          /\ TakeBuffer
       \/ /\ window # w \/ Len(pending) # 1
          /\ UNCHANGED <<bufferVars, queueVars>>
    /\ UNCHANGED <<windows, started, flights, waiting, answer, admitted, log>>

\* The linger of window w elapses: the timer closes w if it is still the open one.
LingerElapses(w) ==
    /\ w \in timers
    /\ timers' = timers \ {w}
    /\ lingered' = lingered \cup {w}
    /\ \/ /\ window = w /\ pending # <<>>
          /\ Enqueue([number |-> w, pending |-> pending,
                      full |-> FALSE, timed |-> TRUE])
          /\ TakeBuffer
       \/ /\ window # w \/ pending = <<>>
          /\ UNCHANGED <<bufferVars, queueVars>>
    /\ UNCHANGED <<windows, started, flights, waiting, answer, admitted, log>>

-----------------------------------------------------------------------------
(* The worker (drain_prefix_flush_queue).                                  *)

StartFlight ==
    /\ polling > 0
    /\ closed # <<>>
    /\ closed' = Tail(closed)
    /\ started' = started + 1
    /\ flights' = flights \cup {Head(closed)}
    /\ polling' = polling - 1
    /\ log' = log \o Head(closed).pending
    /\ UNCHANGED <<bufferVars, windows, timers, enqueued, draining, waiting,
                   answer, admitted, lingered>>

\* Mutant: the worker leaves the flag set.
WorkerEndsDraining ==
    /\ polling > 0
    /\ closed = <<>>
    /\ polling' = polling - 1
    /\ UNCHANGED <<bufferVars, windows, timers, closed, enqueued, started,
                   draining, flights, waiting, answer, admitted, log, lingered>>

\* The queue is empty: the worker ends, under the lock that found it empty.
WorkerEnds ==
    /\ polling > 0
    /\ closed = <<>>
    /\ polling' = polling - 1
    /\ draining' = FALSE
    /\ UNCHANGED <<bufferVars, windows, timers, closed, enqueued, started,
                   flights, waiting, answer, admitted, log, lingered>>

Landed(w, how) ==
    /\ w \in flights
    /\ flights' = flights \ {w}
    /\ polling' = polling + 1
    /\ answer' = [b \in Batches |-> IF b \in Elements(w.pending) THEN how ELSE answer[b]]
    /\ UNCHANGED <<bufferVars, windows, timers, closed, enqueued, started,
                   draining, waiting, admitted, log, lingered>>

\* The flush answers every batch of its window: an offset, or an error for all
\* (ack_leaseless_outcomes, fail_prefix_flush).
FlushAnswers(w) == Landed(w, "sent")

\* The flush task panics: the worker goes on, the senders are dropped.
FlushPanics(w) == Landed(w, "dropped")

Next ==
    \/ \E c \in Conns, b \in Batches : Admit(c, b)
    \/ \E c \in Conns : AdmissionReturns(c)
    \/ \E w \in timers : LingerElapses(w)
    \/ StartFlight
    \/ WorkerEnds
    \/ \E w \in flights : FlushAnswers(w) \/ FlushPanics(w)

Spec == Init /\ [][Next]_vars

\* A spawned worker, a sleeping timer, a woken admission and a running flush are
\* tokio tasks that are polled in the end; batches need not arrive.
FairSpec ==
    /\ Spec
    /\ WF_vars(StartFlight) /\ WF_vars(WorkerEnds)
    /\ WF_vars(\E w \in timers : LingerElapses(w))
    /\ WF_vars(\E w \in flights : FlushAnswers(w) \/ FlushPanics(w))
    /\ \A c \in Conns : WF_vars(AdmissionReturns(c))

-----------------------------------------------------------------------------
(* Properties.                                                             *)

\* There is one worker at most, the flag says whether there is one, and a closed
\* window is never without one (the comment on PrefixFlushQueue::draining).
OneWorker ==
    /\ polling + Cardinality(flights) = (IF draining THEN 1 ELSE 0)
    /\ closed # <<>> => draining
    /\ enqueued = started + Len(closed)

\* Buffer order is offset order (the promise of Storage::admit): the admitted batches,
\* cut at the right places, are those whose flush started, then the windows of the
\* queue one after the other, then the open one; none is lost and none comes twice.
AdmissionOrder ==
    \E cut \in [0..Len(closed) -> 0..Len(admitted)] :
        /\ log = SubSeq(admitted, 1, cut[0])
        /\ \A i \in DOMAIN closed :
               /\ cut[i - 1] <= cut[i]
               /\ closed[i].pending = SubSeq(admitted, cut[i - 1] + 1, cut[i])
        /\ pending = SubSeq(admitted, cut[Len(closed)] + 1, Len(admitted))

\* A window goes to the queue full, or after its own linger: the timer of a window
\* that closed on size never cuts the next one short.
NoWindowCutShort ==
    \A i \in DOMAIN closed : closed[i].full \/ closed[i].number \in lingered

\* Every admitted batch is answered, or its sender dropped, in the end.
EveryBatchAnswered ==
    \A b \in Batches : (b \in Elements(admitted)) ~> (answer[b] # "none")

\* No admission waits for ever.
AdmissionNeverStuck ==
    \A c \in Conns : (waiting[c] # 0) ~> (waiting[c] = 0)
=============================================================================
