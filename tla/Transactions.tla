---------------------------- MODULE Transactions ----------------------------
(***************************************************************************)
(* Producer ids, transactions and read-committed offsets.  The transaction  *)
(* ledger is one object, `meta.json`, changed only by compare-and-set; the  *)
(* records and the end-of-transaction markers go through the flushes of     *)
(* ProducerLog; and a produced range is registered in the ledger only after *)
(* its flush was acknowledged.  EndTxn and InitProducerId are sequences of  *)
(* such steps with other calls free to run between any two of them, on      *)
(* behalf of the same transactional id included.                            *)
(***************************************************************************)
EXTENDS ProducerLog

CONSTANTS
  Clients,       \* producer instances
  TidOf,         \* the transactional id each client uses, NoTid for an idempotent one
  NoTid,
  MaxInFlight,   \* max.in.flight.requests.per.connection
  BatchSizes,    \* records per batch
  ReuseEpoch,    \* TRUE: a client runs several transactions under one producer epoch
  Budgets        \* the scenarios: what may happen, and how often

Tids == {TidOf[c] : c \in Clients} \ {NoTid}

ASSUME TransactionsAssumption ==
  /\ Partitions \subseteq Nat
  /\ MaxInFlight \in 1..WindowSize
  /\ BatchSizes \subseteq 1..IMax
  /\ ReuseEpoch \in BOOLEAN

VARIABLES
  lastPid,   \* meta.producers: the last producer id given out
  txns,      \* meta.transactions: per transactional id, its producer and its epochs' details
  group,     \* the consumer group's offsets committed by transactions
  regs,      \* acknowledged transactional batches whose range is not registered yet
  calls,     \* the InitProducerId and EndTxn calls under way
  cl,        \* the clients
  acks,      \* history: the offsets batches were answered with
  refused,   \* history: the batches a waiting client was refused
  ended,     \* history: the transactions whose EndTxn was answered without error
  disturbed, \* history: a call was abandoned or failed part way, or a second client took an id over
  budget

ledger == <<lastPid, txns, group>>
history == <<acks, refused, ended, disturbed>>
vars == <<logVars, ledger, regs, calls, cl, history, budget>>

Slots == {"main", "old"}
Spend(what) == budget[what] > 0 /\ budget' = [budget EXCEPT ![what] = @ - 1]

-----------------------------------------------------------------------------
(* The ledger. *)

NoRange == [start |-> -1, end |-> -1]

\* TxnDetail::default(): no state, nothing produced, no offsets staged.  `begun` is history: how many
\* transactions have begun under the epoch.
NewDetail == [state |-> "none", produces |-> [p \in Partitions |-> NoRange], offsets |-> {}, begun |-> 0]

Prepared == {"PrepareCommit", "PrepareAbort"}
Resolved == {"Committed", "Aborted"}

EpochOf(t) == Len(txns[t].epochs) - 1
Detail(t, e) == txns[t].epochs[e + 1]
Epochs == UNION {{t} \X DOMAIN txns[t].epochs : t \in Tids}
Details == {txns[o[1]].epochs[o[2]] : o \in Epochs}

\* The checks every transactional call starts with: the id is known, the producer is the one
\* registered for it, and the epoch is the last one handed out.
Current(t, pid, epoch) ==
  t # NoTid /\ txns[t].epochs # <<>> /\ txns[t].producer = pid /\ EpochOf(t) = epoch

\* Mutant: the start follows the last acknowledged batch.
WidenLast(range, off, n) ==
  [start |-> off, end |-> IF off + n - 1 > range.end /\ range = NoRange THEN off + n - 1 ELSE range.end]

\* The registration of an acknowledged range, in whatever state the epoch's detail is.
Widen(range, off, n) ==
  IF range = NoRange THEN [start |-> off, end |-> off + n - 1]
  ELSE [start |-> IF off < range.start THEN off ELSE range.start,
        end   |-> IF off + n - 1 > range.end THEN off + n - 1 ELSE range.end]

Registered(t, epoch, part, off, n) ==
  IF epoch + 1 \in DOMAIN txns[t].epochs
    THEN [txns EXCEPT ![t].epochs[epoch + 1].produces[part] = Widen(@, off, n)]
    ELSE txns

\* open_transaction_floors for one partition: the first offset of every unresolved transaction.
OpenStarts(part) ==
  LET Open(d) == d.state \notin {"none"} \cup Resolved /\ d.produces[part] # NoRange
  IN  {d.produces[part].start : d \in {e \in Details : Open(e)}}

\* Meta::overlapping_transactions: for each transactional id, the first other epoch with a state and a
\* range on a partition of this transaction's that starts below this transaction's end.
Overlaps(t, epoch) ==
  LET mine == Detail(t, epoch).produces
      Hits(u, i) == LET d == txns[u].epochs[i]
                    IN  /\ ~(u = t /\ i = epoch + 1)
                        /\ d.state # "none"
                        /\ \E p \in Partitions : /\ d.produces[p] # NoRange /\ mine[p] # NoRange
                                                 /\ d.produces[p].start < mine[p].end
  IN  {o \in Epochs : Hits(o[1], o[2]) /\ \A j \in DOMAIN txns[o[1]].epochs : Hits(o[1], j) => o[2] <= j}

\* Mutant: an aborted transaction's ranges are dropped like a committed one's.
SettledBare(d) ==
  IF d.state \in {"Begin"} \cup Resolved THEN d
  ELSE [state    |-> IF d.state = "PrepareAbort" THEN "Aborted" ELSE "Committed",
        produces |-> [p \in Partitions |-> NoRange],
        offsets  |-> {}, begun |-> d.begun]

\* One transaction's part of the second ledger step of end_txn.
Settled(d) ==
  LET s == CASE d.state \in {"none", "PrepareCommit"} -> "Committed"
             [] d.state = "PrepareAbort" -> "Aborted"
             [] OTHER -> d.state
  IN  IF d.state \in {"Begin"} \cup Resolved THEN d
      ELSE [state    |-> s,
            produces |-> IF s = "Aborted" THEN d.produces ELSE [p \in Partitions |-> NoRange],
            offsets  |-> {}, begun |-> d.begun]

\* Mutant: whatever transaction is resolved has its offsets taken.
TakenAny(o, own, commit) == Settled(txns[o[1]].epochs[o[2]]) # txns[o[1]].epochs[o[2]]

\* Offsets are taken from a transaction known as PrepareCommit: the caller's own by what was asked,
\* another by its state.
Taken(o, own, commit) ==
  LET d == txns[o[1]].epochs[o[2]]
  IN  /\ d.state \notin {"Begin"} \cup Resolved
      /\ IF o = own THEN commit ELSE d.state = "PrepareCommit"

-----------------------------------------------------------------------------
(* Clients and their requests. *)

NewClient == [ pc |-> "start", pid |-> -1, epoch |-> -1, seq |-> [p \in Partitions |-> 0],
               sent |-> 0, out |-> {}, txn |-> 0, added |-> FALSE, staged |-> FALSE, want |-> "none" ]

\* `begun` is history: which of its epoch's transactions the call has prepared.
NoCall == [ pc |-> "idle", op |-> "none", at |-> "nowhere", pid |-> -1, epoch |-> -1,
            commit |-> FALSE, todo |-> {}, off |-> -1, offsets |-> {}, num |-> 0, begun |-> 0 ]

\* A data batch.  `id` names it, `next` says that every earlier one was answered when it was sent.
DataRequest(c, p, n) ==
  [ kind |-> "data", c |-> c, part |-> p, pid |-> cl[c].pid, epoch |-> cl[c].epoch,
    base |-> cl[c].seq[p], n |-> n, control |-> FALSE, commit |-> FALSE,
    id |-> [c |-> c, txn |-> cl[c].txn, k |-> cl[c].sent + 1], next |-> cl[c].out = {} ]

\* The control batch end_txn builds: base_sequence -1, so it is appended without classification.
MarkerRequest(x, p) ==
  [ kind |-> "marker", c |-> x[1], part |-> p, pid |-> calls[x].pid, epoch |-> calls[x].epoch,
    base |-> -1, n |-> 1, control |-> TRUE, commit |-> calls[x].commit, next |-> FALSE,
    id |-> [c |-> x[1], num |-> calls[x].num, begun |-> calls[x].begun] ]

\* Kafka's incrementSequence on the client.
NextSequence(s, n) == IF s > IMax - n THEN n - (IMax - s) - 1 ELSE s + n

Init ==
  /\ LogInit
  /\ lastPid = 0
  /\ txns = [t \in Tids |-> [producer |-> 0, epochs |-> <<>>]]
  /\ group = {}
  /\ regs = {}
  /\ calls = [x \in Clients \X Slots |-> NoCall]
  /\ cl = [c \in Clients |-> NewClient]
  /\ acks = {} /\ refused = {} /\ ended = {} /\ disturbed = FALSE
  /\ budget \in Budgets

\* A new batch of a client that has its producer id and, in a transaction, has added the partition.
Send(c, p, n, r) ==
  /\ cl[c].pc = (IF TidOf[c] = NoTid THEN "ready" ELSE "open")
  /\ TidOf[c] # NoTid => cl[c].added /\ cl[c].want = "none"
  /\ \A q \in cl[c].out : cl[c].sent + 1 - q.id.k < MaxInFlight
  /\ Spend("send")
  /\ LET q == DataRequest(c, p, n)
     IN  /\ Park(r, q)
         /\ cl' = [cl EXCEPT ![c].seq[p] = NextSequence(@, n), ![c].sent = @ + 1,
                             ![c].out = @ \cup {q}]
  /\ UNCHANGED <<segments, folded, flush, late, ledger, regs, calls, history>>

\* An unanswered batch is sent again, to the same replica or another.
Resend(c, r) ==
  /\ Spend("resend")
  /\ \E q \in cl[c].out : Park(r, [q EXCEPT !.next = \A u \in cl[c].out : q.id.k <= u.id.k])
  /\ UNCHANGED <<segments, folded, flush, late, ledger, regs, calls, cl, history>>

\* txn_add_partitions (versions 0 to 3): whatever state the epoch's detail was in, it becomes Begin.
AddPartitions(c) ==
  /\ TidOf[c] # NoTid /\ cl[c].pc \in {"ready", "open"} /\ ~cl[c].added /\ cl[c].want = "none"
  /\ IF Current(TidOf[c], cl[c].pid, cl[c].epoch)
       THEN /\ cl[c].pc = "ready" => Spend("txn")
            /\ cl[c].pc = "open" => UNCHANGED budget
            /\ LET d == Detail(TidOf[c], cl[c].epoch)
               IN  txns' = [txns EXCEPT ![TidOf[c]].epochs[cl[c].epoch + 1] =
                              [d EXCEPT !.state = "Begin", !.begun = d.begun + 1]]
            /\ cl' = [cl EXCEPT ![c].pc = "open", ![c].added = TRUE,
                                ![c].txn = IF cl[c].pc = "ready" THEN @ + 1 ELSE @]
       ELSE /\ cl' = [cl EXCEPT ![c].pc = "fenced"]
            /\ UNCHANGED <<txns, budget>>
  /\ UNCHANGED <<logVars, lastPid, group, regs, calls, history>>

\* txn_offset_commit stages the offsets in the detail (txn_add_offsets before it does nothing).
StageOffsets(c) ==
  /\ TidOf[c] # NoTid /\ cl[c].pc \in {"ready", "open"} /\ cl[c].want = "none"
  /\ Spend("offsets")
  /\ IF Current(TidOf[c], cl[c].pid, cl[c].epoch)
       THEN LET t == IF cl[c].pc = "ready" THEN cl[c].txn + 1 ELSE cl[c].txn
            IN  /\ txns' = [txns EXCEPT ![TidOf[c]].epochs[cl[c].epoch + 1].offsets = @ \cup {<<c, t>>}]
                /\ cl' = [cl EXCEPT ![c].pc = "open", ![c].txn = t, ![c].staged = TRUE]
       ELSE cl' = [cl EXCEPT ![c].pc = "fenced"] /\ UNCHANGED txns
  /\ UNCHANGED <<logVars, lastPid, group, regs, calls, history>>

\* What tells a client's new call from the one it gave up on.
NumOf(c) == IF calls[<<c, "old">>].num = 1 THEN 2 ELSE 1

\* A call is sent to some replica.
StartInit(c, r) ==
  /\ cl[c].pc = "start" /\ calls[<<c, "main">>].pc = "idle"
  /\ budget.init[c] > 0 /\ budget' = [budget EXCEPT !.init[c] = @ - 1]
  /\ calls' = [calls EXCEPT ![<<c, "main">>] = [NoCall EXCEPT !.pc = "cas", !.op = "init", !.at = r,
                                                              !.num = NumOf(c)]]
  /\ cl' = [cl EXCEPT ![c].pc = "call"]
  /\ disturbed' = (disturbed \/ /\ TidOf[c] # NoTid
                                /\ \E d \in Clients \ {c} : TidOf[d] = TidOf[c] /\ cl[d].pc # "start")
  /\ UNCHANGED <<logVars, ledger, regs, acks, refused, ended>>

\* The client has the answer to every batch before it ends the transaction, and a retried EndTxn asks
\* for the same outcome.
StartEnd(c, commit, r) ==
  /\ cl[c].pc = "open" /\ cl[c].out = {} /\ calls[<<c, "main">>].pc = "idle"
  /\ cl[c].want \in {"none", IF commit THEN "commit" ELSE "abort"}
  /\ calls' = [calls EXCEPT ![<<c, "main">>] =
                 [NoCall EXCEPT !.pc = "prepare", !.op = "end", !.at = r, !.num = NumOf(c), !.pid = cl[c].pid,
                                !.epoch = cl[c].epoch, !.commit = commit]]
  /\ cl' = [cl EXCEPT ![c].pc = "call", ![c].want = IF commit THEN "commit" ELSE "abort"]
  /\ UNCHANGED <<logVars, ledger, regs, history, budget>>

\* The client gives up waiting and may call again; the broker carries on with the old call.
Abandon(c) ==
  /\ cl[c].pc = "call" /\ calls[<<c, "old">>].pc = "idle"
  /\ Spend("timeout")
  /\ calls' = [calls EXCEPT ![<<c, "old">>] = calls[<<c, "main">>], ![<<c, "main">>] = NoCall]
  /\ cl' = [cl EXCEPT ![c].pc = IF cl[c].want = "none" THEN "start" ELSE "open"]
  /\ disturbed' = TRUE
  /\ UNCHANGED <<logVars, ledger, regs, acks, refused, ended>>

-----------------------------------------------------------------------------
(* The calls. *)

\* The client's state once the answer to its EndTxn has arrived.
AfterEnd(c) ==
  IF ReuseEpoch THEN [cl[c] EXCEPT !.pc = "ready", !.added = FALSE, !.staged = FALSE, !.want = "none"]
  ELSE [NewClient EXCEPT !.txn = cl[c].txn, !.sent = cl[c].sent]

\* The call x answers without error.  An init that had to roll back starts over.
Succeed(x) ==
  LET c == x[1]  call == calls[x]
  IN  IF call.op = "init"
        THEN /\ calls' = [calls EXCEPT ![x] = [NoCall EXCEPT !.pc = "cas", !.op = "init", !.at = call.at,
                                                       !.num = call.num]]
             /\ UNCHANGED <<cl, ended>>
        ELSE /\ calls' = [calls EXCEPT ![x] = NoCall]
             /\ IF x[2] = "main"
                  THEN /\ cl' = [cl EXCEPT ![c] = AfterEnd(c)]
                       /\ ended' = ended \cup {[c |-> c, txn |-> cl[c].txn, pid |-> cl[c].pid,
                                                epoch |-> cl[c].epoch, commit |-> call.commit,
                                                staged |-> cl[c].staged]}
                  ELSE UNCHANGED <<cl, ended>>

\* The clients once the calls in `dead` have answered an error.
AfterErrors(clients, dead, fenced) ==
  [c \in Clients |->
     IF <<c, "main">> \in dead
       THEN [clients[c] EXCEPT !.pc = IF clients[c].want = "none" THEN "start"
                                      ELSE IF fenced THEN "fenced" ELSE "open"]
       ELSE clients[c]]

Err(x, fenced) ==
  /\ calls' = [calls EXCEPT ![x] = NoCall]
  /\ cl' = AfterErrors(cl, {x}, fenced)
  /\ UNCHANGED ended

\* Mutant: an id that is known already is given out with the epoch it has.
InitCasSameEpoch(x) ==
  /\ calls[x].pc = "cas"
  /\ LET t    == TidOf[x[1]]
         new  == t = NoTid \/ txns[t].epochs = <<>>
     IN  /\ lastPid' = IF new THEN lastPid + 1 ELSE lastPid
         /\ txns' = IF t # NoTid /\ new
                      THEN [txns EXCEPT ![t] = [producer |-> lastPid + 1, epochs |-> <<NewDetail>>]]
                      ELSE txns
         /\ calls' = [calls EXCEPT ![x].pc = "seed",
                                   ![x].pid = IF new THEN lastPid + 1 ELSE txns[t].producer,
                                   ![x].epoch = IF new THEN 0 ELSE EpochOf(t)]
  /\ UNCHANGED <<logVars, group, regs, cl, history, budget>>

\* The first ledger step of init_producer_id.
InitCas(x) ==
  /\ calls[x].pc = "cas"
  /\ LET t    == TidOf[x[1]]
         Got(pid, epoch) == calls' = [calls EXCEPT ![x].pc = "seed", ![x].pid = pid, ![x].epoch = epoch]
     IN  \/ /\ t = NoTid
            /\ lastPid' = lastPid + 1
            /\ Got(lastPid + 1, 0)
            /\ UNCHANGED txns
         \/ /\ t # NoTid /\ txns[t].epochs = <<>>
            /\ lastPid' = lastPid + 1
            /\ txns' = [txns EXCEPT ![t] = [producer |-> lastPid + 1, epochs |-> <<NewDetail>>]]
            /\ Got(lastPid + 1, 0)
         \/ /\ t # NoTid /\ txns[t].epochs # <<>> /\ Detail(t, EpochOf(t)).state = "Begin"
            /\ calls' = [calls EXCEPT ![x].pc = "prepare", ![x].pid = txns[t].producer,
                                      ![x].epoch = EpochOf(t), ![x].commit = FALSE]
            /\ UNCHANGED <<lastPid, txns>>
         \/ /\ t # NoTid /\ txns[t].epochs # <<>> /\ Detail(t, EpochOf(t)).state # "Begin"
            /\ txns' = [txns EXCEPT ![t].epochs = Append(@, NewDetail)]
            /\ Got(txns[t].producer, EpochOf(t) + 1)
            /\ UNCHANGED lastPid
  /\ UNCHANGED <<logVars, group, regs, cl, history, budget>>

\* seed_producer, after which the client has its id and epoch and starts its sequences at 0.
Seed(x) ==
  /\ calls[x].pc = "seed"
  /\ calls' = [calls EXCEPT ![x] = NoCall]
  /\ \/ /\ cl' = IF x[2] = "main"
                   THEN [cl EXCEPT ![x[1]] = [NewClient EXCEPT !.pc = "ready", !.pid = calls[x].pid,
                                                !.epoch = calls[x].epoch, !.txn = cl[x[1]].txn,
                                                !.sent = cl[x[1]].sent]]
                   ELSE cl
        /\ UNCHANGED budget
     \/ /\ Spend("fail")
        /\ cl' = AfterErrors(cl, {x}, FALSE)
  /\ UNCHANGED <<logVars, ledger, regs, history>>

\* Mutant: the transaction is prepared whatever state it is in.
PrepareAgain(x) ==
  /\ calls[x].pc = "prepare"
  /\ LET t == TidOf[x[1]]  call == calls[x]
     IN  IF ~Current(t, call.pid, call.epoch)
           THEN Err(x, TRUE) /\ UNCHANGED txns
           ELSE LET d    == Detail(t, call.epoch)
                    todo == {p \in Partitions : d.produces[p] # NoRange}
                IN  /\ txns' = [txns EXCEPT ![t].epochs[call.epoch + 1].state =
                                   IF call.commit THEN "PrepareCommit" ELSE "PrepareAbort"]
                    /\ calls' = [calls EXCEPT ![x].todo = todo, ![x].begun = d.begun,
                                              ![x].pc = IF todo = {} THEN "resolve" ELSE "mark"]
                    /\ UNCHANGED <<cl, ended>>
  /\ UNCHANGED <<logVars, lastPid, group, regs, acks, refused, disturbed, budget>>

\* The first ledger step of end_txn: only a transaction in Begin is prepared, and only then are its
\* produced partitions collected for the markers.
Prepare(x) ==
  /\ calls[x].pc = "prepare"
  /\ LET t == TidOf[x[1]]  call == calls[x]
     IN  IF ~Current(t, call.pid, call.epoch)
           THEN Err(x, TRUE) /\ UNCHANGED txns
           ELSE LET d     == Detail(t, call.epoch)
                    begun == d.state = "Begin"
                    todo  == {p \in Partitions : begun /\ d.produces[p] # NoRange}
                IN  /\ txns' = IF begun
                                 THEN [txns EXCEPT ![t].epochs[call.epoch + 1].state =
                                         IF call.commit THEN "PrepareCommit" ELSE "PrepareAbort"]
                                 ELSE txns
                    /\ calls' = [calls EXCEPT ![x].todo = todo, ![x].begun = d.begun,
                                              ![x].pc = IF todo = {} THEN "resolve" ELSE "mark"]
                    /\ UNCHANGED <<cl, ended>>
  /\ UNCHANGED <<logVars, lastPid, group, regs, acks, refused, disturbed, budget>>

\* One marker is parked like any other batch, in partition order.
Mark(x) ==
  /\ calls[x].pc = "mark"
  /\ \E p \in calls[x].todo :
       /\ \A q \in calls[x].todo : p <= q
       /\ Park(calls[x].at, MarkerRequest(x, p))
  /\ calls' = [calls EXCEPT ![x].pc = "wait"]
  /\ UNCHANGED <<segments, folded, flush, late, ledger, regs, cl, history, budget>>

\* The acknowledged marker's offset is registered; the range now covers the marker.
RegisterMarker(x) ==
  /\ calls[x].pc = "register"
  /\ LET call == calls[x]
         p    == CHOOSE p \in call.todo : \A q \in call.todo : p <= q
         rest == call.todo \ {p}
     IN  /\ txns' = Registered(TidOf[x[1]], call.epoch, p, call.off, 1)
         /\ calls' = [calls EXCEPT ![x].todo = rest, ![x].off = -1,
                                   ![x].pc = IF rest = {} THEN "resolve" ELSE "mark"]
  /\ UNCHANGED <<logVars, lastPid, group, regs, cl, history, budget>>

\* The second ledger step of end_txn.  Nothing is resolved while an overlapping transaction is not
\* prepared; otherwise this transaction and every overlapping one are.
Resolve(x) ==
  /\ calls[x].pc = "resolve"
  /\ LET t == TidOf[x[1]]  call == calls[x]
     IN  IF ~Current(t, call.pid, call.epoch)
           THEN Err(x, TRUE) /\ UNCHANGED txns
           ELSE LET over   == Overlaps(t, call.epoch)
                    own    == <<t, call.epoch + 1>>
                    ready  == \A o \in over : txns[o[1]].epochs[o[2]].state \in Prepared
                    done   == IF ready THEN over \cup {own} ELSE {}
                    offs   == UNION {txns[o[1]].epochs[o[2]].offsets :
                                       o \in {u \in done : Taken(u, own, call.commit)}}
                IN  /\ txns' = [u \in Tids |-> [txns[u] EXCEPT !.epochs =
                                 [i \in DOMAIN txns[u].epochs |->
                                    IF <<u, i>> \in done THEN Settled(txns[u].epochs[i])
                                    ELSE txns[u].epochs[i]]]]
                    /\ IF offs = {} THEN Succeed(x)
                       ELSE /\ calls' = [calls EXCEPT ![x].pc = "offsets", ![x].offsets = offs]
                            /\ UNCHANGED <<cl, ended>>
  /\ UNCHANGED <<logVars, lastPid, group, regs, acks, refused, disturbed, budget>>

\* The collected offsets are committed to the group after the ledger step, in a step of their own.
CommitOffsets(x) ==
  /\ calls[x].pc = "offsets"
  /\ \/ group' = group \cup calls[x].offsets /\ Succeed(x) /\ UNCHANGED budget
     \/ Spend("fail") /\ Err(x, FALSE) /\ UNCHANGED group
  /\ disturbed' = (disturbed \/ group' = group)
  /\ UNCHANGED <<logVars, lastPid, txns, regs, acks, refused>>

-----------------------------------------------------------------------------
(* Flushes, and what their answers do. *)

\* The window `reqs` is answered with `out`: a transactional batch goes on to its registration, an
\* idempotent one to its client, a marker to the call that wrote it; a storage error leaves the batch
\* with its client, which may send it again, and so does a refusal, unless the
\* batch was sent as the next one after those answered: that one stops the client.
Deliver(r, reqs, out) ==
  LET Ks(kind, classes) == {k \in DOMAIN reqs : reqs[k].kind = kind /\ out[k].class \in classes}
      okNow   == {k \in Ks("data", {"ok"}) : TidOf[reqs[k].c] = NoTid}
      okTxn   == Ks("data", {"ok"}) \ okNow
      answered == {reqs[k].id : k \in okNow}
      no      == {q \in {reqs[k] : k \in Ks("data", {"outOfOrder", "fenced"})} :
                    q.next /\ \E u \in cl[q.c].out : u.id = q.id}
      CallOf(id) == {x \in DOMAIN calls : /\ calls[x].pc = "wait"
                                             /\ [c |-> x[1], num |-> calls[x].num, begun |-> calls[x].begun] = id}
      lost    == UNION {CallOf(reqs[k].id) : k \in Ks("marker", {"storage"})}
      Acked(x) == {k \in Ks("marker", {"ok"}) : x \in CallOf(reqs[k].id)}
      after   == [c \in Clients |->
                    [cl[c] EXCEPT !.out = {q \in @ : q.id \notin answered},
                                  !.pc = IF \E q \in no : q.c = c THEN "fenced" ELSE @]]
  IN  /\ acks' = acks \cup {[id |-> reqs[k].id, part |-> reqs[k].part, off |-> out[k].off] :
                              k \in Ks("data", {"ok"})}
      /\ refused' = refused \cup no
      /\ regs' = regs \cup {[q |-> reqs[k], off |-> out[k].off, at |-> r] : k \in okTxn}
      /\ calls' = [x \in DOMAIN calls |->
                     IF x \in lost THEN NoCall
                     ELSE IF Acked(x) # {}
                       THEN [calls[x] EXCEPT !.pc = "register", !.off = out[CHOOSE k \in Acked(x) : TRUE].off]
                     ELSE calls[x]]
      /\ cl' = AfterErrors(after, lost, FALSE)
      /\ disturbed' = (disturbed \/ lost # {})
  /\ UNCHANGED <<ledger, ended>>

FlushWon(r) == (\E out \in {flush[r].out} : PutWon(r, out) /\ Deliver(r, flush[r].reqs, out)) /\ UNCHANGED budget
FlushEmpty(r) ==
  /\ flush[r].pc \in {"attempt", "retry"}
  /\ \E upto \in FoldTo(r) :
       LET out == Plan(SubSeq(segments, 1, upto), flush[r].reqs).out
       IN  AttemptEmpty(r, out) /\ Deliver(r, flush[r].reqs, out)
  /\ UNCHANGED budget
FlushFailed(r) ==
  /\ Spend("fail")
  /\ PutFailed(r, Failed(flush[r].reqs)) /\ Deliver(r, flush[r].reqs, Failed(flush[r].reqs))

\* The registration of an acknowledged batch, and with it the answer to the client; it may fail, and
\* then the batch is durable, unregistered and, to its client, unanswered.
Register(g) ==
  /\ g \in regs /\ regs' = regs \ {g}
  /\ \/ /\ txns' = Registered(TidOf[g.q.c], g.q.epoch, g.q.part, g.off, g.q.n)
        /\ cl' = [cl EXCEPT ![g.q.c].out = {q \in @ : q.id # g.q.id}]
        /\ UNCHANGED budget
     \/ /\ Spend("fail")
        /\ UNCHANGED <<txns, cl>>
  /\ UNCHANGED <<logVars, lastPid, group, calls, history>>

\* A replica stops, with its parked batches, its flush, and the calls it was serving.
Crash(r) ==
  /\ Spend("crash")
  /\ CrashLog(r)
  /\ LET dead == {x \in DOMAIN calls : calls[x].pc # "idle" /\ calls[x].at = r}
     IN  /\ calls' = [x \in DOMAIN calls |-> IF x \in dead THEN NoCall ELSE calls[x]]
         /\ cl' = AfterErrors(cl, dead, FALSE)
         /\ disturbed' = (disturbed \/ dead # {})
  /\ regs' = {g \in regs : g.at # r}
  /\ UNCHANGED <<ledger, acks, refused, ended>>

Rest0 == UNCHANGED <<ledger, regs, calls, cl, history, budget>>

Next ==
  \/ \E c \in Clients, r \in Replicas :
       \/ \E p \in Partitions, n \in BatchSizes : Send(c, p, n, r)
       \/ Resend(c, r)
       \/ StartInit(c, r)
       \/ \E commit \in BOOLEAN : StartEnd(c, commit, r)
  \/ \E c \in Clients : AddPartitions(c) \/ StageOffsets(c) \/ Abandon(c)
  \/ \E x \in Clients \X Slots :
       \/ InitCas(x) \/ Seed(x)
       \/ Prepare(x) \/ Mark(x) \/ RegisterMarker(x) \/ Resolve(x) \/ CommitOffsets(x)
  \/ \E g \in regs : Register(g)
  \/ \E r \in Replicas :
       \/ (TakeWindow(r) \/ Attempt(r) \/ PutLost(r)) /\ Rest0
       \/ FlushWon(r) \/ FlushEmpty(r) \/ FlushFailed(r)
       \/ Crash(r)
  \/ LatePut /\ Rest0

Spec == Init /\ [][Next]_vars

-----------------------------------------------------------------------------
(* Properties. *)

TypeOK ==
  /\ \A x \in Stored : /\ Entry(x).part \in Partitions /\ Entry(x).off \in Nat
                       /\ Entry(x).n \in Nat \ {0} /\ Entry(x).base \in -1..IMax
  /\ folded \in [Replicas -> 0..Len(segments)]
  /\ lastPid \in Nat
  /\ \A t \in Tids : \A i \in DOMAIN txns[t].epochs :
       /\ txns[t].epochs[i].state \in {"none", "Begin"} \cup Prepared \cup Resolved
       /\ \A p \in Partitions : LET w == txns[t].epochs[i].produces[p]
                                IN  w = NoRange \/ w.start \in 0..w.end
  /\ \A x \in DOMAIN calls :
       calls[x].pc \in {"idle", "cas", "seed", "prepare", "mark", "wait", "register", "resolve", "offsets"}
  /\ \A c \in Clients : cl[c].pc \in {"start", "call", "ready", "open", "fenced"}

\* A batch is in the log once, however often it was sent, to whichever replicas, and whatever became of
\* the flushes that carried it: coalesce.rs classifies each attempt against the log it is about to extend.
AppendedOnce ==
  \A x, y \in Stored : ~Entry(x).control /\ ~Entry(y).control /\ Entry(x).id = Entry(y).id => x = y

\* The batches of one producer epoch lie in a partition in the order they were sent, none missing.
AppendedInOrder ==
  \A x \in Stored : ~Entry(x).control /\ Entry(x).base # 0 =>
    \E y \in Stored : /\ Before(y, x) /\ ~Entry(y).control
                      /\ Entry(y).part = Entry(x).part /\ Entry(y).pid = Entry(x).pid
                      /\ Entry(y).epoch = Entry(x).epoch
                      /\ NextSequence(Entry(y).base, Entry(y).n) = Entry(x).base

\* Every offset a batch was ever answered with is the offset it has in the log, the answer to a
\* duplicate included.
AckedWhereStored ==
  \A a \in acks : \E x \in Stored : Entry(x).id = a.id /\ Entry(x).part = a.part /\ Entry(x).off = a.off

\* A client is not refused the batch that follows the ones it has the answers to, however often and
\* wherever it is retried, unless a newer epoch of its producer id has written.
NeverRefused ==
  \A q \in refused : \E x \in Stored : Entry(x).pid = q.pid /\ Entry(x).epoch > q.epoch

\* No two clients ever hold the same producer id and epoch.
IdentitiesDiffer ==
  \A c, d \in Clients : c # d /\ cl[c].pid # -1 =>
    <<cl[c].pid, cl[c].epoch>> # <<cl[d].pid, cl[d].epoch>>

\* The transaction a marker was written for.
TxnOf(x) == <<Entry(x).pid, Entry(x).epoch, Entry(x).id.begun>>

Says(commit) == IF commit THEN {"PrepareCommit", "Committed"} ELSE {"PrepareAbort", "Aborted"}

\* The markers written for one transaction all say the same, and as long as no other transaction has
\* begun under its epoch the ledger has it prepared for or resolved to that very outcome, with a rollback
\* by InitProducerId, the client's own EndTxn and the retry of an abandoned one racing each other.
OneOutcome ==
  \A x \in Stored : Entry(x).control =>
    /\ \A y \in Stored : Entry(y).control /\ TxnOf(y) = TxnOf(x) => Entry(y).commit = Entry(x).commit
    /\ \A t \in Tids :
         /\ txns[t].epochs # <<>> /\ txns[t].producer = Entry(x).pid
         /\ Detail(t, Entry(x).epoch).begun = Entry(x).id.begun
         => Detail(t, Entry(x).epoch).state \in Says(Entry(x).commit)

\* Nothing is under way: no call, no flush, no registration, every batch answered.
AtRest ==
  /\ \A x \in DOMAIN calls : calls[x].pc = "idle"
  /\ \A r \in Replicas : parked[r] = <<>> /\ flush[r].pc = "idle"
  /\ \A c \in Clients : cl[c].out = {} /\ cl[c].want = "none"
  /\ regs = {} /\ late = {}

\* The read-committed answer for a partition (offset_stage): the last stable offset, and the aborted
\* transactions by producer and first offset.
LastStable(part) ==
  LET starts == OpenStarts(part)
  IN  IF starts = {} THEN EndOf(segments, part) ELSE CHOOSE x \in starts : \A y \in starts : x <= y

AbortedList(part) ==
  LET Aborted(o) == /\ txns[o[1]].epochs[o[2]].state = "Aborted"
                    /\ txns[o[1]].epochs[o[2]].produces[part] # NoRange
  IN  {<<txns[o[1]].producer, txns[o[1]].epochs[o[2]].produces[part].start>> : o \in {x \in Epochs : Aborted(x)}}

\* The consumer's filter: a batch is dropped while its producer is in an aborted transaction, which
\* starts at the listed offset and ends at that producer's next abort marker.
Delivered(part) ==
  {x \in Stored :
     /\ Entry(x).part = part /\ ~Entry(x).control /\ Entry(x).off < LastStable(part)
     /\ ~\E a \in AbortedList(part) :
           /\ a[1] = Entry(x).pid /\ a[2] <= Entry(x).off
           /\ ~\E y \in Stored : /\ Before(y, x) /\ Entry(y).part = part
                                 /\ Entry(y).control /\ ~Entry(y).commit
                                 /\ Entry(y).pid = a[1] /\ Entry(y).off >= a[2]}

Outcome(c, txn, commit) == \E e \in ended : e.c = c /\ e.txn = txn /\ e.commit = commit

\* At rest a read-committed consumer gets, of the transactional records below the last stable offset,
\* those of the committed transactions and no others, as long as every transactional id had one client
\* and no call was abandoned or failed part way.
ReadsCommitted ==
  AtRest /\ ~disturbed =>
    \A x \in Stored :
      LET e == Entry(x)
      IN  ~e.control /\ TidOf[e.id.c] # NoTid /\ e.off < LastStable(e.part) =>
            (x \in Delivered(e.part) <=> Outcome(e.id.c, e.id.txn, TRUE))

\* Under the same condition the offsets staged in a transaction reach the group exactly when it is
\* committed: in the same call, or in the one that resolves the transactions it overlaps.
OffsetsWithOutcome ==
  AtRest /\ ~disturbed =>
    /\ \A g \in group : Outcome(g[1], g[2], TRUE)
    /\ \A e \in ended : e.commit /\ e.staged /\ Detail(TidOf[e.c], e.epoch).state \in Resolved =>
         <<e.c, e.txn>> \in group

\* A transaction that was ended, like every other, is committed or aborted.
EndedIsResolved ==
  AtRest /\ ~disturbed /\ (\A c \in Clients : cl[c].pc # "open") =>
    \A e \in ended : Detail(TidOf[e.c], e.epoch).state \in Resolved
=============================================================================
