----------------------- MODULE TransactionsLog_proofs -----------------------
(***************************************************************************)
(* Proofs about Transactions, second part: which clients have an identity, *)
(* where a batch that is around came from, the outcome a transaction's     *)
(* markers carry, and the batches of an identity.                          *)
(***************************************************************************)
EXTENDS Transactions_proofs

-----------------------------------------------------------------------------
(* A client that may send has its identity. *)

\* A client that is ready, in a transaction or ending one has an identity.
Held(c) == cl[c].pc \in {"ready", "open"} \/ cl[c].want # "none" => cl[c].pid # -1

\* A client waiting for its call to end_txn is ending a transaction.
Ending(c) == calls[<<c, "main">>].pc # "idle" => calls[<<c, "main">>].op = "init" \/ cl[c].want # "none"

WantInv == \A c \in Clients : Held(c) /\ Ending(c)

\* The step keeps what the client is doing, and its call.
ClientKeeps(c) ==
    /\ cl'[c].pid = cl[c].pid /\ cl'[c].want = cl[c].want
    /\ cl'[c].pc \in {"ready", "open"} => cl[c].pc \in {"ready", "open"} \/ cl[c].want # "none"
CallKeeps(x) ==
    \/ calls'[x].pc = "idle" \/ calls'[x].op = "init"
    \/ calls[x].pc # "idle" /\ calls'[x].op = calls[x].op

\* Such a step leaves a client its identity and its call its purpose.
LEMMA WantKept ==
    ASSUME NEW c \in Clients, Held(c), Ending(c), ClientKeeps(c), CallKeeps(<<c, "main">>)
    PROVE  (Held(c) /\ Ending(c))'
<1>1. Held(c)'
  BY Zenon DEF Held, ClientKeeps
<1>2. Ending(c)'
  BY Zenon DEF Ending, ClientKeeps, CallKeeps
<1> QED BY <1>1, <1>2, Zenon

\* Calls that fail keep their clients' identities.
LEMMA ErrorsKeep ==
    ASSUME NEW top, cl \in [Clients -> ClientSet(top)], NEW dead, NEW fenced, NEW clients,
           clients \in [Clients -> ClientSet(top)], cl' = AfterErrors(clients, dead, fenced),
           \A c \in Clients : /\ clients[c].pid = cl[c].pid /\ clients[c].want = cl[c].want
                              /\ clients[c].pc = cl[c].pc \/ clients[c].pc = "fenced"
    PROVE  \A c \in Clients : ClientKeeps(c)
<1> TAKE c \in Clients
<1> DEFINE k == clients[c]
           pc == IF k.want = "none" THEN "start" ELSE IF fenced THEN "fenced" ELSE "open"
           f == [k EXCEPT !.pc = pc]
<1>1. cl'[c] = IF <<c, "main">> \in dead THEN f ELSE k
  BY Zenon DEF AfterErrors
<1>2. k \in ClientSet(top) /\ k.pid = cl[c].pid /\ k.want = cl[c].want /\ (k.pc = cl[c].pc \/ k.pc = "fenced")
  BY Zenon
<1> HIDE DEF k
<1>3. f.pid = k.pid /\ f.want = k.want /\ f.pc = pc
  BY <1>2 DEF ClientSet
<1>4. pc \in {"ready", "open"} => k.want # "none"
  OBVIOUS
<1>5. "fenced" \notin {"ready", "open"}
  OBVIOUS
<1> HIDE DEF f, pc
<1> QED BY <1>1, <1>2, <1>3, <1>4, <1>5, Zenon DEF ClientKeeps

\* A flush's answers keep the clients' identities.
LEMMA DeliverKeeps ==
    ASSUME NEW top, ClientTypes(top), NEW r, NEW reqs, NEW out, Deliver(r, reqs, out)
    PROVE  \A c \in Clients : ClientKeeps(c)
<1>1. cl \in [Clients -> ClientSet(top)]
  BY Zenon DEF ClientTypes
<1>2. PICK answered, no, lost :
        cl' = AfterErrors([c \in Clients |-> [cl[c] EXCEPT !.out = {q \in @ : q.id \notin answered},
                                                 !.pc = IF \E q \in no : q.c = c THEN "fenced" ELSE @]], lost, FALSE)
  BY Zenon DEF Deliver
<1> DEFINE F(c) == [cl[c] EXCEPT !.out = {q \in cl[c].out : q.id \notin answered},
                                 !.pc = IF \E q \in no : q.c = c THEN "fenced" ELSE cl[c].pc]
           clients == [c \in Clients |-> F(c)]
<1>3. cl' = AfterErrors(clients, lost, FALSE)
  BY <1>2, Zenon
<1>4. ASSUME NEW c \in Clients
      PROVE  F(c) \in ClientSet(top) /\ F(c).pid = cl[c].pid /\ F(c).want = cl[c].want /\ (F(c).pc = cl[c].pc \/ F(c).pc = "fenced")
  <2> DEFINE k == cl[c]
             left == {q \in k.out : q.id \notin answered}
             pc == IF \E q \in no : q.c = c THEN "fenced" ELSE k.pc
  <2>1. k \in ClientSet(top)
    BY <1>1, Zenon
  <2>2. k.out \in SUBSET DataRequests(top) /\ k.pc \in ClientPcs
    BY <2>1 DEF ClientSet
  <2>3. left \in SUBSET DataRequests(top) /\ pc \in ClientPcs /\ (pc = k.pc \/ pc = "fenced")
    BY <2>2 DEF ClientPcs
  <2>4. F(c) = [k EXCEPT !.out = left, !.pc = pc]
    BY Zenon
  <2> HIDE DEF k, left, pc, F
  <2>5. F(c) \in ClientSet(top) /\ F(c).pid = k.pid /\ F(c).want = k.want /\ F(c).pc = pc
    BY <2>1, <2>3, <2>4, Zenon DEF ClientSet
  <2> QED BY <2>3, <2>5, Zenon DEF k
<1> HIDE DEF F
<1>5. clients \in [Clients -> ClientSet(top)] /\ \A c \in Clients : clients[c] = F(c)
  BY <1>4, Zenon
<1> HIDE DEF clients
<1>6. \A c \in Clients : /\ clients[c].pid = cl[c].pid /\ clients[c].want = cl[c].want
                         /\ clients[c].pc = cl[c].pc \/ clients[c].pc = "fenced"
  BY <1>4, <1>5, Zenon
<1> QED BY <1>1, <1>3, <1>5, <1>6, ErrorsKeep, Zenon

\* A step that changes one client keeps what all are doing, if it keeps what that one is doing.
LEMMA OneClientKeeps ==
    ASSUME NEW top, cl \in [Clients -> ClientSet(top)], NEW c \in Clients, NEW f, cl' = [cl EXCEPT ![c] = f],
           f.pid = cl[c].pid, f.want = cl[c].want,
           f.pc \in {"ready", "open"} => cl[c].pc \in {"ready", "open"} \/ cl[c].want # "none"
    PROVE  \A d \in Clients : ClientKeeps(d)
<1>1. \A d \in Clients : cl'[d] = IF d = c THEN f ELSE cl[d]
  BY Zenon
<1> QED BY <1>1, Zenon DEF ClientKeeps

\* A step that changes one call keeps all of them, if it keeps that one.
LEMMA OneCallKeeps ==
    ASSUME CallTypes, NEW x \in Clients \X Slots, NEW f, calls' = [calls EXCEPT ![x] = f],
           f.pc = "idle" \/ f.op = "init" \/ (calls[x].pc # "idle" /\ f.op = calls[x].op)
    PROVE  \A y \in Clients \X Slots : CallKeeps(y)
<1>1. \A y \in Clients \X Slots : calls'[y] = IF y = x THEN f ELSE calls[y]
  BY Zenon DEF CallTypes
<1> QED BY <1>1, Zenon DEF CallKeeps

\* A call that answers keeps its client's identity, or leaves it with a fresh start.
LEMMA SuccessKeeps ==
    ASSUME Given, NEW top, ClientTypes(top), CallTypes, WantInv, NEW x \in Clients \X Slots,
           calls[x].pc # "idle", Succeed(x)
    PROVE  WantInv'
<1> DEFINE c == x[1]
           k == cl[c]
           again == [k EXCEPT !.pc = "ready", !.added = FALSE, !.staged = FALSE, !.want = "none"]
           fresh == [NewClient EXCEPT !.txn = k.txn, !.sent = k.sent]
           next == [NoCall EXCEPT !.pc = "cas", !.op = "init", !.at = calls[x].at, !.num = calls[x].num]
<1>1. c \in Clients /\ cl \in [Clients -> ClientSet(top)] /\ x = <<x[1], x[2]>>
  BY DEF ClientTypes
<1>2. NoCall.pc = "idle" /\ next.op = "init"
  BY DEF NoCall
<1>3. \A y \in Clients \X Slots : CallKeeps(y)
  <2>1. calls' = [calls EXCEPT ![x] = next] \/ calls' = [calls EXCEPT ![x] = NoCall]
    BY Zenon DEF Succeed
  <2> HIDE DEF next
  <2> QED BY <1>2, <2>1, OneCallKeeps, Zenon
<1>4. \A d \in Clients : <<d, "main">> \in Clients \X Slots /\ Held(d) /\ Ending(d)
  BY DEF Slots, WantInv
<1>5. CASE cl' = cl
  <2>1. \A d \in Clients : ClientKeeps(d)
    BY <1>5, Zenon DEF ClientKeeps
  <2> QED BY <1>3, <1>4, <2>1, WantKept, Zenon DEF WantInv
<1>6. CASE cl' # cl
  <2>1. /\ x[2] = "main" /\ calls[x].op # "init" /\ calls' = [calls EXCEPT ![x] = NoCall]
        /\ cl' = [cl EXCEPT ![c] = again] \/ cl' = [cl EXCEPT ![c] = fresh]
    BY <1>6, Zenon DEF Succeed, AfterEnd
  <2>2. x = <<c, "main">>
    BY <1>1, <2>1, Zenon
  <2>3. k.pid # -1
    BY <1>1, <1>4, <2>1, <2>2, Zenon DEF Held, Ending
  <2>4. k \in ClientSet(top)
    BY <1>1, Zenon
  <2>5. again.pid = k.pid /\ again.want = "none"
    <3> HIDE DEF k
    <3> QED BY <2>4 DEF ClientSet
  <2>6. fresh.pc = "start" /\ fresh.want = "none"
    <3> HIDE DEF k
    <3> QED BY DEF NewClient
  <2>7. "start" \notin {"ready", "open"}
    OBVIOUS
  <2> HIDE DEF again, fresh, c
  <2>8. /\ cl'[c] = again \/ cl'[c] = fresh
        /\ \A d \in Clients : d # c => cl'[d] = cl[d]
    BY <1>1, <2>1, Zenon
  <2>9. Held(c)'
    BY <2>3, <2>5, <2>6, <2>7, <2>8, Zenon DEF Held
  <2>10. Ending(c)'
    <3>1. calls'[x] = NoCall
      BY <2>1, Zenon DEF CallTypes
    <3> QED BY <1>2, <2>2, <3>1, Zenon DEF Ending
  <2>11. ASSUME NEW d \in Clients, d # c PROVE (Held(d) /\ Ending(d))'
    <3>1. ClientKeeps(d)
      BY <2>8, <2>11, Zenon DEF ClientKeeps
    <3> QED BY <1>3, <1>4, <3>1, WantKept, Zenon
  <2> QED BY <2>9, <2>10, <2>11, Zenon DEF WantInv
<1> QED BY <1>5, <1>6, Zenon

\* Every step keeps the clients' identities where they are needed.
LEMMA WantStep ==
    ASSUME Given, NEW top \in {IMax, 2 * IMax}, Types(top),
           top = IMax => Room, IdInv, WantInv, [Next]_vars
    PROVE  WantInv'
<1> DEFINE X == Clients \X Slots
           Clear == \A c \in Clients : ClientKeeps(c)
           Quiet == \A y \in X : CallKeeps(y)
<1>0. top \in Int
  BY DEF Given, ProducerLogAssumption
<1>1. CallTypes /\ ClientTypes(top) /\ calls \in [X -> CallSet] /\ cl \in [Clients -> ClientSet(top)]
  BY Zenon DEF Types, CallTypes, ClientTypes
<1>2. \A d \in Clients : <<d, "main">> \in X /\ Held(d) /\ Ending(d)
  BY DEF Slots, WantInv
<1>3. ASSUME Clear, Quiet PROVE WantInv'
  BY <1>2, <1>3, WantKept, Zenon DEF WantInv
<1>4. cl' = cl => Clear
  BY Zenon DEF ClientKeeps
<1>5. calls' = calls => Quiet
  BY Zenon DEF CallKeeps
<1>6. ASSUME NEW c \in Clients, NEW r \in Replicas, NEW p \in Partitions, NEW n \in BatchSizes, Send(c, p, n, r)
      PROVE  WantInv'
  <2>1. cl' = [cl EXCEPT ![c].seq[p] = NextSequence(@, n), ![c].sent = @ + 1, ![c].out = @ \cup {DataRequest(c, p, n)}]
        /\ calls' = calls
    BY <1>6, Zenon DEF Send
  <2>2. /\ \A d \in Clients : d # c => cl'[d] = cl[d]
        /\ cl'[c].pid = cl[c].pid /\ cl'[c].want = cl[c].want /\ cl'[c].pc = cl[c].pc
    BY <1>1, <2>1 DEF ClientSet
  <2>3. Clear
    BY <2>2, Zenon DEF ClientKeeps
  <2> QED BY <1>3, <1>5, <2>1, <2>3, Zenon
<1>7. ASSUME NEW c \in Clients, NEW r \in Replicas, Resend(c, r) PROVE WantInv'
  <2>1. cl' = cl /\ calls' = calls
    BY <1>7, Zenon DEF Resend
  <2> QED BY <1>3, <1>4, <1>5, <2>1, Zenon
<1>8. ASSUME NEW c \in Clients, NEW r \in Replicas, StartInit(c, r) PROVE WantInv'
  <2> DEFINE f == [NoCall EXCEPT !.pc = "cas", !.op = "init", !.at = r, !.num = NumOf(c)]
             m == <<c, "main">>
  <2>1. cl' = [cl EXCEPT ![c].pc = "call"] /\ calls' = [calls EXCEPT ![m] = f]
    BY <1>8, Zenon DEF StartInit
  <2>2. f.op = "init"
    BY DEF NoCall
  <2>3. Clear
    <3> DEFINE k == cl[c]
               g == [k EXCEPT !.pc = "call"]
    <3>1. k \in ClientSet(top)
      BY <1>1, Zenon
    <3>2. g.pid = k.pid /\ g.want = k.want /\ g.pc \notin {"ready", "open"}
      <4> HIDE DEF k
      <4> QED BY <3>1 DEF ClientSet
    <3>3. cl' = [cl EXCEPT ![c] = g]
      BY <2>1, Zenon
    <3> HIDE DEF g
    <3> QED BY <1>1, <3>2, <3>3, OneClientKeeps, Zenon
  <2> HIDE DEF f
  <2>4. Quiet
    <3>1. m \in X
      BY <1>2, Zenon
    <3> HIDE DEF m
    <3> QED BY <1>1, <2>1, <2>2, <3>1, OneCallKeeps, Zenon
  <2> QED BY <1>3, <2>3, <2>4, Zenon
<1>9. ASSUME NEW c \in Clients, NEW r \in Replicas, NEW commit \in BOOLEAN, StartEnd(c, commit, r) PROVE WantInv'
  <2> DEFINE m == <<c, "main">>
             want == IF commit THEN "commit" ELSE "abort"
             k == cl[c]
             g == [k EXCEPT !.pc = "call", !.want = want]
  <2>1. k.pc = "open" /\ cl' = [cl EXCEPT ![c] = g] /\ \E f : calls' = [calls EXCEPT ![m] = f]
    BY <1>9, Zenon DEF StartEnd
  <2>2. k \in ClientSet(top) /\ k.pid # -1
    <3>1. k.pc \in {"ready", "open"}
      BY <2>1
    <3> QED BY <1>1, <1>2, <3>1, Zenon DEF Held
  <2>3. want # "none"
    OBVIOUS
  <2>4. g.pid = k.pid /\ g.want = want
    <3> HIDE DEF k, want
    <3> QED BY <2>2 DEF ClientSet
  <2> HIDE DEF g, want
  <2>5. cl'[c] = g /\ \A d \in Clients : d # c => cl'[d] = cl[d]
    BY <1>1, <2>1, Zenon
  <2>6. Held(c)' /\ Ending(c)'
    BY <2>2, <2>3, <2>4, <2>5, Zenon DEF Held, Ending
  <2>7. ASSUME NEW d \in Clients, d # c PROVE (Held(d) /\ Ending(d))'
    <3>1. ClientKeeps(d)
      BY <2>5, <2>7, Zenon DEF ClientKeeps
    <3>2. <<d, "main">> # m
      BY <2>7
    <3>3. calls'[<<d, "main">>] = calls[<<d, "main">>]
      BY <1>1, <1>2, <2>1, <3>2, Zenon
    <3>4. CallKeeps(<<d, "main">>)
      BY <3>3, Zenon DEF CallKeeps
    <3> QED BY <1>2, <3>1, <3>4, WantKept, Zenon
  <2> QED BY <2>6, <2>7, Zenon DEF WantInv
<1>10. ASSUME NEW c \in Clients, AddPartitions(c) \/ StageOffsets(c) PROVE WantInv'
  <2> DEFINE k == cl[c]
  <2>1. k.pc \in {"ready", "open"} /\ calls' = calls
    BY <1>10, Zenon DEF AddPartitions, StageOffsets
  <2>2. k \in ClientSet(top)
    BY <1>1, Zenon
  <2>3. \/ \E txn : cl' = [cl EXCEPT ![c] = [k EXCEPT !.pc = "open", !.added = TRUE, !.txn = txn]]
        \/ \E txn : cl' = [cl EXCEPT ![c] = [k EXCEPT !.pc = "open", !.txn = txn, !.staged = TRUE]]
        \/ cl' = [cl EXCEPT ![c] = [k EXCEPT !.pc = "fenced"]]
    <3>1. CASE AddPartitions(c)
      <4> DEFINE t == IF k.pc = "ready" THEN k.txn + 1 ELSE k.txn
      <4>1. \/ cl' = [cl EXCEPT ![c] = [k EXCEPT !.pc = "open", !.added = TRUE, !.txn = t]]
            \/ cl' = [cl EXCEPT ![c] = [k EXCEPT !.pc = "fenced"]]
        BY <3>1, Zenon DEF AddPartitions
      <4> HIDE DEF t, k
      <4> QED BY <4>1, Zenon
    <3>2. CASE StageOffsets(c)
      <4> DEFINE t == IF k.pc = "ready" THEN k.txn + 1 ELSE k.txn
      <4>1. \/ cl' = [cl EXCEPT ![c] = [k EXCEPT !.pc = "open", !.txn = t, !.staged = TRUE]]
            \/ cl' = [cl EXCEPT ![c] = [k EXCEPT !.pc = "fenced"]]
        BY <3>2, Zenon DEF StageOffsets
      <4> HIDE DEF t, k
      <4> QED BY <4>1, Zenon
    <3> QED BY <1>10, <3>1, <3>2, Zenon
  <2>4. PICK f : cl' = [cl EXCEPT ![c] = f] /\ f.pid = k.pid /\ f.want = k.want
    <3> HIDE DEF k
    <3>1. ASSUME NEW txn
          PROVE  /\ [k EXCEPT !.pc = "open", !.added = TRUE, !.txn = txn].pid = k.pid
                 /\ [k EXCEPT !.pc = "open", !.added = TRUE, !.txn = txn].want = k.want
                 /\ [k EXCEPT !.pc = "open", !.txn = txn, !.staged = TRUE].pid = k.pid
                 /\ [k EXCEPT !.pc = "open", !.txn = txn, !.staged = TRUE].want = k.want
                 /\ [k EXCEPT !.pc = "fenced"].pid = k.pid /\ [k EXCEPT !.pc = "fenced"].want = k.want
      BY <2>2 DEF ClientSet
    <3> QED BY <2>3, <3>1, Zenon
  <2>5. Clear
    BY <1>1, <2>1, <2>4, OneClientKeeps, Zenon
  <2> QED BY <1>3, <1>5, <2>1, <2>5, Zenon
<1>11. ASSUME NEW c \in Clients, Abandon(c) PROVE WantInv'
  <2> DEFINE o == <<c, "old">>
             m == <<c, "main">>
             k == cl[c]
             pc == IF k.want = "none" THEN "start" ELSE "open"
             g == [k EXCEPT !.pc = pc]
  <2>1. calls' = [calls EXCEPT ![o] = calls[m], ![m] = NoCall] /\ cl' = [cl EXCEPT ![c] = g]
    BY <1>11, Zenon DEF Abandon
  <2>2. k \in ClientSet(top)
    BY <1>1, Zenon
  <2>3. pc \in {"ready", "open"} => k.want # "none"
    OBVIOUS
  <2>4. g.pid = k.pid /\ g.want = k.want /\ g.pc = pc
    <3> HIDE DEF k, pc
    <3> QED BY <2>2 DEF ClientSet
  <2> HIDE DEF g, pc
  <2>5. Clear
    BY <1>1, <2>1, <2>3, <2>4, OneClientKeeps, Zenon
  <2>6. ASSUME NEW d \in Clients PROVE CallKeeps(<<d, "main">>)
    <3>1. NoCall.pc = "idle"
      BY DEF NoCall
    <3>2. CASE d = c
      <4>1. calls'[m] = NoCall
        BY <1>1, <1>2, <2>1, Zenon
      <4> QED BY <3>1, <3>2, <4>1, Zenon DEF CallKeeps
    <3>3. CASE d # c
      <4>1. <<d, "main">> # o /\ <<d, "main">> # m
        BY <3>3
      <4>2. calls'[<<d, "main">>] = calls[<<d, "main">>]
        BY <1>1, <1>2, <2>1, <4>1, Zenon
      <4> QED BY <4>2, Zenon DEF CallKeeps
    <3> QED BY <3>2, <3>3, Zenon
  <2> QED BY <1>2, <2>5, <2>6, WantKept, Zenon DEF WantInv
<1>12. ASSUME NEW x \in X, calls'[x].op = calls[x].op, calls[x].pc # "idle", cl' = cl,
              \A y \in X : y # x => calls'[y] = calls[y]
       PROVE  WantInv'
  <2>1. Quiet
    BY <1>12, Zenon DEF CallKeeps
  <2> QED BY <1>3, <1>4, <1>12, <2>1, Zenon
<1>13. ASSUME NEW x \in X, NEW pid, NEW epoch, NEW todo, NEW n, NEW off, NEW offsets, NEW pc,
              calls[x].pc # "idle", cl' = cl,
              \/ calls' = [calls EXCEPT ![x].pc = "seed", ![x].pid = pid, ![x].epoch = epoch]
              \/ calls' = [calls EXCEPT ![x].pc = "prepare", ![x].pid = pid, ![x].epoch = epoch, ![x].commit = FALSE]
              \/ calls' = [calls EXCEPT ![x].todo = todo, ![x].begun = n, ![x].pc = pc]
              \/ calls' = [calls EXCEPT ![x].pc = pc]
              \/ calls' = [calls EXCEPT ![x].todo = todo, ![x].off = off, ![x].pc = pc]
              \/ calls' = [calls EXCEPT ![x].pc = pc, ![x].offsets = offsets]
       PROVE  WantInv'
  <2>1. calls'[x].op = calls[x].op
    <3>1. CASE calls' = [calls EXCEPT ![x].pc = "seed", ![x].pid = pid, ![x].epoch = epoch]
      BY <1>1, <3>1 DEF CallSet
    <3>2. CASE calls' = [calls EXCEPT ![x].pc = "prepare", ![x].pid = pid, ![x].epoch = epoch, ![x].commit = FALSE]
      BY <1>1, <3>2 DEF CallSet
    <3>3. CASE calls' = [calls EXCEPT ![x].todo = todo, ![x].begun = n, ![x].pc = pc]
      BY <1>1, <3>3 DEF CallSet
    <3>4. CASE calls' = [calls EXCEPT ![x].pc = pc]
      BY <1>1, <3>4 DEF CallSet
    <3>5. CASE calls' = [calls EXCEPT ![x].todo = todo, ![x].off = off, ![x].pc = pc]
      BY <1>1, <3>5 DEF CallSet
    <3>6. CASE calls' = [calls EXCEPT ![x].pc = pc, ![x].offsets = offsets]
      BY <1>1, <3>6 DEF CallSet
    <3> QED BY <1>13, <3>1, <3>2, <3>3, <3>4, <3>5, <3>6, Zenon
  <2>2. PICK f : calls' = [calls EXCEPT ![x] = f]
    BY <1>13, Zenon
  <2>3. \A y \in X : y # x => calls'[y] = calls[y]
    BY <1>1, <2>2, Zenon
  <2> QED BY <1>12, <1>13, <2>1, <2>3, Zenon
<1>14. \A x \in X : calls[x].pc \in {"cas", "seed", "prepare", "mark", "register", "resolve", "offsets"} => calls[x].pc # "idle"
  OBVIOUS
<1>15. ASSUME NEW x \in X, InitCas(x) PROVE WantInv'
  <2>1. cl' = cl /\ calls[x].pc # "idle"
    BY <1>14, <1>15, Zenon DEF InitCas
  <2>2. \E pid, epoch : \/ calls' = [calls EXCEPT ![x].pc = "seed", ![x].pid = pid, ![x].epoch = epoch]
                        \/ calls' = [calls EXCEPT ![x].pc = "prepare", ![x].pid = pid, ![x].epoch = epoch, ![x].commit = FALSE]
    BY <1>15, InitCasCalls, Zenon
  <2> QED BY <1>13, <2>1, <2>2, Zenon
<1>16. ASSUME NEW x \in X, NEW fenced, calls' = [calls EXCEPT ![x] = NoCall], cl' = AfterErrors(cl, {x}, fenced)
       PROVE  WantInv'
  <2>1. NoCall.pc = "idle"
    BY DEF NoCall
  <2>2. Quiet
    BY <1>1, <1>16, <2>1, OneCallKeeps, Zenon
  <2>3. Clear
    BY <1>1, <1>16, ErrorsKeep, Zenon
  <2> QED BY <1>3, <2>2, <2>3, Zenon
<1>17. ASSUME NEW x \in X, Seed(x) PROVE WantInv'
  <2> DEFINE c == x[1]
             k == cl[c]
             f == [NewClient EXCEPT !.pc = "ready", !.pid = calls[x].pid, !.epoch = calls[x].epoch, !.txn = k.txn, !.sent = k.sent]
  <2>1. calls' = [calls EXCEPT ![x] = NoCall] /\ calls[x].pc = "seed"
    BY <1>17, Zenon DEF Seed
  <2>2. NoCall.pc = "idle"
    BY DEF NoCall
  <2>3. Quiet
    BY <1>1, <2>1, <2>2, OneCallKeeps, Zenon
  <2>4. CASE cl' = cl
    BY <1>3, <1>4, <2>3, <2>4, Zenon
  <2>5. CASE cl' = AfterErrors(cl, {x}, FALSE)
    BY <1>16, <2>1, <2>5, Zenon
  <2>6. CASE x[2] = "main" /\ cl' = [cl EXCEPT ![c] = f]
    <3>1. c \in Clients /\ x = <<c, "main">>
      BY <2>6
    <3>2. f.pid = calls[x].pid /\ f.want = "none"
      <4> HIDE DEF k
      <4> QED BY DEF NewClient
    <3>3. calls[x].pid # -1
      <4>1. IssuedTo(TidOf[c], calls[x].pid, calls[x].epoch) /\ LedgerIds /\ LedgerTypes
        BY <2>1, Zenon DEF IdInv, HoldersIssued, Types
      <4>2. TidOf[c] = NoTid \/ TidOf[c] \in Tids
        BY <3>1, Zenon DEF Tids
      <4>3. calls[x].pid \in 1..lastPid
        BY <4>1, <4>2, IssuedNumbered, Zenon
      <4>4. lastPid \in Nat
        BY <4>1, Zenon DEF LedgerTypes
      <4> QED BY <4>3, <4>4
    <3> HIDE DEF f, c
    <3>4. cl'[c] = f /\ \A d \in Clients : d # c => cl'[d] = cl[d]
      BY <1>1, <2>6, <3>1, Zenon
    <3>5. Held(c)'
      BY <3>2, <3>3, <3>4, Zenon DEF Held
    <3>6. Ending(c)'
      <4>1. calls'[x] = NoCall
        BY <1>1, <2>1, Zenon
      <4> QED BY <2>2, <3>1, <4>1, Zenon DEF Ending
    <3>7. ASSUME NEW d \in Clients, d # c PROVE (Held(d) /\ Ending(d))'
      <4>1. ClientKeeps(d)
        BY <3>4, <3>7, Zenon DEF ClientKeeps
      <4> QED BY <1>2, <2>3, <4>1, WantKept, Zenon
    <3> QED BY <3>5, <3>6, <3>7, Zenon DEF WantInv
  <2> QED BY <1>17, <2>4, <2>5, <2>6, Zenon DEF Seed
<1>18. ASSUME NEW x \in X, NEW fenced, Err(x, fenced) PROVE WantInv'
  <2>1. calls' = [calls EXCEPT ![x] = NoCall] /\ cl' = AfterErrors(cl, {x}, fenced)
    BY <1>18, Zenon DEF Err
  <2> QED BY <1>16, <2>1, Zenon
<1>19. ASSUME NEW x \in X, Prepare(x) PROVE WantInv'
  <2>1. calls[x].pc # "idle"
    BY <1>14, <1>19, Zenon DEF Prepare
  <2>2. CASE ~ Current(TidOf[x[1]], calls[x].pid, calls[x].epoch)
    BY <1>18, <1>19, <2>2, Zenon DEF Prepare
  <2>3. CASE Current(TidOf[x[1]], calls[x].pid, calls[x].epoch)
    <3> DEFINE d == Detail(TidOf[x[1]], calls[x].epoch)
               todo == {p \in Partitions : d.state = "Begin" /\ d.produces[p] # NoRange}
               n == d.begun
               pc == IF todo = {} THEN "resolve" ELSE "mark"
    <3>1. calls' = [calls EXCEPT ![x].todo = todo, ![x].begun = n, ![x].pc = pc] /\ cl' = cl
      BY <1>19, <2>3, Zenon DEF Prepare
    <3> HIDE DEF todo, n, pc
    <3> QED BY <1>13, <2>1, <3>1, Zenon
  <2> QED BY <2>2, <2>3, Zenon
<1>20. ASSUME NEW x \in X, Mark(x) \/ RegisterMarker(x) PROVE WantInv'
  <2>1. calls[x].pc # "idle" /\ cl' = cl
    BY <1>14, <1>20, Zenon DEF Mark, RegisterMarker
  <2>2. CASE Mark(x)
    <3>1. calls' = [calls EXCEPT ![x].pc = "wait"]
      BY <2>2, Zenon DEF Mark
    <3> QED BY <1>13, <2>1, <3>1, Zenon
  <2>3. CASE RegisterMarker(x)
    <3> DEFINE rest == calls[x].todo \ {CHOOSE p \in calls[x].todo : \A q \in calls[x].todo : p <= q}
               pc == IF rest = {} THEN "resolve" ELSE "mark"
    <3>1. calls' = [calls EXCEPT ![x].todo = rest, ![x].off = -1, ![x].pc = pc]
      BY <2>3, Zenon DEF RegisterMarker
    <3> HIDE DEF rest, pc
    <3> QED BY <1>13, <2>1, <3>1, Zenon
  <2> QED BY <1>20, <2>2, <2>3, Zenon
<1>21. ASSUME NEW x \in X, Resolve(x) \/ CommitOffsets(x) PROVE WantInv'
  <2>1. calls[x].pc # "idle"
    BY <1>14, <1>21, Zenon DEF Resolve, CommitOffsets
  <2>2. \/ Succeed(x) \/ \E fenced : Err(x, fenced)
        \/ cl' = cl /\ \E offsets : calls' = [calls EXCEPT ![x].pc = "offsets", ![x].offsets = offsets]
    BY <1>21, Zenon DEF Resolve, CommitOffsets
  <2>3. Succeed(x) => WantInv'
    BY <1>1, <2>1, SuccessKeeps, Zenon
  <2> QED BY <1>13, <1>18, <2>1, <2>2, <2>3, Zenon
<1>22. ASSUME NEW g \in regs, Register(g) PROVE WantInv'
  <2> DEFINE c == g.q.c
             k == cl[c]
             left == {q \in k.out : q.id # g.q.id}
             f == [k EXCEPT !.out = left]
  <2>1. calls' = calls /\ (cl' = cl \/ cl' = [cl EXCEPT ![c] = f])
    BY <1>22, Zenon DEF Register
  <2>2. g \in [q : DataRequests(top), off : Nat, at : Replicas]
    BY <1>1, Zenon DEF ClientTypes
  <2>3. c \in Clients
    BY <2>2 DEF DataRequests
  <2>4. k \in ClientSet(top)
    BY <1>1, <2>3, Zenon
  <2>5. f.pid = k.pid /\ f.want = k.want /\ f.pc = k.pc
    <3> HIDE DEF k, left
    <3> QED BY <2>4 DEF ClientSet
  <2> HIDE DEF f, c
  <2>6. Clear
    BY <1>1, <1>4, <2>1, <2>3, <2>5, OneClientKeeps, Zenon
  <2> QED BY <1>3, <1>5, <2>1, <2>6, Zenon
<1>23. ASSUME Rest0 PROVE WantInv'
  <2>1. cl' = cl /\ calls' = calls
    BY <1>23, Zenon DEF Rest0
  <2> QED BY <1>3, <1>4, <1>5, <2>1, Zenon
<1>24. ASSUME NEW r \in Replicas, FlushWon(r) \/ FlushEmpty(r) \/ FlushFailed(r) PROVE WantInv'
  <2>1. Clear
    <3>1. \E out : Deliver(r, flush[r].reqs, out)
      BY <1>24, Zenon DEF FlushWon, FlushEmpty, FlushFailed
    <3> QED BY <1>1, <3>1, DeliverKeeps, Zenon
  <2>2. PICK out : FlushAnswered(top, r, out)
    BY <1>0, <1>24, FlushEnds, Zenon
  <2>3. ASSUME NEW y \in X PROVE CallKeeps(y)
    <3>1. CASE calls'[y] = NoCall
      <4>1. NoCall.pc = "idle"
        BY DEF NoCall
      <4> QED BY <3>1, <4>1, Zenon DEF CallKeeps
    <3>2. CASE calls'[y] = calls[y]
      BY <3>2, Zenon DEF CallKeeps
    <3>3. ASSUME calls[y].pc = "wait", NEW off, calls'[y] = [calls[y] EXCEPT !.pc = "register", !.off = off]
          PROVE  CallKeeps(y)
      <4>1. calls[y] \in CallSet
        BY <1>1, Zenon
      <4>2. calls'[y].op = calls[y].op /\ calls[y].pc # "idle"
        BY <3>3, <4>1 DEF CallSet
      <4> QED BY <4>2, Zenon DEF CallKeeps
    <3> QED BY <2>2, <3>1, <3>2, <3>3, Zenon DEF FlushAnswered, Delivered1
  <2> QED BY <1>3, <2>1, <2>3, Zenon
<1>25. ASSUME NEW r \in Replicas, Crash(r) PROVE WantInv'
  <2>1. PICK dead : /\ calls' = [x \in DOMAIN calls |-> IF x \in dead THEN NoCall ELSE calls[x]]
                    /\ cl' = AfterErrors(cl, dead, FALSE)
    BY <1>25, Zenon DEF Crash
  <2>2. Clear
    BY <1>1, <2>1, ErrorsKeep, Zenon
  <2>3. \A y \in X : calls'[y] = NoCall \/ calls'[y] = calls[y]
    BY <1>1, <2>1, Zenon
  <2>4. NoCall.pc = "idle"
    BY DEF NoCall
  <2>5. Quiet
    BY <2>3, <2>4, Zenon DEF CallKeeps
  <2> QED BY <1>3, <2>2, <2>5, Zenon
<1>26. CASE UNCHANGED vars
  <2>1. cl' = cl /\ calls' = calls
    BY <1>26, Zenon DEF vars
  <2> QED BY <1>3, <1>4, <1>5, <2>1, Zenon
<1>27. CASE Next
  BY <1>27, <1>6, <1>7, <1>8, <1>9, <1>10, <1>11, <1>15, <1>17, <1>19, <1>20, <1>21, <1>22, <1>23, <1>24, <1>25, Zenon DEF Next
<1> QED BY <1>26, <1>27, Zenon

\* Initially no client has an identity, and none needs one.
LEMMA WantInit ==
    ASSUME Init
    PROVE  WantInv
<1>1. calls = [x \in Clients \X Slots |-> NoCall] /\ cl = [c \in Clients |-> NewClient]
  BY Zenon DEF Init
<1>2. NewClient.pc \notin {"ready", "open"} /\ NewClient.want = "none" /\ NoCall.pc = "idle"
  BY DEF NewClient, NoCall
<1>3. \A c \in Clients : <<c, "main">> \in Clients \X Slots
  BY DEF Slots
<1> QED BY <1>1, <1>2, <1>3, Zenon DEF WantInv, Held, Ending

-----------------------------------------------------------------------------
(* How requests travel through the log. *)

\* What a step may do to the flush of r: it ends, it goes on as it was, it takes the parked window, or it
\* plans that window over the segments up to `upto`.
FlushMoves(top, r) ==
    \/ flush'[r] = NoFlush
    \/ /\ flush'[r].reqs = flush[r].reqs /\ flush'[r].added = flush[r].added /\ flush'[r].out = flush[r].out
       /\ flush'[r].candidate = flush[r].candidate /\ (flush'[r].pc = "put" => flush[r].pc = "put")
    \/ flush'[r].reqs = parked[r] /\ flush'[r].added = <<>> /\ flush'[r].pc # "put"
    \/ \E upto \in Nat :
         /\ upto <= Len(segments) /\ segments' = segments
         /\ SubSeq(segments, 1, upto) \in Seq(Seq(Entries(top)))
         /\ Planned(Entries(top), SubSeq(segments, 1, upto), flush[r].reqs, Len(flush[r].reqs),
                    Plan(SubSeq(segments, 1, upto), flush[r].reqs))
         /\ flush'[r].reqs = flush[r].reqs /\ flush'[r].candidate = upto
         /\ flush'[r].added = Plan(SubSeq(segments, 1, upto), flush[r].reqs).added
         /\ flush'[r].out = Plan(SubSeq(segments, 1, upto), flush[r].reqs).out

\* What it may do to the requests parked at r.
ParkedMoves(top, r) ==
    \/ parked'[r] = parked[r] \/ parked'[r] = <<>>
    \/ \E q \in Requests(top) : Origin(q) /\ parked'[r] = Append(parked[r], q)

\* What it may do to the segments: nothing, or the create of a flush or a late one wins.
SegmentsMove ==
    \/ segments' = segments
    \/ \E r \in Replicas : /\ flush[r].pc = "put" /\ flush[r].candidate = Len(segments)
                           /\ segments' = Append(segments, flush[r].added)
    \/ \E z \in late : z.candidate = Len(segments) /\ segments' = Append(segments, z.added)

\* What it may do to the creates given up.
LateMoves ==
    \A z \in late' : \/ z \in late
                     \/ \E r \in Replicas : /\ flush[r].pc = "put"
                                            /\ z = [candidate |-> flush[r].candidate, added |-> flush[r].added]

LogMoves(top) ==
    /\ SegmentsMove /\ LateMoves
    /\ \A r \in Replicas : FlushMoves(top, r) /\ ParkedMoves(top, r)

\* A step of the log moves it like this.
LEMMA LogMove ==
    ASSUME Given, NEW top \in Int, LogTypes(top), LogStep(top)
    PROVE  LogMoves(top)
<1>1. flush \in [Replicas -> Flushes(top)] /\ parked \in [Replicas -> Seq(Requests(top))]
  BY Zenon DEF LogTypes
<1>2. ASSUME NEW r \in Replicas, flush'[r] = flush[r] PROVE FlushMoves(top, r)
  BY <1>2, Zenon DEF FlushMoves
<1>3. ASSUME NEW r \in Replicas, parked'[r] = parked[r] PROVE ParkedMoves(top, r)
  BY <1>3, Zenon DEF ParkedMoves
<1>4. ASSUME NEW r \in Replicas, flush' = [flush EXCEPT ![r] = NoFlush]
      PROVE  \A s \in Replicas : FlushMoves(top, s)
  <2>1. \A s \in Replicas : flush'[s] = IF s = r THEN NoFlush ELSE flush[s]
    BY <1>1, <1>4, Zenon
  <2> QED BY <1>2, <2>1, Zenon DEF FlushMoves
<1>5. ASSUME NEW r \in Replicas, parked' = [parked EXCEPT ![r] = <<>>]
      PROVE  \A s \in Replicas : ParkedMoves(top, s)
  <2>1. \A s \in Replicas : parked'[s] = IF s = r THEN <<>> ELSE parked[s]
    BY <1>1, <1>5, Zenon
  <2> QED BY <2>1, Zenon DEF ParkedMoves
<1>6. ASSUME late' = late PROVE LateMoves
  BY <1>6, Zenon DEF LateMoves
<1>7. CASE UNCHANGED logVars
  <2>1. segments' = segments /\ parked' = parked /\ flush' = flush /\ late' = late
    BY <1>7, Zenon DEF logVars
  <2> QED BY <1>2, <1>3, <1>6, <2>1, Zenon DEF LogMoves, SegmentsMove
<1>8. ASSUME NEW r, NEW q \in Requests(top), Origin(q), Park(r, q), UNCHANGED <<segments, folded, flush, late>>
      PROVE  LogMoves(top)
  <2>1. segments' = segments /\ flush' = flush /\ late' = late
    BY <1>8, Zenon
  <2>2. parked' = [parked EXCEPT ![r] = Append(@, q)]
    BY <1>8, Zenon DEF Park
  <2>3. \A s \in Replicas : parked'[s] = IF s = r THEN Append(parked[r], q) ELSE parked[s]
    BY <1>1, <2>2, Zenon
  <2>4. \A s \in Replicas : ParkedMoves(top, s)
    BY <1>8, <2>3, Zenon DEF ParkedMoves
  <2> QED BY <1>2, <1>6, <2>1, <2>4, Zenon DEF LogMoves, SegmentsMove
<1>9. ASSUME NEW r \in Replicas, TakeWindow(r) PROVE LogMoves(top)
  <2> DEFINE f == [NoFlush EXCEPT !.pc = "attempt", !.reqs = parked[r]]
  <2>1. segments' = segments /\ late' = late /\ parked' = [parked EXCEPT ![r] = <<>>] /\ flush' = [flush EXCEPT ![r] = f]
    BY <1>9, Zenon DEF TakeWindow
  <2>2. f.reqs = parked[r] /\ f.added = <<>> /\ f.pc # "put"
    BY DEF NoFlush
  <2> HIDE DEF f
  <2>3. \A s \in Replicas : flush'[s] = IF s = r THEN f ELSE flush[s]
    BY <1>1, <2>1, Zenon
  <2>4. FlushMoves(top, r)
    BY <2>2, <2>3, Zenon DEF FlushMoves
  <2> QED BY <1>2, <1>5, <1>6, <2>1, <2>3, <2>4, Zenon DEF LogMoves, SegmentsMove
<1>10. ASSUME NEW r \in Replicas, Attempt(r) PROVE LogMoves(top)
  <2>1. PICK upto \in FoldTo(r) :
          flush' = [flush EXCEPT ![r].pc = "put", ![r].candidate = upto,
                       ![r].added = Plan(SubSeq(segments, 1, upto), flush[r].reqs).added,
                       ![r].out = Plan(SubSeq(segments, 1, upto), flush[r].reqs).out]
    BY <1>10, Zenon DEF Attempt
  <2> DEFINE plan == Plan(SubSeq(segments, 1, upto), flush[r].reqs)
  <2>2. flush[r].pc \in {"attempt", "retry"} /\ segments' = segments /\ parked' = parked /\ late' = late
    BY <1>10, Zenon DEF Attempt
  <2>3. /\ upto \in Nat /\ upto <= Len(segments)
        /\ SubSeq(segments, 1, upto) \in Seq(Seq(Entries(top)))
        /\ Planned(Entries(top), SubSeq(segments, 1, upto), flush[r].reqs, Len(flush[r].reqs), plan)
    BY <2>2, AttemptPlanned, Zenon
  <2>4. flush' = [flush EXCEPT ![r].pc = "put", ![r].candidate = upto, ![r].added = plan.added, ![r].out = plan.out]
    BY <2>1, Zenon
  <2>5. /\ \A s \in Replicas : s # r => flush'[s] = flush[s]
        /\ flush'[r].reqs = flush[r].reqs /\ flush'[r].candidate = upto
        /\ flush'[r].added = plan.added /\ flush'[r].out = plan.out
    <3> HIDE DEF plan
    <3> QED BY <1>1, <2>4 DEF Flushes
  <2>6. FlushMoves(top, r)
    BY <2>2, <2>3, <2>5, Zenon DEF FlushMoves
  <2> QED BY <1>2, <1>3, <1>6, <2>2, <2>5, <2>6, Zenon DEF LogMoves, SegmentsMove
<1>11. ASSUME NEW r \in Replicas, PutLost(r) PROVE LogMoves(top)
  <2>1. /\ segments' = segments /\ parked' = parked /\ late' = late
        /\ flush' = [flush EXCEPT ![r].pc = "retry"]
    BY <1>11, Zenon DEF PutLost
  <2>2. /\ \A s \in Replicas : s # r => flush'[s] = flush[s]
        /\ flush'[r].reqs = flush[r].reqs /\ flush'[r].added = flush[r].added /\ flush'[r].out = flush[r].out
        /\ flush'[r].candidate = flush[r].candidate /\ flush'[r].pc # "put"
    BY <1>1, <2>1 DEF Flushes
  <2>3. FlushMoves(top, r)
    BY <2>2, Zenon DEF FlushMoves
  <2> QED BY <1>2, <1>3, <1>6, <2>1, <2>2, <2>3, Zenon DEF LogMoves, SegmentsMove
<1>12. ASSUME NEW r \in Replicas, CrashLog(r) PROVE LogMoves(top)
  <2>1. /\ segments' = segments /\ parked' = [parked EXCEPT ![r] = <<>>] /\ flush' = [flush EXCEPT ![r] = NoFlush]
    BY <1>12, Zenon DEF CrashLog
  <2>2. LateMoves
    BY <1>12, Zenon DEF CrashLog, LateMoves
  <2> QED BY <1>4, <1>5, <2>1, <2>2, Zenon DEF LogMoves, SegmentsMove
<1>13. ASSUME NEW r \in Replicas, NEW out, PutWon(r, out) PROVE LogMoves(top)
  <2>1. /\ parked' = parked /\ late' = late /\ flush' = [flush EXCEPT ![r] = NoFlush]
        /\ flush[r].pc = "put" /\ Len(segments) = flush[r].candidate /\ segments' = Append(segments, flush[r].added)
    BY <1>13, Zenon DEF PutWon, Free
  <2>2. SegmentsMove
    BY <2>1, Zenon DEF SegmentsMove
  <2> QED BY <1>3, <1>4, <1>6, <2>1, <2>2, Zenon DEF LogMoves
<1>14. ASSUME NEW r \in Replicas, NEW out, AttemptEmpty(r, out) PROVE LogMoves(top)
  <2>1. segments' = segments /\ parked' = parked /\ late' = late /\ flush' = [flush EXCEPT ![r] = NoFlush]
    BY <1>14, Zenon DEF AttemptEmpty
  <2> QED BY <1>3, <1>4, <1>6, <2>1, Zenon DEF LogMoves, SegmentsMove
<1>15. ASSUME NEW r \in Replicas, NEW out, PutFailed(r, out) PROVE LogMoves(top)
  <2>1. parked' = parked /\ flush' = [flush EXCEPT ![r] = NoFlush] /\ flush[r].pc = "put"
    BY <1>15, Zenon DEF PutFailed
  <2>2. LateMoves
    BY <1>15, Zenon DEF PutFailed, LateMoves
  <2>3. SegmentsMove
    BY <1>15, Zenon DEF PutFailed, SegmentsMove, Free
  <2> QED BY <1>3, <1>4, <2>1, <2>2, <2>3, Zenon DEF LogMoves
<1>16. ASSUME LatePut PROVE LogMoves(top)
  <2>1. PICK z \in late : /\ late' = late \ {z}
                          /\ segments' = IF Free(z.candidate) THEN Append(segments, z.added) ELSE segments
    BY <1>16, Zenon DEF LatePut
  <2>2. parked' = parked /\ flush' = flush
    BY <1>16, Zenon DEF LatePut
  <2>3. LateMoves
    BY <2>1, Zenon DEF LateMoves
  <2>4. SegmentsMove
    BY <2>1, Zenon DEF SegmentsMove, Free
  <2> QED BY <1>2, <1>3, <2>2, <2>3, <2>4, Zenon DEF LogMoves
<1> QED BY <1>7, <1>8, <1>9, <1>10, <1>11, <1>12, <1>13, <1>14, <1>15, <1>16, Zenon DEF LogStep

\* Appending a footer adds its positions after all the others.
LEMMA PositionsOfAppend ==
    ASSUME NEW E, NEW segs \in Seq(Seq(E)), NEW added \in Seq(E)
    PROVE  /\ Append(segs, added) \in Seq(Seq(E))
           /\ \A x : x \in Positions(Append(segs, added)) <=>
                \/ x \in Positions(segs)
                \/ \E i \in 1..Len(added) : x = <<Len(segs) + 1, i>>
           /\ \A x \in Positions(segs) : /\ At(Append(segs, added), x) = At(segs, x)
                                         /\ x[1] <= Len(segs)
           /\ \A i \in 1..Len(added) : At(Append(segs, added), <<Len(segs) + 1, i>>) = added[i]
<1> DEFINE all == Append(segs, added)
<1>1. /\ all \in Seq(Seq(E)) /\ Len(all) = Len(segs) + 1 /\ Len(segs) \in Nat
      /\ \A k \in 1..Len(segs) : all[k] = segs[k]
      /\ all[Len(segs) + 1] = added
  OBVIOUS
<1> HIDE DEF all
<1>2. ASSUME NEW x \in Positions(segs)
      PROVE  x \in Positions(all) /\ At(all, x) = At(segs, x) /\ x[1] <= Len(segs)
  <2>1. x = <<x[1], x[2]>> /\ x[1] \in 1..Len(segs) /\ x[2] \in 1..Len(segs[x[1]])
    BY StoredPosition, Zenon
  <2>2. x[1] \in 1..Len(all) /\ all[x[1]] = segs[x[1]] /\ x[1] <= Len(segs)
    BY <1>1, <2>1
  <2>3. x \in Positions(all)
    BY <1>1, <2>1, <2>2, StoredPosition, Zenon
  <2> QED BY <2>2, <2>3, Zenon DEF At
<1>3. ASSUME NEW i \in 1..Len(added)
      PROVE  <<Len(segs) + 1, i>> \in Positions(all) /\ At(all, <<Len(segs) + 1, i>>) = added[i]
  <2> DEFINE x == <<Len(segs) + 1, i>>
  <2>1. x[1] = Len(segs) + 1 /\ x[2] = i /\ x = <<x[1], x[2]>>
    OBVIOUS
  <2>2. x[1] \in 1..Len(all) /\ x[2] \in 1..Len(all[x[1]])
    BY <1>1, <2>1
  <2>3. x \in Positions(all)
    BY <1>1, <2>1, <2>2, StoredPosition, Zenon
  <2> QED BY <1>1, <2>1, <2>3, Zenon DEF At
<1>4. ASSUME NEW x \in Positions(all)
      PROVE  x \in Positions(segs) \/ \E i \in 1..Len(added) : x = <<Len(segs) + 1, i>>
  <2>1. x = <<x[1], x[2]>> /\ x[1] \in 1..Len(all) /\ x[2] \in 1..Len(all[x[1]])
    BY <1>1, StoredPosition, Zenon
  <2>2. CASE x[1] \in 1..Len(segs)
    <3>1. x[2] \in 1..Len(segs[x[1]])
      BY <1>1, <2>1, <2>2, Zenon
    <3> QED BY <2>1, <2>2, <3>1, StoredPosition, Zenon
  <2>3. CASE x[1] = Len(segs) + 1
    BY <1>1, <2>1, <2>3, Zenon
  <2>4. x[1] \in 1..Len(segs) \/ x[1] = Len(segs) + 1
    BY <1>1, <2>1
  <2> QED BY <2>2, <2>3, <2>4, Zenon
<1> QED BY <1>1, <1>2, <1>3, <1>4, Zenon DEF all


-----------------------------------------------------------------------------
(* The batches and markers that are somewhere in the system. *)

In(b, s) == \E i \in DOMAIN s : b = s[i]

\* The log, the creates given up, and the requests being flushed or parked.
InLog(b) ==
    \/ \E x \in Stored : b = Entry(x)
    \/ \E z \in late : In(b, z.added)
    \/ \E r \in Replicas : In(b, flush[r].added) \/ In(b, flush[r].reqs) \/ In(b, parked[r])

\* With the clients' unanswered batches and those waiting for their registration.
Around(b) ==
    \/ InLog(b)
    \/ \E c \in Clients : b \in cl[c].out
    \/ \E g \in regs : b = g.q

\* a and b are the same batch or marker; one may be its request, the other its footer entry.
SameKey(a, b) ==
    /\ a.part = b.part /\ a.pid = b.pid /\ a.epoch = b.epoch /\ a.base = b.base /\ a.n = b.n
    /\ a.control = b.control /\ a.commit = b.commit /\ a.id = b.id

\* b is around already, or is what the step brings in.
Derives(b) ==
    \/ \E a : Around(a) /\ SameKey(a, b)
    \/ \E c \in Clients, p \in Partitions, n \in BatchSizes, r \in Replicas :
         Send(c, p, n, r) /\ SameKey(DataRequest(c, p, n), b)
    \/ \E x \in Clients \X Slots : \E p \in calls[x].todo : Mark(x) /\ SameKey(MarkerRequest(x, p), b)

\* An entry is the request it was encoded from.
LEMMA EntryKey == \A q, off : SameKey(q, EntryAt(q, off))
BY DEF SameKey, EntryAt

\* A request that is parked is derived.
LEMMA OriginDerives ==
    ASSUME NEW top, ClientTypes(top), NEW q, Origin(q)
    PROVE  Derives(q)
<1>1. ASSUME NEW c \in Clients, NEW u \in cl[c].out, NEW b \in BOOLEAN, q = [u EXCEPT !.next = b] PROVE Derives(q)
  <2>1. cl[c] \in ClientSet(top)
    BY Zenon DEF ClientTypes
  <2>2. cl[c].out \subseteq DataRequests(top)
    BY <2>1 DEF ClientSet
  <2>3. u \in DataRequests(top)
    BY <2>2, Zenon
  <2>4. SameKey(u, q)
    BY <1>1, <2>3 DEF SameKey, DataRequests
  <2>5. Around(u)
    BY Zenon DEF Around
  <2> QED BY <2>4, <2>5, Zenon DEF Derives
<1>2. \A b : SameKey(b, b)
  BY Zenon DEF SameKey
<1>3. (\E c \in Clients, p \in Partitions, n \in BatchSizes, r \in Replicas : Send(c, p, n, r) /\ q = DataRequest(c, p, n))
        => Derives(q)
  BY <1>2, Zenon DEF Derives
<1>4. (\E x \in Clients \X Slots : \E p \in calls[x].todo : Mark(x) /\ q = MarkerRequest(x, p)) => Derives(q)
  BY <1>2, Zenon DEF Derives
<1> QED BY <1>1, <1>3, <1>4, Zenon DEF Origin

\* Everything in the log after a step is derived.
LEMMA LogDerives ==
    ASSUME NEW top \in Int, LogTypes(top), ClientTypes(top), LogMoves(top), NEW b, InLog(b)'
    PROVE  Derives(b)
<1>1. ASSUME NEW a, InLog(a) PROVE Derives(a)
  <2>1. SameKey(a, a)
    BY Zenon DEF SameKey
  <2> QED BY <1>1, <2>1, Zenon DEF Derives, Around
<1>2. ASSUME NEW added \in Seq(Entries(top)), segments' = Append(segments, added), \A a : In(a, added) => InLog(a),
             NEW x \in Stored', b = Entry(x)'
      PROVE  Derives(b)
  <2>1. segments \in Seq(Seq(Entries(top)))
    BY Zenon DEF LogTypes
  <2>2. x \in Positions(Append(segments, added)) /\ b = At(Append(segments, added), x)
    BY <1>2, Zenon DEF Stored, Entry
  <2>2a. /\ \A y \in Positions(segments) : At(Append(segments, added), y) = At(segments, y)
         /\ \A i \in 1..Len(added) : At(Append(segments, added), <<Len(segments) + 1, i>>) = added[i]
    BY <2>1, PositionsOfAppend
  <2>3. CASE x \in Positions(segments)
    <3>1. b = At(segments, x)
      BY <2>2, <2>2a, <2>3, Zenon
    <3>2. InLog(b)
      BY <2>3, <3>1, Zenon DEF InLog, Stored, Entry
    <3> QED BY <1>1, <3>2, Zenon
  <2>4. ASSUME NEW i \in 1..Len(added), x = <<Len(segments) + 1, i>> PROVE Derives(b)
    <3>1. b = added[i]
      BY <2>2, <2>2a, <2>4, Zenon
    <3>2. i \in DOMAIN added
      OBVIOUS
    <3>3. InLog(b)
      BY <1>2, <3>1, <3>2, Zenon DEF In
    <3> QED BY <1>1, <3>3, Zenon
  <2> QED BY <2>1, <2>2, <2>3, <2>4, PositionsOfAppend, Zenon
<1>3. ASSUME NEW x \in Stored', b = Entry(x)' PROVE Derives(b)
  <2>1. CASE segments' = segments
    <3>1. InLog(b)
      BY <1>3, <2>1, Zenon DEF Stored, Entry, InLog
    <3> QED BY <1>1, <3>1, Zenon
  <2>2. ASSUME NEW r \in Replicas, segments' = Append(segments, flush[r].added) PROVE Derives(b)
    <3>1. flush[r] \in Flushes(top)
      BY Zenon DEF LogTypes
    <3>2. flush[r].added \in Seq(Entries(top))
      BY <3>1 DEF Flushes
    <3> QED BY <1>2, <1>3, <2>2, <3>2, Zenon DEF InLog
  <2>3. ASSUME NEW z \in late, segments' = Append(segments, z.added) PROVE Derives(b)
    <3>1. z \in [candidate : Nat, added : Seq(Entries(top))]
      BY Zenon DEF LogTypes
    <3>2. z.added \in Seq(Entries(top))
      BY <3>1
    <3> QED BY <1>2, <1>3, <2>3, <3>2, Zenon DEF InLog
  <2> QED BY <2>1, <2>2, <2>3, Zenon DEF LogMoves, SegmentsMove
<1>4. ASSUME NEW z \in late', In(b, z.added) PROVE Derives(b)
  <2>1. CASE z \in late
    <3>1. InLog(b)
      BY <1>4, <2>1, Zenon DEF InLog
    <3> QED BY <1>1, <3>1, Zenon
  <2>2. ASSUME NEW r \in Replicas, z = [candidate |-> flush[r].candidate, added |-> flush[r].added] PROVE Derives(b)
    <3>1. z.added = flush[r].added
      BY <2>2
    <3>2. InLog(b)
      BY <1>4, <3>1, Zenon DEF InLog
    <3> QED BY <1>1, <3>2, Zenon
  <2> QED BY <2>1, <2>2, Zenon DEF LogMoves, LateMoves
<1>5. ASSUME NEW a PROVE ~In(a, <<>>)
  <2>1. DOMAIN <<>> = {}
    OBVIOUS
  <2> QED BY <2>1, Zenon DEF In
<1>6. ASSUME NEW r \in Replicas, In(b, flush'[r].added) \/ In(b, flush'[r].reqs) PROVE Derives(b)
  <2>1. CASE flush'[r] = NoFlush
    <3>1. NoFlush.added = <<>> /\ NoFlush.reqs = <<>>
      BY DEF NoFlush
    <3> QED BY <1>5, <1>6, <2>1, <3>1, Zenon
  <2>2. CASE flush'[r].reqs = flush[r].reqs /\ flush'[r].added = flush[r].added
    <3>1. InLog(b)
      BY <1>6, <2>2, Zenon DEF InLog
    <3> QED BY <1>1, <3>1, Zenon
  <2>3. CASE flush'[r].reqs = parked[r] /\ flush'[r].added = <<>>
    <3>1. InLog(b)
      BY <1>5, <1>6, <2>3, Zenon DEF InLog
    <3> QED BY <1>1, <3>1, Zenon
  <2>4. ASSUME NEW plan, NEW segs,
               Planned(Entries(top), segs, flush[r].reqs, Len(flush[r].reqs), plan),
               flush'[r].reqs = flush[r].reqs, flush'[r].added = plan.added
        PROVE  Derives(b)
    <3>1. CASE In(b, flush[r].reqs)
      <4>1. InLog(b)
        BY <3>1, Zenon DEF InLog
      <4> QED BY <1>1, <4>1, Zenon
    <3>2. ASSUME NEW i \in DOMAIN plan.added, b = plan.added[i] PROVE Derives(b)
      <4>1. /\ plan.added \in Seq(Entries(top))
            /\ \A k \in 1..Len(plan.added) : \E j \in 1..Len(flush[r].reqs), off \in Nat :
                 plan.added[k] = EntryAt(flush[r].reqs[j], off)
        BY <2>4, Zenon DEF Planned
      <4>2. i \in 1..Len(plan.added)
        BY <3>2, <4>1
      <4>3. PICK j \in 1..Len(flush[r].reqs), off \in Nat : b = EntryAt(flush[r].reqs[j], off)
        BY <3>2, <4>1, <4>2, Zenon
      <4>4. flush[r] \in Flushes(top)
        BY Zenon DEF LogTypes
      <4>5. flush[r].reqs \in Seq(Requests(top))
        BY <4>4 DEF Flushes
      <4>6. j \in DOMAIN flush[r].reqs
        BY <4>5
      <4>7. InLog(flush[r].reqs[j])
        BY <4>6, Zenon DEF InLog, In
      <4>8. SameKey(flush[r].reqs[j], b)
        BY <4>3, EntryKey, Zenon
      <4> QED BY <4>7, <4>8, Zenon DEF Derives, Around
    <3> QED BY <1>6, <2>4, <3>1, <3>2, Zenon DEF In
  <2> QED BY <2>1, <2>2, <2>3, <2>4, Zenon DEF LogMoves, FlushMoves
<1>7. ASSUME NEW r \in Replicas, In(b, parked'[r]) PROVE Derives(b)
  <2>1. CASE parked'[r] = parked[r]
    <3>1. InLog(b)
      BY <1>7, <2>1, Zenon DEF InLog
    <3> QED BY <1>1, <3>1, Zenon
  <2>2. CASE parked'[r] = <<>>
    BY <1>5, <1>7, <2>2, Zenon
  <2>3. ASSUME NEW q \in Requests(top), Origin(q), parked'[r] = Append(parked[r], q) PROVE Derives(b)
    <3>1. PICK i \in DOMAIN Append(parked[r], q) : b = Append(parked[r], q)[i]
      BY <1>7, <2>3, Zenon DEF In
    <3>2. parked[r] \in Seq(Requests(top))
      BY Zenon DEF LogTypes
    <3>3. \/ i \in DOMAIN parked[r] /\ Append(parked[r], q)[i] = parked[r][i]
          \/ Append(parked[r], q)[i] = q
      BY <3>1, <3>2
    <3>4. CASE b = q
      BY <2>3, <3>4, OriginDerives, Zenon
    <3>5. CASE i \in DOMAIN parked[r] /\ b = parked[r][i]
      <4>1. InLog(b)
        BY <3>5, Zenon DEF InLog, In
      <4> QED BY <1>1, <4>1, Zenon
    <3> QED BY <3>1, <3>3, <3>4, <3>5, Zenon
  <2> QED BY <2>1, <2>2, <2>3, Zenon DEF LogMoves, ParkedMoves
<1>8. InLog(b)' => \/ \E x \in Stored' : b = Entry(x)'
                   \/ \E z \in late' : In(b, z.added)
                   \/ \E r \in Replicas : In(b, flush'[r].added) \/ In(b, flush'[r].reqs) \/ In(b, parked'[r])
  BY Zenon DEF InLog, In
<1> QED BY <1>3, <1>4, <1>6, <1>7, <1>8, Zenon

\* Everything around after a step is derived.
LEMMA KeysStep ==
    ASSUME Given, NEW top \in {IMax, 2 * IMax}, Types(top),
           top = IMax => Room, Next, NEW b, Around(b)'
    PROVE  Derives(b)
<1>1. IMax \in Nat
  BY Zenon DEF Given, ProducerLogAssumption
<1>2. top \in Int
  BY <1>1
<1>3. LogTypes(top) /\ ClientTypes(top)
  BY Zenon DEF Types
<1>4. LogMoves(top)
  BY <1>2, <1>3, NextLogStep, LogMove, Zenon
<1>5. \A a : SameKey(a, a)
  BY Zenon DEF SameKey
<1>6. ASSUME Around(b) PROVE Derives(b)
  BY <1>5, <1>6, Zenon DEF Derives
<1>7. CASE InLog(b)'
  BY <1>2, <1>3, <1>4, <1>7, LogDerives, Zenon
<1>8. ASSUME NEW c \in Clients, b \in cl'[c].out PROVE Derives(b)
  <2>1. CASE b \in cl[c].out
    BY <1>6, <2>1, Zenon DEF Around
  <2>2. ASSUME NEW p \in Partitions, NEW n \in BatchSizes, NEW r \in Replicas, Send(c, p, n, r) PROVE Derives(b)
    <3>1. cl'[c].out = cl[c].out \cup {DataRequest(c, p, n)}
      BY <1>3, <2>2, SendEffect, Zenon
    <3>2. b = DataRequest(c, p, n) => Derives(b)
      BY <1>5, <2>2, Zenon DEF Derives
    <3> QED BY <1>8, <2>1, <3>1, <3>2, Zenon
  <2>3. CASE cl'[c].out = {}
    BY <1>8, <2>3, Zenon
  <2>4. ClientMoves(c)
    BY NextClientStep, Zenon DEF ClientStep
  <2>5. CASE cl'[c].out \subseteq cl[c].out
    BY <1>8, <2>1, <2>5, Zenon
  <2> QED BY <2>2, <2>3, <2>4, <2>5, Zenon DEF ClientMoves
<1>9. ASSUME NEW g \in regs', b = g.q PROVE Derives(b)
  <2>1. CASE g \in regs
    BY <1>6, <1>9, <2>1, Zenon DEF Around
  <2>2. ASSUME NEW r \in Replicas, NEW out, FlushAnswered(top, r, out), g \notin regs PROVE Derives(b)
    <3>1. PICK k \in DOMAIN flush[r].reqs : g = [q |-> flush[r].reqs[k], off |-> out[k].off, at |-> r]
      BY <2>2, Zenon DEF FlushAnswered, Delivered1
    <3>2. g.q = flush[r].reqs[k]
      BY <3>1
    <3>3. InLog(b)
      BY <1>9, <3>2, Zenon DEF InLog, In
    <3> QED BY <1>6, <3>3, Zenon DEF Around
  <2> QED BY <1>2, <1>9, <2>1, <2>2, NextAnswers, Zenon
<1>10. Around(b)' => \/ InLog(b)' \/ (\E c \in Clients : b \in cl'[c].out) \/ \E g \in regs' : b = g.q
  BY Zenon DEF Around
<1> QED BY <1>7, <1>8, <1>9, <1>10, Zenon

-----------------------------------------------------------------------------
(* The outcome of a transaction. *)

Marking == {"mark", "wait", "register"}

\* A marker with this outcome, of the txn-th transaction under pid and epoch, is around, or an end_txn
\* is about to write one.
Marked(pid, epoch, txn, commit) ==
    \/ \E b : /\ Around(b) /\ b.control = TRUE /\ b.pid = pid /\ b.epoch = epoch
             /\ b.id.begun = txn /\ b.commit = commit
    \/ \E x \in Clients \X Slots : /\ calls[x].pc \in Marking /\ calls[x].pid = pid /\ calls[x].epoch = epoch
                                   /\ calls[x].begun = txn /\ calls[x].commit = commit

\* The ledger has begun that transaction and, if it is the newest of its epoch, has it prepared for or
\* resolved to this outcome.
Fits(pid, epoch, txn, commit) ==
    \E t \in Tids :
      /\ IssuedTo(t, pid, epoch) /\ txn \in Nat /\ txn <= Detail(t, epoch).begun
      /\ txn = Detail(t, epoch).begun => Detail(t, epoch).state \in Says(commit)

MarkerInv ==
    /\ \A pid, epoch, txn, commit : Marked(pid, epoch, txn, commit) => Fits(pid, epoch, txn, commit)
    /\ \A pid, epoch, txn, commit, other :
         Marked(pid, epoch, txn, commit) /\ Marked(pid, epoch, txn, other) => commit = other

\* The holder of pid and epoch has added no partition to a transaction, or none since its last one.
NotYet(t, pid, epoch) ==
    \/ \E c \in Clients : /\ cl[c].pid # -1 /\ cl[c].pid = pid /\ cl[c].epoch = epoch
                          /\ TidOf[c] = t /\ ~cl[c].added
    \/ \E x \in Clients \X Slots : /\ calls[x].pc = "seed" /\ calls[x].pid = pid /\ calls[x].epoch = epoch
                                   /\ TidOf[x[1]] = t

\* Who may begin a transaction has none open or prepared, unless it has ended one under this epoch.
FreshInv ==
    \A t, pid, epoch : NotYet(t, pid, epoch) =>
      (t # NoTid => Detail(t, epoch).state \in {"none", "Committed"} \/ EndAnswered(pid, epoch))

\* The first ledger step of end_txn prepares the transaction.
Prepares(pid, epoch, txn, commit) ==
    \E t \in Tids :
      /\ IssuedTo(t, pid, epoch) /\ Detail(t, epoch).state = "Begin" /\ commit \in BOOLEAN
      /\ txn \in Nat /\ Detail(t, epoch).begun = txn /\ Detail(t, epoch)'.begun = txn
      /\ Detail(t, epoch)'.state = IF commit THEN "PrepareCommit" ELSE "PrepareAbort"

\* The holder of pid and epoch adds the first partition of a transaction.
Begins(pid, epoch) ==
    \E c \in Clients : /\ AddPartitions(c) /\ Current(TidOf[c], cl[c].pid, cl[c].epoch)
                       /\ cl[c].pid = pid /\ cl[c].epoch = epoch /\ ~cl[c].added

\* What was given out stays given out.
LEMMA IssuedStays ==
    ASSUME Given, NEW top \in Int, Types(top), LedgerIds, Next,
           NEW t, t = NoTid \/ t \in Tids, NEW pid, NEW epoch, IssuedTo(t, pid, epoch)
    PROVE  IssuedTo(t, pid, epoch)'
<1>1. LedgerTypes /\ LedgerStep
  BY NextLedgerStep, Zenon DEF Types
<1>2. ASSUME NEW x \in Clients \X Slots, InitCas(x) PROVE IssuedTo(t, pid, epoch)'
  BY <1>2, InitCasEffect, Zenon
<1>3. CASE LedgerKeeps
  BY <1>1, <1>3, IssuedKept, Zenon
<1> QED BY <1>1, <1>2, <1>3, Zenon DEF LedgerStep

\* An issued epoch is one of the id's.
LEMMA IssuedEpoch ==
    ASSUME LedgerTypes, NEW t \in Tids, NEW pid, NEW epoch, IssuedTo(t, pid, epoch)
    PROVE  epoch \in Int /\ epoch + 1 \in 1..Len(txns[t].epochs) /\ txns[t].producer = pid
<1>1. t # NoTid
  BY Zenon DEF Tids
<1>2. txns[t].producer = pid /\ epoch \in 0..EpochOf(t)
  BY <1>1, Zenon DEF IssuedTo
<1>3. txns[t] \in [producer : Nat, epochs : Seq(TxnDetails)]
  BY Zenon DEF LedgerTypes
<1>4. txns[t].epochs \in Seq(TxnDetails)
  BY <1>3
<1>5. Len(txns[t].epochs) \in Nat
  BY <1>4
<1>6. epoch \in Int /\ epoch + 1 \in 1..Len(txns[t].epochs)
  BY <1>2, <1>5 DEF EpochOf
<1> QED BY <1>2, <1>6, Zenon

\* The state of a transaction that is not in Begin only gets settled, unless its holder begins another.
LEMMA DetailMoves ==
    ASSUME Given, NEW top \in Int, Types(top), LedgerIds, Next,
           NEW t \in Tids, NEW pid, NEW epoch, IssuedTo(t, pid, epoch)
    PROVE  LET s == Detail(t, epoch).state  n == Detail(t, epoch)'.state
               b == Detail(t, epoch).begun  m == Detail(t, epoch)'.begun
           IN  \/ /\ m = b
                  /\ s = n \/ s = "Begin" \/ (s \in {"none", "PrepareCommit"} /\ n = "Committed")
                     \/ (s = "PrepareAbort" /\ n = "Aborted")
               \/ m = b + 1 /\ n = "Begin" /\ Begins(pid, epoch)
<1>1. LedgerTypes /\ LedgerStep /\ ClientTypes(top)
  BY NextLedgerStep, Zenon DEF Types
<1>2. PICK i : i = epoch + 1
  BY Zenon
<1>3. epoch \in Int /\ i \in 1..Len(txns[t].epochs) /\ txns[t].producer = pid
  BY <1>1, <1>2, IssuedEpoch, Zenon
<1>4. /\ Detail(t, epoch).state = txns[t].epochs[i].state /\ Detail(t, epoch)'.state = txns'[t].epochs[i].state
      /\ Detail(t, epoch).begun = txns[t].epochs[i].begun /\ Detail(t, epoch)'.begun = txns'[t].epochs[i].begun
  BY <1>2, Zenon DEF Detail
<1>5. ASSUME NEW x \in Clients \X Slots, InitCas(x) PROVE txns'[t].epochs[i] = txns[t].epochs[i]
  BY <1>3, <1>5, InitCasEffect, Zenon
<1>6. ASSUME NEW c \in Clients, AddPartitions(c), t = TidOf[c], i = cl[c].epoch + 1,
             Current(t, cl[c].pid, cl[c].epoch), ~cl[c].added
      PROVE  Begins(pid, epoch)
  <2>1. cl[c] \in ClientSet(top)
    BY <1>1, Zenon DEF ClientTypes
  <2>2. cl[c].epoch \in Int
    BY <2>1 DEF ClientSet
  <2>3. cl[c].epoch = epoch
    BY <1>2, <1>3, <1>6, <2>2
  <2>4. cl[c].pid = pid
    BY <1>3, <1>6, Zenon DEF Current
  <2> QED BY <1>6, <2>3, <2>4, Zenon DEF Begins
<1>7. CASE LedgerKeeps
  <2>1. StateMoves(t, i)
    BY <1>3, <1>7, Zenon DEF LedgerKeeps
  <2> QED BY <1>4, <1>6, <2>1, Zenon DEF StateMoves
<1> QED BY <1>1, <1>4, <1>5, <1>7, Zenon DEF LedgerStep

\* A call that goes on to write markers has prepared its transaction.
LEMMA PrepareEffect ==
    ASSUME NEW top \in Int, Types(top), NEW x \in Clients \X Slots, Prepare(x), calls'[x].pc = "mark",
           NEW pid, NEW epoch, NEW txn, NEW commit,
           calls'[x].pid = pid, calls'[x].epoch = epoch, calls'[x].begun = txn, calls'[x].commit = commit
    PROVE  Prepares(pid, epoch, txn, commit)
<1> DEFINE call == calls[x]
           t == TidOf[x[1]]
           s == IF call.commit THEN "PrepareCommit" ELSE "PrepareAbort"
           d == Detail(t, call.epoch)
           num == d.begun
           todo == {p \in Partitions : d.state = "Begin" /\ d.produces[p] # NoRange}
<1>1. LedgerTypes /\ CallTypes
  BY Zenon DEF Types
<1>2. call \in CallSet /\ calls \in [Clients \X Slots -> CallSet]
  BY <1>1, Zenon DEF CallTypes
<1>3. call.pid \in Int /\ call.epoch \in Int /\ call.commit \in BOOLEAN
  BY <1>2 DEF CallSet
<1>4. x[1] \in Clients
  OBVIOUS
<1>5. Current(t, call.pid, call.epoch)
  <2>1. SUFFICES ASSUME ~Current(t, call.pid, call.epoch) PROVE FALSE
    BY Zenon
  <2>2. Err(x, TRUE)
    BY <2>1, Zenon DEF Prepare
  <2>3. calls' = [calls EXCEPT ![x] = NoCall]
    BY <2>2, Zenon DEF Err
  <2>4. calls'[x] = NoCall
    BY <1>2, <2>3, Zenon
  <2>5. NoCall.pc # "mark"
    BY DEF NoCall
  <2> QED BY <2>4, <2>5, Zenon
<1>6. /\ txns' = IF d.state = "Begin" THEN [txns EXCEPT ![t].epochs[call.epoch + 1].state = s] ELSE txns
      /\ calls' = [calls EXCEPT ![x].todo = todo, ![x].begun = num,
                                  ![x].pc = IF todo = {} THEN "resolve" ELSE "mark"]
  BY <1>5, Zenon DEF Prepare
<1>7. /\ calls'[x].pid = call.pid /\ calls'[x].epoch = call.epoch /\ calls'[x].commit = call.commit
      /\ calls'[x].begun = num /\ calls'[x].pc = IF todo = {} THEN "resolve" ELSE "mark"
  <2> HIDE DEF todo, num
  <2> QED BY <1>2, <1>6 DEF CallSet
<1>8. d.state = "Begin"
  BY <1>7
<1>9. /\ t \in Tids /\ call.epoch + 1 \in DOMAIN txns[t].epochs /\ call.epoch \in 0..EpochOf(t)
      /\ d \in TxnDetails
  <2>1. t # NoTid => t \in Tids
    BY <1>4, Zenon DEF Tids
  <2> QED BY <1>1, <1>3, <1>5, <2>1, CurrentEpoch, Zenon
<1>10. pid = call.pid /\ epoch = call.epoch /\ commit = call.commit /\ txn = num
  BY <1>7, Zenon
<1>11. IssuedTo(t, pid, epoch)
  BY <1>5, <1>9, <1>10, Zenon DEF IssuedTo, Current
<1>12. Detail(t, epoch)'.state = s /\ Detail(t, epoch)'.begun = Detail(t, epoch).begun
  <2>1. PICK i : i = epoch + 1
    BY Zenon
  <2>2. txns' = [txns EXCEPT ![t].epochs[i].state = s]
    BY <1>6, <1>8, <1>10, <2>1, Zenon
  <2>3. i \in DOMAIN txns[t].epochs /\ txns[t].epochs[i] \in TxnDetails
    BY <1>9, <1>10, <2>1, Zenon DEF Detail
  <2>4. txns \in [Tids -> [producer : Nat, epochs : Seq(TxnDetails)]]
    BY <1>1, Zenon DEF LedgerTypes
  <2> HIDE DEF s, t
  <2>5. txns'[t].epochs[i].state = s /\ txns'[t].epochs[i].begun = txns[t].epochs[i].begun
    BY <1>9, <2>2, <2>3, <2>4 DEF TxnDetails
  <2> QED BY <2>1, <2>5, Zenon DEF Detail
<1>14. num \in Nat
  <2> HIDE DEF d
  <2> QED BY <1>9 DEF TxnDetails
<1>15. Detail(t, epoch).begun = txn /\ Detail(t, epoch).state = "Begin"
  BY <1>8, <1>10, Zenon
<1>16. txn \in Nat /\ commit \in BOOLEAN
  BY <1>3, <1>10, <1>14, Zenon
<1>13. Prepares(pid, epoch, txn, commit)
  BY <1>9, <1>10, <1>11, <1>12, <1>15, <1>16, Zenon DEF Prepares
<1> QED BY <1>13, Zenon

\* A marker is around because it was, or because its transaction has just been prepared.
LEMMA MarkedMoves ==
    ASSUME Given, NEW top \in {IMax, 2 * IMax}, Types(top),
           top = IMax => Room, Next, NEW pid, NEW epoch, NEW txn, NEW commit, Marked(pid, epoch, txn, commit)'
    PROVE  Marked(pid, epoch, txn, commit) \/ Prepares(pid, epoch, txn, commit)
<1>0. IMax \in Nat
  BY Zenon DEF Given, ProducerLogAssumption
<1>1. top \in Int
  BY <1>0
<1>2. ASSUME NEW b, Around(b)', b.control = TRUE, b.pid = pid, b.epoch = epoch, b.id.begun = txn, b.commit = commit
      PROVE  Marked(pid, epoch, txn, commit)
  <2>1. Derives(b)
    BY <1>2, KeysStep, Zenon
  <2>2. ASSUME NEW a, Around(a), SameKey(a, b) PROVE Marked(pid, epoch, txn, commit)
    BY <1>2, <2>2, Zenon DEF SameKey, Marked
  <2>3. ASSUME NEW c, NEW p, NEW n, SameKey(DataRequest(c, p, n), b) PROVE FALSE
    <3>1. DataRequest(c, p, n).control = FALSE
      BY DEF DataRequest
    <3> QED BY <1>2, <2>3, <3>1, Zenon DEF SameKey
  <2>4. ASSUME NEW x \in Clients \X Slots, NEW p, Mark(x), SameKey(MarkerRequest(x, p), b)
        PROVE  Marked(pid, epoch, txn, commit)
    <3>1. /\ MarkerRequest(x, p).pid = calls[x].pid /\ MarkerRequest(x, p).epoch = calls[x].epoch
          /\ MarkerRequest(x, p).commit = calls[x].commit /\ MarkerRequest(x, p).id.begun = calls[x].begun
      BY DEF MarkerRequest
    <3>2. calls[x].pc \in Marking
      BY <2>4, Zenon DEF Mark, Marking
    <3> QED BY <1>2, <2>4, <3>1, <3>2, Zenon DEF SameKey, Marked
  <2> QED BY <2>1, <2>2, <2>3, <2>4, Zenon DEF Derives
<1>3. ASSUME NEW x \in Clients \X Slots, calls'[x].pc \in Marking, calls'[x].pid = pid, calls'[x].epoch = epoch,
             calls'[x].begun = txn, calls'[x].commit = commit
      PROVE  Marked(pid, epoch, txn, commit) \/ Prepares(pid, epoch, txn, commit)
  <2>1. CallMoves(x)
    BY <1>1, NextCallStep, Zenon DEF CallStep
  <2>2. ASSUME NEW y \in Clients \X Slots, calls'[x].pid = calls[y].pid, calls'[x].epoch = calls[y].epoch,
               calls'[x].begun = calls[y].begun, calls'[x].commit = calls[y].commit, calls[y].pc \in Marking
        PROVE  Marked(pid, epoch, txn, commit)
    BY <1>3, <2>2, Zenon DEF Marked
  <2>3. CASE Prepare(x) /\ calls'[x].pc = "mark"
    BY <1>1, <1>3, <2>3, PrepareEffect, Zenon
  <2>4. CASE calls[x].pc = "seed" /\ calls'[x] = calls[x]
    BY <1>3, <2>4 DEF Marking
  <2>5. CASE InitCas(x)
    <3>1. calls \in [Clients \X Slots -> CallSet]
      BY Zenon DEF Types, CallTypes
    <3>2. calls'[x].pc \in {"seed", "prepare"}
      <4>1. ASSUME NEW p, NEW e, calls' = [calls EXCEPT ![x].pc = "seed", ![x].pid = p, ![x].epoch = e]
            PROVE  calls'[x].pc = "seed"
        BY <3>1, <4>1 DEF CallSet
      <4>2. ASSUME NEW p, NEW e, calls' = [calls EXCEPT ![x].pc = "prepare", ![x].pid = p, ![x].epoch = e, ![x].commit = FALSE]
            PROVE  calls'[x].pc = "prepare"
        BY <3>1, <4>2 DEF CallSet
      <4> QED BY <2>5, <4>1, <4>2, Zenon DEF InitCas
    <3> QED BY <1>3, <3>2 DEF Marking
  <2>6. CASE Abandon(x[1]) /\ x[2] = "old" /\ calls'[x] = calls[<<x[1], "main">>]
    <3>1. <<x[1], "main">> \in Clients \X Slots
      BY DEF Slots
    <3> QED BY <1>3, <2>2, <2>6, <3>1, Zenon
  <2>7. calls'[x].pc \in {"seed", "mark", "wait", "register"}
    BY <1>3 DEF Marking
  <2> QED BY <2>1, <2>2, <2>3, <2>4, <2>5, <2>6, <2>7, Zenon DEF CallMoves, Marking
<1>4. Marked(pid, epoch, txn, commit)' =>
        \/ \E b : Around(b)' /\ b.control = TRUE /\ b.pid = pid /\ b.epoch = epoch
                /\ b.id.begun = txn /\ b.commit = commit
        \/ \E x \in Clients \X Slots : /\ calls'[x].pc \in Marking /\ calls'[x].pid = pid
                                       /\ calls'[x].epoch = epoch /\ calls'[x].begun = txn /\ calls'[x].commit = commit
  BY Zenon DEF Marked
<1> QED BY <1>2, <1>3, <1>4, Zenon

\* A holder that has not begun was one before, or has just been given its identity.
LEMMA NotYetMoves ==
    ASSUME Given, NEW top \in {IMax, 2 * IMax}, Types(top),
           top = IMax => Room, IdInv, Next, NEW t, NEW pid, NEW epoch, NotYet(t, pid, epoch)'
    PROVE  \/ NotYet(t, pid, epoch) /\ ~Begins(pid, epoch)
           \/ \E e \in ended' : e.pid = pid /\ e.epoch = epoch
           \/ \E x \in Clients \X Slots : InitCas(x) /\ Fresh(x, pid, epoch) /\ TidOf[x[1]] = t
<1> DEFINE X == Clients \X Slots
<1>0. IMax \in Nat
  BY Zenon DEF Given, ProducerLogAssumption
<1>1. top \in Int
  BY <1>0
<1>2. LedgerIds /\ ClientTypes(top)
  BY Zenon DEF IdInv, Types
<1>3. \A c, d \in Clients : c # d /\ cl[c].pid # -1 => <<cl[c].pid, cl[c].epoch>> # <<cl[d].pid, cl[d].epoch>>
  BY Zenon DEF IdInv, HoldersDiffer
<1>4. \A x \in X, c \in Clients : calls[x].pc = "seed" => <<calls[x].pid, calls[x].epoch>> # <<cl[c].pid, cl[c].epoch>>
  BY Zenon DEF IdInv, HoldersDiffer
<1>5. ASSUME NEW x \in X, calls[x].pc = "seed", calls[x].pid = pid, calls[x].epoch = epoch, TidOf[x[1]] = t
      PROVE  NotYet(t, pid, epoch) /\ ~Begins(pid, epoch)
  <2>1. NotYet(t, pid, epoch)
    BY <1>5, Zenon DEF NotYet
  <2>2. ASSUME NEW c \in Clients, cl[c].pid = pid, cl[c].epoch = epoch PROVE FALSE
    BY <1>4, <1>5, <2>2, Zenon
  <2> QED BY <2>1, <2>2, Zenon DEF Begins
<1>6. ASSUME NEW c \in Clients, cl'[c].pid # -1, cl'[c].pid = pid, cl'[c].epoch = epoch, TidOf[c] = t, ~cl'[c].added
      PROVE  (NotYet(t, pid, epoch) /\ ~Begins(pid, epoch)) \/ \E e \in ended' : e.pid = pid /\ e.epoch = epoch
  <2>1. ClientMoves(c)
    BY NextClientStep, Zenon DEF ClientStep
  <2>2. ASSUME cl'[c].pid = cl[c].pid, cl'[c].epoch = cl[c].epoch, ~cl[c].added
        PROVE  NotYet(t, pid, epoch) /\ ~Begins(pid, epoch)
    <3>1. NotYet(t, pid, epoch)
      BY <1>6, <2>2, Zenon DEF NotYet
    <3>2. ASSUME NEW d \in Clients, AddPartitions(d), Current(TidOf[d], cl[d].pid, cl[d].epoch),
                 cl[d].pid = pid, cl[d].epoch = epoch
          PROVE  FALSE
      <4>1. cl[c].pid # -1 /\ cl[c].pid = cl[d].pid /\ cl[c].epoch = cl[d].epoch
        BY <1>6, <2>2, <3>2, Zenon
      <4>2. d = c
        BY <1>3, <4>1, Zenon
      <4>3. cl' = [cl EXCEPT ![c].pc = "open", ![c].added = TRUE, ![c].txn = IF cl[c].pc = "ready" THEN @ + 1 ELSE @]
        BY <3>2, <4>2, Zenon DEF AddPartitions
      <4>4. cl \in [Clients -> ClientSet(top)]
        BY <1>2, Zenon DEF ClientTypes
      <4>5. cl'[c].added = TRUE
        BY <4>3, <4>4 DEF ClientSet
      <4> QED BY <1>6, <4>5, Zenon
    <3> QED BY <3>1, <3>2, Zenon DEF Begins
  <2>3. CASE /\ cl'[c].pid = cl[c].pid /\ cl'[c].epoch = cl[c].epoch
             /\ cl[c].added => cl'[c].added \/ \E e \in ended' : e.pid = cl[c].pid /\ e.epoch = cl[c].epoch
    <3>1. CASE \E e \in ended' : e.pid = cl[c].pid /\ e.epoch = cl[c].epoch
      BY <1>6, <2>3, <3>1, Zenon
    <3> QED BY <1>6, <2>2, <2>3, <3>1, Zenon
  <2>4. ASSUME NEW p \in Partitions, NEW n \in BatchSizes, NEW r \in Replicas, Send(c, p, n, r)
        PROVE  NotYet(t, pid, epoch) /\ ~Begins(pid, epoch)
    <3>1. cl'[c].pid = cl[c].pid /\ cl'[c].epoch = cl[c].epoch /\ cl'[c].added = cl[c].added
      BY <1>2, <2>4, SendEffect, Zenon
    <3>2. ~cl[c].added
      BY <1>6, <3>1, Zenon
    <3> QED BY <2>2, <3>1, <3>2, Zenon
  <2>5. CASE /\ Seed(<<c, "main">>) /\ cl'[c].pid = calls[<<c, "main">>].pid
             /\ cl'[c].epoch = calls[<<c, "main">>].epoch
    <3>1. <<c, "main">> \in X /\ <<c, "main">>[1] = c
      BY DEF Slots
    <3>2. PICK x \in X : x = <<c, "main">>
      BY <3>1, Zenon
    <3>3. calls[x].pc = "seed" /\ calls[x].pid = pid /\ calls[x].epoch = epoch /\ TidOf[x[1]] = t
      BY <1>6, <2>5, <3>1, <3>2, Zenon DEF Seed
    <3> QED BY <1>5, <3>3, Zenon
  <2>6. CASE cl'[c].pid = -1
    BY <1>6, <2>6, Zenon
  <2> QED BY <2>1, <2>3, <2>4, <2>5, <2>6, Zenon DEF ClientMoves
<1>7. ASSUME NEW x \in X, calls'[x].pc = "seed", calls'[x].pid = pid, calls'[x].epoch = epoch, TidOf[x[1]] = t
      PROVE  \/ NotYet(t, pid, epoch) /\ ~Begins(pid, epoch)
             \/ InitCas(x) /\ Fresh(x, pid, epoch)
  <2>1. CASE InitCas(x)
    <3>1. PICK p, e : Fresh(x, p, e)
      BY <1>1, <1>2, <1>7, <2>1, InitCasEffect, Zenon
    <3>2. p = pid /\ e = epoch
      BY <1>7, <3>1, Zenon DEF Fresh
    <3> QED BY <2>1, <3>1, <3>2, Zenon
  <2>2. CASE calls[x].pc = "seed" /\ calls'[x] = calls[x]
    BY <1>5, <1>7, <2>2, Zenon
  <2>3. CASE Abandon(x[1]) /\ x[2] = "old" /\ calls'[x] = calls[<<x[1], "main">>]
    <3>1. <<x[1], "main">> \in X /\ <<x[1], "main">>[1] = x[1]
      BY DEF Slots
    <3>2. PICK y \in X : y = <<x[1], "main">>
      BY <3>1, Zenon
    <3>3. calls[y].pc = "seed" /\ calls[y].pid = pid /\ calls[y].epoch = epoch /\ TidOf[y[1]] = t
      BY <1>7, <2>3, <3>1, <3>2, Zenon
    <3> QED BY <1>5, <3>3, Zenon
  <2>4. CallMoves(x)
    BY <1>1, NextCallStep, Zenon DEF CallStep
  <2>5. /\ calls'[x].pc # "mark" /\ calls'[x].pc \notin {"mark", "wait", "register"}
        /\ calls'[x].pc \in {"seed", "mark", "wait", "register"}
    BY <1>7
  <2> QED BY <2>1, <2>2, <2>3, <2>4, <2>5, Zenon DEF CallMoves
<1>8. NotYet(t, pid, epoch)' =>
        \/ \E c \in Clients : /\ cl'[c].pid # -1 /\ cl'[c].pid = pid /\ cl'[c].epoch = epoch
                              /\ TidOf[c] = t /\ ~cl'[c].added
        \/ \E x \in X : /\ calls'[x].pc = "seed" /\ calls'[x].pid = pid /\ calls'[x].epoch = epoch
                        /\ TidOf[x[1]] = t
  BY Zenon DEF NotYet
<1> QED BY <1>6, <1>7, <1>8, Zenon

\* A holder that has not begun has been given what it holds.
LEMMA NotYetIssued ==
    ASSUME HoldersIssued, NEW t, NEW pid, NEW epoch, NotYet(t, pid, epoch)
    PROVE  (t = NoTid \/ t \in Tids) /\ IssuedTo(t, pid, epoch)
<1>1. \A c \in Clients : TidOf[c] = NoTid \/ TidOf[c] \in Tids
  BY Zenon DEF Tids
<1>2. \A x \in Clients \X Slots : x[1] \in Clients
  OBVIOUS
<1> QED BY <1>1, <1>2, Zenon DEF NotYet, HoldersIssued

\* What an EndTxn was answered stays answered.
LEMMA EndedStays ==
    ASSUME Next
    PROVE  ended \subseteq ended'
<1> USE Zenon
<1>1. ASSUME ended' = ended PROVE ended \subseteq ended'
  BY <1>1
<1>2. ASSUME NEW x \in Clients \X Slots, Succeed(x) PROVE ended \subseteq ended'
  <2>1. ASSUME NEW e, ended' = ended \cup {e} PROVE ended \subseteq ended'
    BY <2>1
  <2> QED BY <1>1, <1>2, <2>1 DEF Succeed
<1>3. ASSUME NEW x \in Clients \X Slots,
             \/ InitCas(x) \/ Seed(x) \/ Prepare(x) \/ Mark(x) \/ RegisterMarker(x) \/ Resolve(x) \/ CommitOffsets(x)
      PROVE  ended \subseteq ended'
  <2>1. CASE InitCas(x)
    BY <1>1, <2>1 DEF InitCas, history
  <2>2. CASE Seed(x)
    BY <1>1, <2>2 DEF Seed, history
  <2>3. CASE Prepare(x)
    BY <1>1, <2>3 DEF Prepare, Err
  <2>4. CASE Mark(x)
    BY <1>1, <2>4 DEF Mark, history
  <2>5. CASE RegisterMarker(x)
    BY <1>1, <2>5 DEF RegisterMarker, history
  <2>6. CASE Resolve(x)
    BY <1>1, <1>2, <2>6 DEF Resolve, Err
  <2>7. CASE CommitOffsets(x)
    BY <1>1, <1>2, <2>7 DEF CommitOffsets, Err
  <2> QED BY <1>3, <2>1, <2>2, <2>3, <2>4, <2>5, <2>6, <2>7
<1>4. ASSUME NEW c \in Clients, NEW r \in Replicas,
             \/ \E p \in Partitions, n \in BatchSizes : Send(c, p, n, r)
             \/ Resend(c, r) \/ StartInit(c, r) \/ \E commit \in BOOLEAN : StartEnd(c, commit, r)
      PROVE  ended \subseteq ended'
  BY <1>1, <1>4 DEF Send, Resend, StartInit, StartEnd, history
<1>5. ASSUME NEW c \in Clients, AddPartitions(c) \/ StageOffsets(c) \/ Abandon(c) PROVE ended \subseteq ended'
  BY <1>1, <1>5 DEF AddPartitions, StageOffsets, Abandon, history
<1>6. ASSUME NEW g \in regs, Register(g) PROVE ended \subseteq ended'
  BY <1>1, <1>6 DEF Register, history
<1>7. ASSUME NEW r \in Replicas, FlushWon(r) \/ FlushEmpty(r) \/ FlushFailed(r) PROVE ended \subseteq ended'
  <2>1. ASSUME NEW reqs, NEW out, Deliver(r, reqs, out) PROVE ended' = ended
    BY <2>1 DEF Deliver
  <2> QED BY <1>1, <1>7, <2>1 DEF FlushWon, FlushEmpty, FlushFailed
<1>8. ASSUME NEW r \in Replicas, Crash(r) PROVE ended \subseteq ended'
  BY <1>1, <1>8 DEF Crash
<1>9. ASSUME Rest0 PROVE ended \subseteq ended'
  BY <1>1, <1>9 DEF Rest0, history
<1> QED BY <1>3, <1>4, <1>5, <1>6, <1>7, <1>8, <1>9 DEF Next

\* Two ids that an identity was given to are one.
LEMMA OneIssuer ==
    ASSUME LedgerIds, NEW t \in Tids, NEW u \in Tids, NEW pid, NEW epoch,
           IssuedTo(t, pid, epoch), IssuedTo(u, pid, epoch)
    PROVE  t = u
<1>1. t # NoTid /\ u # NoTid
  BY Zenon DEF Tids
<1> QED BY <1>1, Zenon DEF LedgerIds, IssuedTo

\* A transaction that fits a marker goes on to.
LEMMA FitsStays ==
    ASSUME Given, NEW top \in Int, Types(top), LedgerIds, Next,
           NEW pid, NEW epoch, NEW txn, NEW commit, Fits(pid, epoch, txn, commit)
    PROVE  Fits(pid, epoch, txn, commit)'
<1>1. PICK t \in Tids :
        /\ IssuedTo(t, pid, epoch) /\ txn \in Nat /\ txn <= Detail(t, epoch).begun
        /\ txn = Detail(t, epoch).begun => Detail(t, epoch).state \in Says(commit)
  BY Zenon DEF Fits
<1>2. IssuedTo(t, pid, epoch)' /\ LedgerTypes
  BY <1>1, IssuedStays, Zenon DEF Types
<1>3. PICK s, n, b, m : /\ s = Detail(t, epoch).state /\ n = Detail(t, epoch)'.state
                        /\ b = Detail(t, epoch).begun /\ m = Detail(t, epoch)'.begun
  BY Zenon
<1>4. \/ /\ m = b
         /\ s = n \/ s = "Begin" \/ (s \in {"none", "PrepareCommit"} /\ n = "Committed")
            \/ (s = "PrepareAbort" /\ n = "Aborted")
      \/ m = b + 1
  BY <1>1, <1>3, DetailMoves, Zenon
<1>5. b \in Nat
  <2>1. Detail(t, epoch) \in TxnDetails
    <3>1. epoch + 1 \in 1..Len(txns[t].epochs)
      BY <1>1, <1>2, IssuedEpoch, Zenon
    <3>2. txns[t] \in [producer : Nat, epochs : Seq(TxnDetails)]
      BY <1>2, Zenon DEF LedgerTypes
    <3> QED BY <3>1, <3>2 DEF Detail
  <2> QED BY <1>3, <2>1 DEF TxnDetails
<1>6. txn \in Nat /\ txn <= b /\ (txn = b => s \in Says(commit))
  BY <1>1, <1>3, Zenon
<1>7. txn <= m /\ (txn = m => n \in Says(commit))
  BY <1>4, <1>5, <1>6 DEF Says
<1> QED BY <1>2, <1>3, <1>6, <1>7, Zenon DEF Fits

\* A transaction being prepared fits the marker that is to be written.
LEMMA PreparesFits ==
    ASSUME Given, NEW top \in Int, Types(top), LedgerIds, Next,
           NEW pid, NEW epoch, NEW txn, NEW commit, Prepares(pid, epoch, txn, commit)
    PROVE  Fits(pid, epoch, txn, commit)'
<1>1. PICK t \in Tids :
        /\ IssuedTo(t, pid, epoch) /\ txn \in Nat /\ Detail(t, epoch)'.begun = txn
        /\ Detail(t, epoch)'.state = IF commit THEN "PrepareCommit" ELSE "PrepareAbort"
  BY Zenon DEF Prepares
<1>2. IssuedTo(t, pid, epoch)'
  BY <1>1, IssuedStays, Zenon
<1>3. Detail(t, epoch)'.state \in Says(commit)
  BY <1>1 DEF Says
<1>4. txn <= Detail(t, epoch)'.begun
  BY <1>1
<1> QED BY <1>1, <1>2, <1>3, <1>4, Zenon DEF Fits

\* Two calls prepare one transaction for one outcome, and none that has a marker.
LEMMA PreparesOnce ==
    ASSUME LedgerIds, NEW pid, NEW epoch, NEW txn, NEW commit, NEW other, Prepares(pid, epoch, txn, commit),
           Prepares(pid, epoch, txn, other) \/ Fits(pid, epoch, txn, other)
    PROVE  commit = other
<1>1. PICK t \in Tids :
        /\ IssuedTo(t, pid, epoch) /\ Detail(t, epoch).state = "Begin" /\ commit \in BOOLEAN
        /\ Detail(t, epoch).begun = txn
        /\ Detail(t, epoch)'.state = IF commit THEN "PrepareCommit" ELSE "PrepareAbort"
  BY Zenon DEF Prepares
<1>2. ASSUME Fits(pid, epoch, txn, other) PROVE FALSE
  <2>1. PICK u \in Tids : /\ IssuedTo(u, pid, epoch)
                          /\ txn = Detail(u, epoch).begun => Detail(u, epoch).state \in Says(other)
    BY <1>2, Zenon DEF Fits
  <2>2. t = u
    BY <1>1, <2>1, OneIssuer, Zenon
  <2>3. Detail(t, epoch).state \in Says(other)
    BY <1>1, <2>1, <2>2, Zenon
  <2> QED BY <1>1, <2>3 DEF Says
<1>3. ASSUME Prepares(pid, epoch, txn, other) PROVE commit = other
  <2>1. PICK u \in Tids : /\ IssuedTo(u, pid, epoch) /\ other \in BOOLEAN
                          /\ Detail(u, epoch)'.state = IF other THEN "PrepareCommit" ELSE "PrepareAbort"
    BY <1>3, Zenon DEF Prepares
  <2>2. t = u
    BY <1>1, <2>1, OneIssuer, Zenon
  <2>3. Detail(t, epoch)'.state = IF other THEN "PrepareCommit" ELSE "PrepareAbort"
    BY <2>1, <2>2, Zenon
  <2> QED BY <1>1, <2>1, <2>3
<1> QED BY <1>2, <1>3, Zenon

\* Every step keeps the markers in agreement with the ledger and with each other.
LEMMA MarkerStep ==
    ASSUME Given, NEW top \in {IMax, 2 * IMax}, Types(top),
           top = IMax => Room, IdInv, MarkerInv, [Next]_vars
    PROVE  MarkerInv'
<1>0. IMax \in Nat
  BY Zenon DEF Given, ProducerLogAssumption
<1>1. top \in Int
  BY <1>0
<1>2. LedgerIds
  BY Zenon DEF IdInv
<1>3. /\ \A pid, epoch, txn, commit : Marked(pid, epoch, txn, commit) => Fits(pid, epoch, txn, commit)
      /\ \A pid, epoch, txn, commit, other :
           Marked(pid, epoch, txn, commit) /\ Marked(pid, epoch, txn, other) => commit = other
  BY Zenon DEF MarkerInv
<1>4. CASE UNCHANGED vars
  <2>1. /\ segments' = segments /\ parked' = parked /\ flush' = flush /\ late' = late
        /\ lastPid' = lastPid /\ txns' = txns /\ regs' = regs /\ calls' = calls /\ cl' = cl
    BY <1>4, Zenon DEF vars, logVars, ledger
  <2>2. \A b : Around(b)' <=> Around(b)
    BY <2>1, Zenon DEF Around, InLog, In, Stored, Entry
  <2>3. ASSUME NEW pid, NEW epoch, NEW txn, NEW commit, Marked(pid, epoch, txn, commit)'
        PROVE  Marked(pid, epoch, txn, commit)
    BY <2>1, <2>2, <2>3, Zenon DEF Marked
  <2>5. \A t, epoch : Detail(t, epoch)' = Detail(t, epoch)
    BY <2>1, Zenon DEF Detail
  <2>6. \A t, pid, epoch : IssuedTo(t, pid, epoch) => IssuedTo(t, pid, epoch)'
    BY <2>1, Zenon DEF IssuedTo, EpochOf
  <2>4. ASSUME NEW pid, NEW epoch, NEW txn, NEW commit, Fits(pid, epoch, txn, commit)
        PROVE  Fits(pid, epoch, txn, commit)'
    <3>1. PICK t \in Tids :
            /\ IssuedTo(t, pid, epoch) /\ txn \in Nat /\ txn <= Detail(t, epoch).begun
            /\ txn = Detail(t, epoch).begun => Detail(t, epoch).state \in Says(commit)
      BY <2>4, Zenon DEF Fits
    <3>2. Detail(t, epoch)' = Detail(t, epoch) /\ IssuedTo(t, pid, epoch)'
      BY <2>5, <2>6, <3>1, Zenon
    <3> QED BY <3>1, <3>2, Zenon DEF Fits
  <2> QED BY <1>3, <2>3, <2>4, Zenon DEF MarkerInv
<1>5. CASE Next
  <2>1. ASSUME NEW pid, NEW epoch, NEW txn, NEW commit, Marked(pid, epoch, txn, commit)'
        PROVE  Marked(pid, epoch, txn, commit) \/ Prepares(pid, epoch, txn, commit)
    BY <1>5, <2>1, MarkedMoves, Zenon
  <2>2. ASSUME NEW pid, NEW epoch, NEW txn, NEW commit, Marked(pid, epoch, txn, commit)'
        PROVE  Fits(pid, epoch, txn, commit)'
    BY <1>1, <1>2, <1>3, <1>5, <2>1, <2>2, FitsStays, PreparesFits, Zenon
  <2>3. ASSUME NEW pid, NEW epoch, NEW txn, NEW commit, NEW other, Marked(pid, epoch, txn, commit)',
               Marked(pid, epoch, txn, other)'
        PROVE  commit = other
    <3>1. CASE Prepares(pid, epoch, txn, commit)
      BY <1>2, <1>3, <2>1, <2>3, <3>1, PreparesOnce, Zenon
    <3>2. CASE Prepares(pid, epoch, txn, other)
      BY <1>2, <1>3, <2>1, <2>3, <3>2, PreparesOnce, Zenon
    <3> QED BY <1>3, <2>1, <2>3, <3>1, <3>2, Zenon
  <2> QED BY <2>2, <2>3, Zenon DEF MarkerInv
<1> QED BY <1>4, <1>5, Zenon

\* Every step keeps what a client may find when it begins a transaction.
LEMMA FreshStep ==
    ASSUME Given, NEW top \in {IMax, 2 * IMax}, Types(top),
           top = IMax => Room, IdInv, FreshInv, [Next]_vars
    PROVE  FreshInv'
<1>0. IMax \in Nat
  BY Zenon DEF Given, ProducerLogAssumption
<1>1. top \in Int
  BY <1>0
<1>2. LedgerIds /\ HoldersIssued
  BY Zenon DEF IdInv
<1>3. CASE UNCHANGED vars
  <2>1. txns' = txns /\ calls' = calls /\ cl' = cl /\ ended' = ended
    BY <1>3, Zenon DEF vars, ledger, history
  <2>2. ASSUME NEW t, NEW pid, NEW epoch, NotYet(t, pid, epoch)' PROVE NotYet(t, pid, epoch)
    BY <2>1, <2>2, Zenon DEF NotYet
  <2>3. \A t, epoch : Detail(t, epoch)' = Detail(t, epoch)
    BY <2>1, Zenon DEF Detail
  <2>4. \A pid, epoch : EndAnswered(pid, epoch) => EndAnswered(pid, epoch)'
    BY <2>1, Zenon DEF EndAnswered
  <2> QED BY <2>2, <2>3, <2>4, Zenon DEF FreshInv
<1>4. CASE Next
  <2>1. SUFFICES ASSUME NEW t, NEW pid, NEW epoch, NotYet(t, pid, epoch)', t # NoTid
                 PROVE  Detail(t, epoch)'.state \in {"none", "Committed"} \/ EndAnswered(pid, epoch)'
    BY Zenon DEF FreshInv, Detail
  <2>2. CASE NotYet(t, pid, epoch) /\ ~Begins(pid, epoch)
    <3>1. t \in Tids /\ IssuedTo(t, pid, epoch)
      BY <1>2, <2>1, <2>2, NotYetIssued, Zenon
    <3>2. CASE EndAnswered(pid, epoch)
      BY <1>4, <3>2, EndedStays, Zenon DEF EndAnswered
    <3>3. CASE Detail(t, epoch).state \in {"none", "Committed"}
      <4>1. PICK s, n : s = Detail(t, epoch).state /\ n = Detail(t, epoch)'.state
        BY Zenon
      <4>2. s = n \/ s = "Begin" \/ (s \in {"none", "PrepareCommit"} /\ n = "Committed") \/ (s = "PrepareAbort" /\ n = "Aborted")
        BY <1>1, <1>2, <1>4, <2>2, <3>1, <4>1, DetailMoves, Zenon
      <4>3. n \in {"none", "Committed"}
        BY <3>3, <4>1, <4>2
      <4> QED BY <4>1, <4>3, Zenon
    <3> QED BY <2>1, <2>2, <3>2, <3>3, Zenon DEF FreshInv
  <2>3. ASSUME NEW x \in Clients \X Slots, InitCas(x), Fresh(x, pid, epoch), TidOf[x[1]] = t
        PROVE  Detail(t, epoch)'.state \in {"none", "Committed"}
    <3>1. Detail(t, epoch)'.state = "none"
      BY <2>1, <2>3, Zenon DEF Fresh, Detail
    <3> QED BY <3>1
  <2>4. \/ NotYet(t, pid, epoch) /\ ~Begins(pid, epoch)
        \/ \E e \in ended' : e.pid = pid /\ e.epoch = epoch
        \/ \E x \in Clients \X Slots : InitCas(x) /\ Fresh(x, pid, epoch) /\ TidOf[x[1]] = t
    BY <1>4, <2>1, NotYetMoves
  <2>5. ASSUME \E e \in ended' : e.pid = pid /\ e.epoch = epoch PROVE EndAnswered(pid, epoch)'
    BY <2>5, Zenon DEF EndAnswered
  <2> QED BY <2>2, <2>3, <2>4, <2>5, Zenon
<1> QED BY <1>3, <1>4, Zenon

\* Initially there are no markers, and nobody has an identity.
LEMMA MarkerInit ==
    ASSUME Init
    PROVE  MarkerInv /\ FreshInv
<1>1. /\ segments = <<>> /\ parked = [r \in Replicas |-> <<>>] /\ flush = [r \in Replicas |-> NoFlush] /\ late = {}
      /\ calls = [x \in Clients \X Slots |-> NoCall] /\ cl = [c \in Clients |-> NewClient] /\ regs = {}
  BY Zenon DEF Init, LogInit
<1>2. NewClient.pid = -1 /\ NewClient.out = {} /\ NoCall.pc # "seed" /\ NoCall.pc \notin Marking
  BY DEF NewClient, NoCall, Marking
<1>3. NoFlush.added = <<>> /\ NoFlush.reqs = <<>>
  BY DEF NoFlush
<1>4. \A b : ~In(b, <<>>)
  <2>1. DOMAIN <<>> = {}
    OBVIOUS
  <2> QED BY <2>1, Zenon DEF In
<1>5. Stored = {}
  <2>1. DOMAIN <<>> = {}
    OBVIOUS
  <2> QED BY <1>1, <2>1, Zenon DEF Stored, Positions
<1>6. \A b : ~Around(b)
  BY <1>1, <1>2, <1>3, <1>4, <1>5, Zenon DEF Around, InLog
<1>7. \A x \in Clients \X Slots : calls[x].pc # "seed" /\ calls[x].pc \notin Marking
  BY <1>1, <1>2, Zenon
<1>8. \A c \in Clients : cl[c].pid = -1
  BY <1>1, <1>2, Zenon
<1> QED BY <1>6, <1>7, <1>8, ZenonT(30) DEF MarkerInv, FreshInv, Marked, NotYet

\* With the markers in agreement with the ledger, every transaction has one outcome.
LEMMA MarkersAgree ==
    ASSUME NEW top \in Int, Types(top), IdInv, MarkerInv
    PROVE  OneOutcome
<1>1. LedgerIds /\ LogTypes(top)
  BY Zenon DEF IdInv, Types
<1>2. ASSUME NEW x \in Stored, Entry(x).control
      PROVE  Marked(Entry(x).pid, Entry(x).epoch, Entry(x).id.begun, Entry(x).commit)
  <2>1. segments \in Seq(Seq(Entries(top)))
    BY <1>1, Zenon DEF LogTypes
  <2>2. Entry(x) \in Entries(top)
    BY <2>1, StoredEntry, Zenon DEF Stored, Entry
  <2>3. Entry(x).control \in BOOLEAN
    BY <2>2, Zenon DEF Entries, DataEntries, MarkerEntries
  <2>4. Around(Entry(x))
    BY Zenon DEF Around, InLog
  <2>5. Entry(x).control = TRUE
    BY <1>2, <2>3
  <2> QED BY <2>4, <2>5, Zenon DEF Marked
<1>3. ASSUME NEW x \in Stored, Entry(x).control, NEW y \in Stored, Entry(y).control, TxnOf(y) = TxnOf(x)
      PROVE  Entry(y).commit = Entry(x).commit
  <2>1. /\ Entry(y).pid = Entry(x).pid /\ Entry(y).epoch = Entry(x).epoch
        /\ Entry(y).id.begun = Entry(x).id.begun
    BY <1>3 DEF TxnOf
  <2>2. Marked(Entry(x).pid, Entry(x).epoch, Entry(x).id.begun, Entry(y).commit)
    BY <1>2, <1>3, <2>1, Zenon
  <2> QED BY <1>2, <1>3, <2>2, Zenon DEF MarkerInv
<1>4. ASSUME NEW x \in Stored, Entry(x).control, NEW t \in Tids, txns[t].epochs # <<>>, txns[t].producer = Entry(x).pid,
             Detail(t, Entry(x).epoch).begun = Entry(x).id.begun
      PROVE  Detail(t, Entry(x).epoch).state \in Says(Entry(x).commit)
  <2>1. Fits(Entry(x).pid, Entry(x).epoch, Entry(x).id.begun, Entry(x).commit)
    BY <1>2, <1>4, Zenon DEF MarkerInv
  <2>2. PICK u \in Tids : /\ IssuedTo(u, Entry(x).pid, Entry(x).epoch)
                          /\ Entry(x).id.begun = Detail(u, Entry(x).epoch).begun =>
                               Detail(u, Entry(x).epoch).state \in Says(Entry(x).commit)
    BY <2>1, Zenon DEF Fits
  <2>3. txns[u].epochs # <<>> /\ txns[u].producer = Entry(x).pid
    BY <2>2, Zenon DEF IssuedTo, Tids
  <2>4. t = u
    BY <1>1, <1>4, <2>3, Zenon DEF LedgerIds
  <2> QED BY <1>4, <2>2, <2>4, Zenon
<1> QED BY <1>3, <1>4, Zenon DEF OneOutcome

\* Once end_txn or a rollback has prepared a transaction, the ledger only ever resolves it to that outcome,
\* and an abort stays on record, until a client that was answered an EndTxn under this epoch, which no
\* init_producer_id has fenced yet, begins its next transaction under it.
OutcomeKept ==
    \A t \in Tids : \A i \in DOMAIN txns[t].epochs :
      LET s == txns[t].epochs[i].state  n == txns'[t].epochs[i].state
      IN  s \in Prepared \cup {"Aborted"} =>
            \/ s = n \/ (s = "PrepareCommit" /\ n = "Committed") \/ (s = "PrepareAbort" /\ n = "Aborted")
            \/ n = "Begin" /\ i = Len(txns[t].epochs) /\ EndAnswered(txns[t].producer, i - 1)

\* A step reverses no outcome: who begins its first transaction has a detail without one.
LEMMA OutcomeStep ==
    ASSUME Given, NEW top \in Int, Types(top), IdInv, FreshInv, [Next]_vars
    PROVE  OutcomeKept
<1> USE Zenon
<1>1. LedgerIds /\ LedgerTypes
  BY DEF IdInv, Types
<1>2. CASE UNCHANGED vars
  <2>1. txns' = txns
    BY <1>2 DEF vars, ledger
  <2> QED BY <2>1 DEF OutcomeKept
<1>3. CASE Next
  <2>1. SUFFICES ASSUME NEW t \in Tids, NEW i \in DOMAIN txns[t].epochs,
                        txns[t].epochs[i].state \in Prepared \cup {"Aborted"}
                 PROVE  LET s == txns[t].epochs[i].state  n == txns'[t].epochs[i].state
                        IN  \/ s = n \/ (s = "PrepareCommit" /\ n = "Committed") \/ (s = "PrepareAbort" /\ n = "Aborted")
                            \/ n = "Begin" /\ i = Len(txns[t].epochs) /\ EndAnswered(txns[t].producer, i - 1)
    BY DEF OutcomeKept
  <2>2. t # NoTid
    BY DEF Tids
  <2>3. txns[t] \in [producer : Nat, epochs : Seq(TxnDetails)]
    BY <1>1 DEF LedgerTypes
  <2>4. txns[t].producer \in Nat /\ txns[t].epochs \in Seq(TxnDetails)
    BY <2>3, SMT
  <2>5. /\ txns[t].epochs # <<>> /\ i \in Int /\ i - 1 \in 0..(Len(txns[t].epochs) - 1) /\ (i - 1) + 1 = i
        /\ txns[t].producer # -1
    BY <2>4, SMT
  <2>6. PICK epoch : epoch = i - 1 /\ epoch + 1 = i
    BY <2>5
  <2>7. IssuedTo(t, txns[t].producer, epoch)
    BY <2>2, <2>5, <2>6 DEF IssuedTo, EpochOf
  <2>8. /\ EndAnswered(txns[t].producer, epoch) <=> EndAnswered(txns[t].producer, i - 1)
        /\ Detail(t, epoch).state = txns[t].epochs[i].state /\ Detail(t, epoch)'.state = txns'[t].epochs[i].state
    BY <2>6 DEF Detail
  <2>9. ASSUME NEW c \in Clients, Current(TidOf[c], cl[c].pid, cl[c].epoch), cl[c].pid = txns[t].producer,
               cl[c].epoch = epoch, ~cl[c].added
        PROVE  EndAnswered(txns[t].producer, epoch) /\ i = Len(txns[t].epochs)
    <3>1. TidOf[c] \in Tids /\ txns[TidOf[c]].producer = txns[t].producer /\ txns[TidOf[c]].epochs # <<>>
      BY <2>9 DEF Tids, Current
    <3>2. TidOf[c] = t
      BY <1>1, <2>5, <3>1 DEF LedgerIds
    <3>3. NotYet(t, txns[t].producer, epoch)
      BY <2>5, <2>9, <3>2 DEF NotYet
    <3>4. Detail(t, epoch).state \in {"none", "Committed"} \/ EndAnswered(txns[t].producer, epoch)
      BY <2>2, <3>3 DEF FreshInv
    <3>5. ~(Detail(t, epoch).state \in {"none", "Committed"})
      BY <2>1, <2>8, SMT DEF Prepared
    <3>6. EpochOf(t) = epoch
      BY <2>9, <3>2 DEF Current
    <3>7. i = Len(txns[t].epochs)
      BY <2>4, <2>6, <3>6, SMT DEF EpochOf
    <3> QED BY <3>4, <3>5, <3>7
  <2>10. Begins(txns[t].producer, epoch) =>
           i = Len(txns[t].epochs) /\ EndAnswered(txns[t].producer, i - 1)
    BY <2>8, <2>9 DEF Begins
  <2>11. LET s == txns[t].epochs[i].state  n == txns'[t].epochs[i].state
         IN  \/ s = n \/ s = "Begin" \/ (s \in {"none", "PrepareCommit"} /\ n = "Committed")
             \/ (s = "PrepareAbort" /\ n = "Aborted")
             \/ n = "Begin" /\ i = Len(txns[t].epochs) /\ EndAnswered(txns[t].producer, i - 1)
    BY <1>1, <1>3, <2>7, <2>8, <2>10, DetailMoves
  <2>12. PICK s, n : s = txns[t].epochs[i].state /\ n = txns'[t].epochs[i].state
    OBVIOUS
  <2>13. s # "Begin" /\ s # "none"
    BY <2>1, <2>12, SMT DEF Prepared
  <2> QED BY <2>11, <2>12, <2>13, SMT
<1> QED BY <1>2, <1>3

-----------------------------------------------------------------------------
(* The batches of a producer. *)

\* The batch b is somewhere in the system.
Carried(b) == b.control = FALSE /\ \E a : Around(a) /\ SameKey(a, b)

\* b was sent under an identity given to its client, as one of the batches the client has counted, below the
\* sequence the holder of that identity is at; an identity on its way to a client has sent nothing.
KeySound(b) ==
    /\ IssuedTo(TidOf[b.id.c], b.pid, b.epoch)
    /\ b.id.k <= cl[b.id.c].sent
    /\ \A c \in Clients : cl[c].pid = b.pid /\ cl[c].epoch = b.epoch => b.base + b.n <= cl[c].seq[b.part]
    /\ \A x \in Clients \X Slots : calls[x].pc = "seed" => <<calls[x].pid, calls[x].epoch>> # <<b.pid, b.epoch>>

\* Producer, epoch, partition and sequence name a batch as its id does.
OneBatch(a, b) ==
    /\ a.id = b.id => a.part = b.part /\ a.pid = b.pid /\ a.epoch = b.epoch /\ a.base = b.base /\ a.n = b.n
    /\ a.part = b.part /\ a.pid = b.pid /\ a.epoch = b.epoch /\ a.base = b.base => a.id = b.id

KeyInv ==
    /\ \A b : Carried(b) => KeySound(b)
    /\ \A a, b : Carried(a) /\ Carried(b) => OneBatch(a, b)

\* The step is the one that sends b.
Sends(c, b) ==
    /\ b.control = FALSE
    /\ \E p \in Partitions, n \in BatchSizes, r \in Replicas :
         Send(c, p, n, r) /\ SameKey(DataRequest(c, p, n), b)

\* What is around has the type of a request or of an entry.
LEMMA AroundTyped ==
    ASSUME NEW top \in Int, Types(top), NEW b, Around(b)
    PROVE  b \in Requests(top) \cup Entries(top)
<1>1. LogTypes(top) /\ ClientTypes(top)
  BY Zenon DEF Types
<1>2. \A S : \A s \in Seq(S) : In(b, s) => b \in S
  BY DEF In
<1>3. ASSUME NEW x \in Stored, b = Entry(x) PROVE b \in Entries(top)
  <2>1. segments \in Seq(Seq(Entries(top))) /\ x \in Positions(segments)
    BY <1>1, Zenon DEF LogTypes, Stored
  <2> QED BY <1>3, <2>1, StoredEntry, Zenon DEF Entry
<1>4. ASSUME NEW z \in late, In(b, z.added) PROVE b \in Entries(top)
  <2>1. z \in [candidate : Nat, added : Seq(Entries(top))]
    BY <1>1, Zenon DEF LogTypes
  <2>2. z.added \in Seq(Entries(top))
    BY <2>1
  <2> QED BY <1>2, <1>4, <2>2, Zenon
<1>5. ASSUME NEW r \in Replicas, In(b, flush[r].added) \/ In(b, flush[r].reqs) \/ In(b, parked[r])
      PROVE  b \in Requests(top) \cup Entries(top)
  <2>1. flush[r] \in Flushes(top) /\ parked[r] \in Seq(Requests(top))
    BY <1>1, Zenon DEF LogTypes
  <2>2. flush[r].added \in Seq(Entries(top)) /\ flush[r].reqs \in Seq(Requests(top))
    BY <2>1 DEF Flushes
  <2>3. b \in Requests(top) \/ b \in Entries(top)
    BY <1>2, <1>5, <2>1, <2>2, Zenon
  <2> QED BY <2>3, Zenon
<1>6. ASSUME NEW c \in Clients, b \in cl[c].out PROVE b \in DataRequests(top)
  <2>1. cl[c] \in ClientSet(top)
    BY <1>1, Zenon DEF ClientTypes
  <2>2. cl[c].out \subseteq DataRequests(top)
    BY <2>1 DEF ClientSet
  <2> QED BY <1>6, <2>2, Zenon
<1>7. ASSUME NEW g \in regs, b = g.q PROVE b \in DataRequests(top)
  <2>1. g \in [q : DataRequests(top), off : Nat, at : Replicas]
    BY <1>1, Zenon DEF ClientTypes
  <2> QED BY <1>7, <2>1
<1> QED BY <1>3, <1>4, <1>5, <1>6, <1>7, Zenon DEF Around, InLog, Requests

\* A batch that is around has the fields of one.
LEMMA CarriedTyped ==
    ASSUME Given, NEW top \in Int, Types(top), NEW b, Carried(b)
    PROVE  /\ b.id \in BatchIds /\ b.id.c \in Clients /\ b.id.k \in Nat
           /\ b.part \in Partitions /\ b.pid \in Int /\ b.epoch \in Int
           /\ b.base \in 0..IMax /\ b.n \in Nat \ {0} /\ b.base + b.n <= top
<1>1. PICK a : Around(a) /\ SameKey(a, b) /\ b.control = FALSE
  BY Zenon DEF Carried
<1>2. a \in DataRequests(top) \cup DataEntries(top)
  <2>1. a \in Requests(top) \cup Entries(top)
    BY <1>1, AroundTyped, Zenon
  <2>2. a \in DataRequests(top) \/ a \in DataEntries(top) \/ a \in MarkerRequests \/ a \in MarkerEntries
    BY <2>1, Zenon DEF Requests, Entries
  <2>3. a.control = FALSE
    BY <1>1, Zenon DEF SameKey
  <2>4. a \in MarkerRequests \/ a \in MarkerEntries => a.control = TRUE
    BY Zenon DEF MarkerRequests, MarkerEntries
  <2> QED BY <2>2, <2>3, <2>4
<1>3. /\ a.id \in BatchIds /\ a.part \in Partitions /\ a.pid \in Int /\ a.epoch \in Int
      /\ a.base \in 0..IMax /\ a.n \in BatchSizes /\ a.base + a.n <= top
  BY <1>2, Zenon DEF DataRequests, DataEntries
<1>4. a.n \in Nat \ {0}
  <2>1. a.n \in 1..IMax
    BY <1>3, Zenon DEF Given, TransactionsAssumption
  <2> QED BY <2>1
<1>5. a.id.c \in Clients /\ a.id.k \in Nat
  BY <1>3 DEF BatchIds
<1>6. a.part = b.part /\ a.pid = b.pid /\ a.epoch = b.epoch /\ a.base = b.base /\ a.n = b.n /\ a.id = b.id
  BY <1>1, Zenon DEF SameKey
<1> QED BY <1>3, <1>4, <1>5, <1>6, Zenon

\* A batch is around because it was, or because it has just been sent.
LEMMA CarriedMoves ==
    ASSUME Given, NEW top \in {IMax, 2 * IMax}, Types(top),
           top = IMax => Room, Next, NEW b, Carried(b)'
    PROVE  Carried(b) \/ \E c \in Clients : Sends(c, b)
<1>1. PICK a : Around(a)' /\ SameKey(a, b) /\ b.control = FALSE
  BY Zenon DEF Carried, SameKey
<1>2. Derives(a)
  BY <1>1, KeysStep, Zenon
<1>3. \A u, v : SameKey(u, a) => SameKey(u, b)
  BY <1>1, Zenon DEF SameKey
<1>4. ASSUME NEW x \in Clients \X Slots, NEW p \in calls[x].todo, SameKey(MarkerRequest(x, p), a) PROVE FALSE
  <2>1. MarkerRequest(x, p).control = TRUE
    BY DEF MarkerRequest
  <2>2. MarkerRequest(x, p).control = FALSE
    BY <1>1, <1>4, Zenon DEF SameKey
  <2> QED BY <2>1, <2>2
<1> QED BY <1>1, <1>2, <1>3, <1>4, Zenon DEF Derives, Carried, Sends

\* What a sent batch is.
LEMMA SentKey ==
    ASSUME NEW c \in Clients, NEW b, Sends(c, b)
    PROVE  /\ b.pid = cl[c].pid /\ b.epoch = cl[c].epoch /\ b.base = cl[c].seq[b.part]
           /\ b.id = [c |-> c, txn |-> cl[c].txn, k |-> cl[c].sent + 1]
           /\ b.part \in Partitions /\ b.n \in BatchSizes /\ \E r \in Replicas : Send(c, b.part, b.n, r)
<1>1. PICK p \in Partitions, n \in BatchSizes, r \in Replicas : Send(c, p, n, r) /\ SameKey(DataRequest(c, p, n), b)
  BY Zenon DEF Sends
<1> DEFINE q == DataRequest(c, p, n)
<1>2. /\ q.part = p /\ q.n = n /\ q.pid = cl[c].pid /\ q.epoch = cl[c].epoch /\ q.base = cl[c].seq[p]
      /\ q.id = [c |-> c, txn |-> cl[c].txn, k |-> cl[c].sent + 1]
  BY DEF DataRequest
<1> HIDE DEF q
<1>3. SameKey(q, b)
  BY <1>1, Zenon DEF q
<1>4. q.part = b.part /\ q.pid = b.pid /\ q.epoch = b.epoch /\ q.base = b.base /\ q.n = b.n /\ q.id = b.id
  BY <1>3, Zenon DEF SameKey
<1> QED BY <1>1, <1>2, <1>4, Zenon

\* What a client is after it has sent a batch that does not wrap.
AfterSend(c, p, n) ==
    /\ \A d \in Clients : d # c => cl'[d] = cl[d]
    /\ cl'[c].pid = cl[c].pid /\ cl'[c].epoch = cl[c].epoch /\ cl'[c].sent = cl[c].sent + 1
    /\ cl'[c].out = cl[c].out \cup {DataRequest(c, p, n)}
    /\ cl'[c].seq[p] = cl[c].seq[p] + n
    /\ \A u \in Partitions : u # p => cl'[c].seq[u] = cl[c].seq[u]

\* A client that sends is one of these.
LEMMA SendCounts ==
    ASSUME Given, Types(IMax), Room,
           NEW c \in Clients, NEW p \in Partitions, NEW n \in BatchSizes, NEW r, Send(c, p, n, r)
    PROVE  AfterSend(c, p, n)
<1>1. ClientTypes(IMax) /\ IMax \in {IMax, 2 * IMax}
  BY Zenon DEF Types
<1>2. PICK top \in {IMax, 2 * IMax} : top = IMax
  BY Zenon
<1>3. ClientTypes(top) /\ (top = IMax => Room)
  BY <1>1, <1>2, Zenon
<1>4. NextSequence(cl[c].seq[p], n) = cl[c].seq[p] + n
  BY <1>2, <1>3, DataRequestTyped, Zenon
<1>5. /\ \A d \in Clients : d # c => cl'[d] = cl[d]
      /\ cl'[c].pid = cl[c].pid /\ cl'[c].epoch = cl[c].epoch /\ cl'[c].sent = cl[c].sent + 1
  BY <1>3, SendEffect, Zenon
<1>6. cl'[c].out = cl[c].out \cup {DataRequest(c, p, n)}
  BY <1>3, SendEffect, ZenonT(30)
<1>7. cl'[c].seq[p] = NextSequence(cl[c].seq[p], n)
  BY <1>3, SendEffect
<1>8. \A u \in Partitions : u # p => cl'[c].seq[u] = cl[c].seq[u]
  BY <1>3, SendEffect
<1>9. cl'[c].seq[p] = cl[c].seq[p] + n
  BY <1>4, <1>7, Zenon
<1> QED BY <1>5, <1>6, <1>8, <1>9, Zenon DEF AfterSend

\* What may become of the clients' counts and sequences, and of the identities on their way.
LEMMA KeyKept ==
    ASSUME Given, Types(IMax), Room, IdInv, Next,
           NEW b, Carried(b), KeySound(b)
    PROVE  KeySound(b)'
<1>1. IMax \in Int /\ IMax \in {IMax, 2 * IMax} /\ LedgerIds /\ ClientTypes(IMax)
  <2>1. IMax \in Int
    BY DEF Given, ProducerLogAssumption
  <2> QED BY <2>1, Zenon DEF Types, IdInv
<1>2. /\ b.id.c \in Clients /\ b.id.k \in Nat /\ b.part \in Partitions /\ b.base \in 0..IMax /\ b.n \in Nat \ {0}
  BY <1>1, CarriedTyped, Zenon
<1> DEFINE t == TidOf[b.id.c]
<1>3. t = NoTid \/ t \in Tids
  BY <1>2, Zenon DEF Tids
<1>4. IssuedTo(t, b.pid, b.epoch)
  BY Zenon DEF KeySound
<1>5. IssuedTo(t, b.pid, b.epoch)'
  <2> HIDE DEF t
  <2> QED BY <1>1, <1>3, <1>4, IssuedStays, Zenon
<1>6. b.pid # -1
  <2>1. b.pid \in 1..lastPid
    <3> HIDE DEF t
    <3> QED BY <1>1, <1>3, <1>4, IssuedNumbered, Zenon
  <2> QED BY <2>1
<1>7. cl' \in [Clients -> ClientSet(IMax)] /\ \A c \in Clients : ClientMoves(c)
  BY <1>1, NextClientStep, Zenon DEF ClientStep
<1>8. ASSUME NEW c \in Clients, NEW p \in Partitions, NEW n \in BatchSizes, NEW r, Send(c, p, n, r)
      PROVE  /\ cl'[c].pid = cl[c].pid /\ cl'[c].epoch = cl[c].epoch /\ cl'[c].sent = cl[c].sent + 1
             /\ \A u \in Partitions : cl'[c].seq[u] \in Int /\ cl[c].seq[u] \in Int /\ cl[c].seq[u] <= cl'[c].seq[u]
  <2>0. AfterSend(c, p, n)
    BY <1>8, SendCounts, Zenon
  <2>1. /\ cl'[c].pid = cl[c].pid /\ cl'[c].epoch = cl[c].epoch /\ cl'[c].sent = cl[c].sent + 1
        /\ cl'[c].seq[p] = cl[c].seq[p] + n /\ \A u \in Partitions : u # p => cl'[c].seq[u] = cl[c].seq[u]
    BY <2>0, Zenon DEF AfterSend
  <2>3. cl[c] \in ClientSet(IMax)
    BY <1>1, Zenon DEF ClientTypes
  <2>4. cl[c].seq \in [Partitions -> 0..IMax]
    BY <2>3 DEF ClientSet
  <2>5. n \in Nat
    BY DEF Given, TransactionsAssumption, ProducerLogAssumption
  <2>6. \A u \in Partitions : cl'[c].seq[u] = IF u = p THEN cl[c].seq[p] + n ELSE cl[c].seq[u]
    BY <2>1, Zenon
  <2>7. \A u \in Partitions : cl[c].seq[u] \in Nat
    BY <2>4
  <2>8. \A u \in Partitions : cl'[c].seq[u] \in Int /\ cl[c].seq[u] \in Int /\ cl[c].seq[u] <= cl'[c].seq[u]
    BY <2>5, <2>6, <2>7
  <2> QED BY <2>1, <2>8, Zenon
<1>9. \A c \in Clients : cl[c].sent \in Nat /\ cl'[c].sent \in Nat
  <2>1. \A c \in Clients : cl[c] \in ClientSet(IMax) /\ cl'[c] \in ClientSet(IMax)
    BY <1>1, <1>7, Zenon DEF ClientTypes
  <2> QED BY <2>1 DEF ClientSet
<1>10. b.id.k <= cl'[b.id.c].sent
  <2>1. cl'[b.id.c].sent = cl[b.id.c].sent \/ cl'[b.id.c].sent = cl[b.id.c].sent + 1
    BY <1>2, <1>7, <1>8, Zenon DEF ClientMoves
  <2>2. b.id.k <= cl[b.id.c].sent
    BY Zenon DEF KeySound
  <2> QED BY <1>2, <1>9, <2>1, <2>2
<1>11. ASSUME NEW c \in Clients, cl'[c].pid = b.pid, cl'[c].epoch = b.epoch
       PROVE  b.base + b.n <= cl'[c].seq[b.part]
  <2>0. cl[c].pid = b.pid /\ cl[c].epoch = b.epoch => b.base + b.n <= cl[c].seq[b.part]
    BY Zenon DEF KeySound
  <2>1. CASE cl'[c].pid = cl[c].pid /\ cl'[c].epoch = cl[c].epoch /\ cl'[c].seq = cl[c].seq
    BY <1>11, <2>0, <2>1, Zenon
  <2>2. ASSUME NEW p \in Partitions, NEW n \in BatchSizes, NEW r \in Replicas, Send(c, p, n, r)
        PROVE  b.base + b.n <= cl'[c].seq[b.part]
    <3>1. cl[c].pid = b.pid /\ cl[c].epoch = b.epoch
      BY <1>8, <1>11, <2>2, Zenon
    <3>2. cl'[c].seq[b.part] \in Int /\ cl[c].seq[b.part] \in Int /\ cl[c].seq[b.part] <= cl'[c].seq[b.part]
      BY <1>2, <1>8, <2>2, Zenon
    <3>3. b.base + b.n <= cl[c].seq[b.part]
      BY <2>0, <3>1, Zenon
    <3>4. b.base \in Int /\ b.n \in Int
      BY <1>2
    <3> QED BY <3>2, <3>3, <3>4
  <2>3. CASE /\ Seed(<<c, "main">>) /\ cl'[c].pid = calls[<<c, "main">>].pid
             /\ cl'[c].epoch = calls[<<c, "main">>].epoch
    <3>1. <<c, "main">> \in Clients \X Slots
      BY DEF Slots
    <3>2. calls[<<c, "main">>].pc = "seed"
      BY <2>3, Zenon DEF Seed
    <3>3. <<calls[<<c, "main">>].pid, calls[<<c, "main">>].epoch>> # <<b.pid, b.epoch>>
      BY <3>1, <3>2, Zenon DEF KeySound
    <3> QED BY <1>11, <2>3, <3>3, Zenon
  <2>4. CASE cl'[c].pid = -1
    BY <1>6, <1>11, <2>4, Zenon
  <2> QED BY <1>7, <2>1, <2>2, <2>3, <2>4, Zenon DEF ClientMoves
<1>12. ASSUME NEW x \in Clients \X Slots, calls'[x].pc = "seed"
       PROVE  <<calls'[x].pid, calls'[x].epoch>> # <<b.pid, b.epoch>>
  <2>0. \A y \in Clients \X Slots : calls[y].pc = "seed" => <<calls[y].pid, calls[y].epoch>> # <<b.pid, b.epoch>>
    BY Zenon DEF KeySound
  <2>1. CASE \E y \in Clients \X Slots : InitCas(y)
    <3>1. PICK y \in Clients \X Slots : InitCas(y)
      BY <2>1, Zenon
    <3>2. CASE x = y
      <4>1. PICK pid, epoch : Fresh(x, pid, epoch)
        BY <1>1, <1>12, <3>1, <3>2, InitCasEffect, Zenon
      <4>2. calls'[x].pid = pid /\ calls'[x].epoch = epoch /\ <<b.pid, b.epoch>> # <<pid, epoch>>
        <5> HIDE DEF t
        <5> QED BY <1>3, <1>4, <4>1, Zenon DEF Fresh
      <4> QED BY <4>2, Zenon
    <3>3. CASE x # y
      <4>1. calls'[x] = calls[x]
        BY <1>1, <3>1, <3>3, InitCasEffect, Zenon
      <4> QED BY <1>12, <2>0, <4>1, Zenon
    <3> QED BY <3>2, <3>3, Zenon
  <2>2. CASE ~\E y \in Clients \X Slots : InitCas(y)
    <3>1. PICK y \in Clients \X Slots : calls[y].pc = "seed" /\ calls'[x] = calls[y]
      BY <1>1, <1>12, <2>2, HoldersMove, Zenon
    <3> QED BY <2>0, <3>1, Zenon
  <2> QED BY <2>1, <2>2, Zenon
<1> QED BY <1>5, <1>10, <1>11, <1>12, Zenon DEF KeySound

\* A batch that has just been sent.
LEMMA KeySent ==
    ASSUME Given, Types(IMax), Room, IdInv, WantInv, Next,
           NEW c \in Clients, NEW b, Sends(c, b)
    PROVE  KeySound(b)'
<1>1. IMax \in Int /\ IMax \in {IMax, 2 * IMax} /\ LedgerIds /\ ClientTypes(IMax)
  <2>1. IMax \in Int
    BY DEF Given, ProducerLogAssumption
  <2> QED BY <2>1, Zenon DEF Types, IdInv
<1>2. /\ b.pid = cl[c].pid /\ b.epoch = cl[c].epoch /\ b.base = cl[c].seq[b.part]
      /\ b.id = [c |-> c, txn |-> cl[c].txn, k |-> cl[c].sent + 1]
      /\ b.part \in Partitions /\ b.n \in BatchSizes
  BY SentKey, Zenon
<1>3. PICK r \in Replicas : Send(c, b.part, b.n, r)
  BY SentKey, Zenon
<1>4. b.id.c = c /\ b.id.k = cl[c].sent + 1
  BY <1>2
<1>5. cl[c].pid # -1
  <2>1. cl[c].pc \in {"ready", "open"}
    BY <1>3 DEF Send
  <2> QED BY <2>1, Zenon DEF WantInv, Held
<1>6. IssuedTo(TidOf[c], b.pid, b.epoch)'
  <2>1. IssuedTo(TidOf[c], b.pid, b.epoch)
    BY <1>2, <1>5, Zenon DEF IdInv, HoldersIssued
  <2>2. TidOf[c] = NoTid \/ TidOf[c] \in Tids
    BY Zenon DEF Tids
  <2> QED BY <1>1, <2>1, <2>2, IssuedStays, Zenon
<1>7. AfterSend(c, b.part, b.n)
  BY <1>2, <1>3, SendCounts, Zenon
<1>8. /\ \A d \in Clients : d # c => cl'[d] = cl[d]
      /\ cl'[c].sent = cl[c].sent + 1
      /\ cl'[c].seq[b.part] = cl[c].seq[b.part] + b.n
  BY <1>7, Zenon DEF AfterSend
<1>9. cl[c] \in ClientSet(IMax)
  BY <1>1, Zenon DEF ClientTypes
<1>10. cl[c].seq \in [Partitions -> 0..IMax] /\ cl[c].sent \in Nat
  BY <1>9 DEF ClientSet
<1>11. b.base + b.n <= cl'[c].seq[b.part]
  <2>1. cl'[c].seq[b.part] = cl[c].seq[b.part] + b.n
    BY <1>8, Zenon
  <2>2. cl[c].seq[b.part] \in 0..IMax /\ b.n \in 1..IMax
    BY <1>2, <1>10, Zenon DEF Given, TransactionsAssumption
  <2> QED BY <1>2, <2>1, <2>2
<1>12. ASSUME NEW d \in Clients, cl'[d].pid = b.pid, cl'[d].epoch = b.epoch
       PROVE  b.base + b.n <= cl'[d].seq[b.part]
  <2>1. CASE d = c
    BY <1>11, <2>1, Zenon
  <2>2. CASE d # c
    <3>1. cl'[d] = cl[d]
      BY <1>8, <2>2, Zenon
    <3>2. <<cl[c].pid, cl[c].epoch>> # <<cl[d].pid, cl[d].epoch>>
      BY <1>5, <2>2, Zenon DEF IdInv, HoldersDiffer
    <3> QED BY <1>2, <1>12, <3>1, <3>2, Zenon
  <2> QED BY <2>1, <2>2, Zenon
<1>13. ASSUME NEW x \in Clients \X Slots, calls'[x].pc = "seed"
       PROVE  <<calls'[x].pid, calls'[x].epoch>> # <<b.pid, b.epoch>>
  <2>1. calls' = calls
    BY <1>3, Zenon DEF Send
  <2>2. <<calls[x].pid, calls[x].epoch>> # <<cl[c].pid, cl[c].epoch>>
    BY <1>13, <2>1, Zenon DEF IdInv, HoldersDiffer
  <2> QED BY <1>2, <2>1, <2>2, Zenon
<1>14. b.id.k <= cl'[b.id.c].sent
  BY <1>4, <1>8, <1>10
<1>15. IssuedTo(TidOf[b.id.c], b.pid, b.epoch)'
  BY <1>4, <1>6, Zenon
<1> QED BY <1>12, <1>13, <1>14, <1>15, Zenon DEF KeySound

\* A step sends one batch at most.
LEMMA OneSent ==
    ASSUME Given, Types(IMax), Room, KeyInv,
           NEW c \in Clients, NEW b, Sends(c, b), NEW d \in Clients, NEW a, Sends(d, a)
    PROVE  OneBatch(a, b)
<1>1. IMax \in Int /\ IMax \in {IMax, 2 * IMax} /\ ClientTypes(IMax)
  <2>1. IMax \in Int
    BY DEF Given, ProducerLogAssumption
  <2> QED BY <2>1, Zenon DEF Types
<1>2. PICK r \in Replicas : Send(c, b.part, b.n, r)
  BY SentKey, Zenon
<1>3. PICK s \in Replicas : Send(d, a.part, a.n, s)
  BY SentKey, Zenon
<1>4. a.part \in Partitions /\ a.n \in BatchSizes /\ b.part \in Partitions /\ b.n \in BatchSizes
  BY SentKey, Zenon
<1>5. /\ \A e \in Clients : e # c => cl'[e] = cl[e]
      /\ cl'[c].out = cl[c].out \cup {DataRequest(c, b.part, b.n)}
  <2>1. AfterSend(c, b.part, b.n)
    BY <1>2, <1>4, SendCounts, Zenon
  <2> QED BY <2>1, Zenon DEF AfterSend
<1>6. /\ cl'[d].sent = cl[d].sent + 1
      /\ cl'[d].out = cl[d].out \cup {DataRequest(d, a.part, a.n)}
  <2>1. AfterSend(d, a.part, a.n)
    BY <1>3, <1>4, SendCounts, Zenon
  <2> QED BY <2>1, Zenon DEF AfterSend
<1>7. cl[d] \in ClientSet(IMax)
  BY <1>1, Zenon DEF ClientTypes
<1>8. cl[d].sent \in Nat /\ cl[d].out \subseteq DataRequests(IMax)
  BY <1>7 DEF ClientSet
<1>9. d = c
  <2>1. cl'[d] # cl[d]
    BY <1>6, <1>8
  <2> QED BY <1>5, <2>1, Zenon
<1> DEFINE q == DataRequest(d, a.part, a.n)
<1>10. q.id = [c |-> d, txn |-> cl[d].txn, k |-> cl[d].sent + 1] /\ q.part = a.part /\ q.n = a.n
  BY DEF DataRequest
<1> HIDE DEF q
<1>11. q.id.c = d /\ q.id.k = cl[d].sent + 1
  BY <1>10
<1>12. q \notin cl[d].out
  <2> SUFFICES ASSUME q \in cl[d].out PROVE FALSE
    OBVIOUS
  <2>1. q \in DataRequests(IMax)
    BY <1>8, Zenon
  <2>2. q.control = FALSE
    BY <2>1, Zenon DEF DataRequests
  <2>3. Carried(q)
    BY <2>2, Zenon DEF Carried, Around, SameKey
  <2>4. q.id.k <= cl[q.id.c].sent
    BY <2>3, Zenon DEF KeyInv, KeySound
  <2> QED BY <1>8, <1>11, <2>4
<1>13. q = DataRequest(c, b.part, b.n)
  BY <1>5, <1>6, <1>9, <1>12, Zenon DEF q
<1>14. q.part = b.part /\ q.n = b.n
  BY <1>13 DEF DataRequest
<1>15. a.part = b.part /\ a.n = b.n
  BY <1>10, <1>14, Zenon
<1>16. /\ a.pid = cl[d].pid /\ a.epoch = cl[d].epoch /\ a.base = cl[d].seq[a.part]
       /\ a.id = [c |-> d, txn |-> cl[d].txn, k |-> cl[d].sent + 1]
  BY SentKey, Zenon
<1>17. /\ b.pid = cl[c].pid /\ b.epoch = cl[c].epoch /\ b.base = cl[c].seq[b.part]
       /\ b.id = [c |-> c, txn |-> cl[c].txn, k |-> cl[c].sent + 1]
  BY SentKey, Zenon
<1>18. a.id = b.id /\ a.part = b.part /\ a.pid = b.pid /\ a.epoch = b.epoch /\ a.base = b.base /\ a.n = b.n
  BY <1>9, <1>15, <1>16, <1>17, Zenon
<1> QED BY <1>18, Zenon DEF OneBatch

\* A batch that has just been sent is no batch that was around.
LEMMA SentIsNew ==
    ASSUME Given, Types(IMax), KeyInv,
           NEW c \in Clients, NEW b, Sends(c, b), NEW a, Carried(a)
    PROVE  a.id # b.id /\ ~(a.part = b.part /\ a.pid = b.pid /\ a.epoch = b.epoch /\ a.base = b.base)
<1>1. IMax \in Int /\ ClientTypes(IMax)
  <2>1. IMax \in Int
    BY DEF Given, ProducerLogAssumption
  <2> QED BY <2>1, Zenon DEF Types
<1>2. /\ b.pid = cl[c].pid /\ b.epoch = cl[c].epoch /\ b.base = cl[c].seq[b.part]
      /\ b.id = [c |-> c, txn |-> cl[c].txn, k |-> cl[c].sent + 1]
  BY SentKey, Zenon
<1>3. a.base \in 0..IMax /\ a.n \in Nat \ {0} /\ a.id.k \in Nat
  BY <1>1, CarriedTyped, Zenon
<1>4. KeySound(a)
  BY Zenon DEF KeyInv
<1>5. cl[c] \in ClientSet(IMax)
  BY <1>1, Zenon DEF ClientTypes
<1>6. cl[c].sent \in Nat
  BY <1>5 DEF ClientSet
<1>7. a.id # b.id
  <2>1. b.id.c = c /\ b.id.k = cl[c].sent + 1
    BY <1>2
  <2>2. a.id.k <= cl[a.id.c].sent
    BY <1>4, Zenon DEF KeySound
  <2>3. a.id = b.id => b.id.k <= cl[c].sent
    BY <2>1, <2>2, Zenon
  <2> QED BY <1>6, <2>1, <2>3
<1>8. ASSUME a.part = b.part, a.pid = b.pid, a.epoch = b.epoch, a.base = b.base PROVE FALSE
  <2>1. a.base + a.n <= cl[c].seq[a.part]
    BY <1>2, <1>4, <1>8, Zenon DEF KeySound
  <2>2. cl[c].seq[a.part] = a.base
    BY <1>2, <1>8, Zenon
  <2> QED BY <1>3, <2>1, <2>2
<1> QED BY <1>7, <1>8, Zenon

\* Every step keeps the batches apart.
LEMMA KeyStep ==
    ASSUME Given, Types(IMax), Room, IdInv, WantInv, KeyInv,
           [Next]_vars
    PROVE  KeyInv'
<1>1. IMax \in Int /\ IMax \in {IMax, 2 * IMax}
  BY DEF Given, ProducerLogAssumption
<1>2. CASE UNCHANGED vars
  <2>1. /\ segments' = segments /\ parked' = parked /\ flush' = flush /\ late' = late /\ regs' = regs
        /\ cl' = cl /\ calls' = calls /\ txns' = txns /\ lastPid' = lastPid
    BY <1>2, Zenon DEF vars, logVars, ledger
  <2>2. \A b : Around(b)' <=> Around(b)
    BY <2>1, Zenon DEF Around, InLog, In, Stored, Entry
  <2>3. \A b : Carried(b)' <=> Carried(b)
    BY <2>2, Zenon DEF Carried, SameKey
  <2>4. \A t, p, e : IssuedTo(t, p, e) => IssuedTo(t, p, e)'
    BY <2>1, Zenon DEF IssuedTo, EpochOf
  <2>5. \A b : KeySound(b) => KeySound(b)'
    BY <2>1, <2>4, Zenon DEF KeySound
  <2>6. \A b : Carried(b)' => KeySound(b)'
    BY <2>3, <2>5, Zenon DEF KeyInv
  <2>7. \A a, b : OneBatch(a, b)' <=> OneBatch(a, b)
    BY Zenon DEF OneBatch
  <2>8. \A a, b : Carried(a)' /\ Carried(b)' => OneBatch(a, b)'
    BY <2>3, <2>7, Zenon DEF KeyInv
  <2> QED BY <2>6, <2>8, Zenon DEF KeyInv
<1>3. CASE Next
  <2>1. \A b : Carried(b)' => Carried(b) \/ \E c \in Clients : Sends(c, b)
    BY <1>1, <1>3, CarriedMoves, Zenon
  <2>2. ASSUME NEW b, Carried(b)' PROVE KeySound(b)'
    <3>1. CASE Carried(b)
      <4>1. KeySound(b)
        BY <3>1, Zenon DEF KeyInv
      <4> QED BY <1>3, <3>1, <4>1, KeyKept, Zenon
    <3>2. ASSUME NEW c \in Clients, Sends(c, b) PROVE KeySound(b)'
      BY <1>3, <3>2, KeySent, Zenon
    <3> QED BY <2>1, <2>2, <3>1, <3>2, Zenon
  <2>3. ASSUME NEW a, NEW b, Carried(a)', Carried(b)' PROVE OneBatch(a, b)
    <3>1. CASE Carried(a) /\ Carried(b)
      BY <3>1, Zenon DEF KeyInv
    <3>2. ASSUME Carried(a), NEW c \in Clients, Sends(c, b) PROVE OneBatch(a, b)
      BY <3>2, SentIsNew, Zenon DEF OneBatch
    <3>3. ASSUME Carried(b), NEW c \in Clients, Sends(c, a) PROVE OneBatch(a, b)
      BY <3>3, SentIsNew, Zenon DEF OneBatch
    <3>4. ASSUME NEW c \in Clients, Sends(c, b), NEW d \in Clients, Sends(d, a) PROVE OneBatch(a, b)
      BY <3>4, OneSent, Zenon
    <3> QED BY <2>1, <2>3, <3>1, <3>2, <3>3, <3>4, Zenon
  <2>4. \A a, b : OneBatch(a, b)' <=> OneBatch(a, b)
    BY Zenon DEF OneBatch
  <2> QED BY <2>2, <2>3, <2>4, Zenon DEF KeyInv
<1> QED BY <1>2, <1>3, Zenon

\* Initially there is no batch.
LEMMA KeyInit ==
    ASSUME Init
    PROVE  KeyInv
<1>1. \A b : ~Around(b)
  <2>1. segments = <<>> /\ late = {} /\ regs = {} /\ cl = [c \in Clients |-> NewClient]
        /\ flush = [r \in Replicas |-> NoFlush] /\ parked = [r \in Replicas |-> <<>>]
    BY Zenon DEF Init, LogInit
  <2>2. NewClient.out = {} /\ NoFlush.added = <<>> /\ NoFlush.reqs = <<>>
    BY DEF NewClient, NoFlush
  <2>3. DOMAIN <<>> = {}
    OBVIOUS
  <2>4. \A b : ~In(b, <<>>)
    BY <2>3, Zenon DEF In
  <2>5. Stored = {}
    BY <2>1, <2>3, Zenon DEF Stored, Positions
  <2> QED BY <2>1, <2>2, <2>4, <2>5, Zenon DEF Around, InLog
<1> QED BY <1>1, Zenon DEF KeyInv, Carried

=============================================================================
