------------------------ MODULE ClassicGroup_proofs ------------------------
(***************************************************************************)
(* Proofs about ClassicGroup.  The invariant says of everything that was   *)
(* read or handed out how far it may be from the store: a generation read  *)
(* with the current version is the current one, within one generation the  *)
(* members do not change, and the assignments of the current generation    *)
(* and of the one before it are still there.  It is stated over values,    *)
(* so that a step is judged by how it moves gen, asg and top.              *)
(***************************************************************************)
EXTENDS ClassicGroup, TLAPS

\* A generation.json that the group may hold.
GenInv(g) ==
    /\ g \in GenerationDoc
    /\ g.seq = 0 => g = NoGroup
    /\ g.seq # 0 => g.id >= 0
    /\ g.leader = Nobody \/ g.leader \in g.members

\* v was read when the group is at g, or was earlier.
Read(v, g) ==
    /\ GenInv(v)
    /\ v.seq <= g.seq /\ (v.seq = g.seq => v = g)
    /\ v.id <= g.id /\ (v.id = g.id => v.members = g.members)

Sweeping == {"claim", "verdict", "evict"}

Writing == {"admit", "cas", "create", "fence"}

\* q, a request of member o.
ReqInv(q, o, g, a, tp) ==
    /\ q \in Request
    /\ Read(q.view, g)
    /\ q.gen <= g.id /\ q.seen <= tp
    /\ q.pc \notin {"idle", "read"} => q.seen <= q.view.id
    /\ q.seen >= 0 /\ q.seen >= g.id - 1 => q.seen \in DOMAIN a
    /\ q.gen = g.id => DOMAIN q.map \in {{}, g.members}
    /\ q.pc \in Sweeping => q.view.seq # 0
    /\ q.pc \in {"admit", "cas"} => q.changed \/ o \in q.view.members
    /\ q.pc \in {"create", "fence"} => q.view.id = q.gen /\ q.gen >= 0
    /\ q.pc = "create" => o \in DOMAIN q.map
    /\ q.pc = "fence" /\ q.gen >= g.id - 1 => q.gen \in DOMAIN a /\ q.map = a[q.gen]

ClientInv(c, g, a) ==
    /\ c \in Client
    /\ c.gen <= g.id
    /\ c.st # "stable" /\ c.gen = g.id => DOMAIN c.map \in {{}, g.members}
    /\ c.st = "stable" /\ c.gen >= g.id - 1 => c.gen \in DOMAIN a /\ c.map = a[c.gen]

AsgInv(g, a) ==
    /\ DOMAIN a \subseteq Nat
    /\ \A h \in DOMAIN a : a[h] \in Maps /\ h <= g.id
    /\ g.id \in DOMAIN a => DOMAIN a[g.id] = g.members

TopInv(tp, g, a) ==
    /\ tp \in Int /\ tp >= -1 /\ tp <= g.id
    /\ tp >= 0 /\ tp >= g.id - 1 => tp \in DOMAIN a

DocInv(d) == DOMAIN d \subseteq Members /\ \A m \in DOMAIN d : d[m] \in MemberDoc

IInv ==
    /\ GenInv(gen) /\ AsgInv(gen, asg) /\ TopInv(top, gen, asg) /\ DocInv(doc)
    /\ req \in [Requests -> Request]
    /\ \A r \in Requests : ReqInv(req[r], Owner[r], gen, asg, top)
    /\ client \in [Members -> Client]
    /\ \A m \in Members : ClientInv(client[m], gen, asg)
    /\ want \in [Members -> Topics] /\ budget \in [Events -> Nat]

\* How generation.json moves.
Moves(g, h) ==
    /\ GenInv(h) /\ h.seq > g.seq /\ h.id >= g.id
    /\ h.id = g.id => h.members = g.members
    /\ h.id = g.id /\ g.leader # Nobody => h.leader = g.leader

\* How the assignments may change: the last two are kept.
Keeps(a, b, g) == \A h \in DOMAIN a : h >= g.id - 1 => h \in DOMAIN b /\ b[h] = a[h]

-----------------------------------------------------------------------------
(* What a move of the store does to what was read or handed out.           *)

\* A generation that was read stays one that was read.
LEMMA ReadMoves ==
    ASSUME NEW v, NEW g, NEW h, Read(v, g), GenInv(g), Moves(g, h)
    PROVE  Read(v, h)
  <1>1. /\ v.seq \in Nat /\ g.seq \in Nat /\ h.seq \in Nat
        /\ v.id \in Int /\ g.id \in Int /\ h.id \in Int
    BY DEF Read, GenInv, Moves, GenerationDoc
  <1>2. /\ GenInv(v) /\ v.seq <= g.seq /\ v.id <= g.id /\ (v.id = g.id => v.members = g.members)
        /\ h.seq > g.seq /\ h.id >= g.id /\ (h.id = g.id => h.members = g.members)
    BY Zenon DEF Read, Moves
  <1>3. v.seq <= h.seq /\ v.seq # h.seq /\ v.id <= h.id
    BY <1>1, <1>2
  <1>4. v.id = h.id => v.id = g.id /\ h.id = g.id
    BY <1>1, <1>2
  <1> QED BY <1>2, <1>3, <1>4, Zenon DEF Read

\* A request keeps its invariant when the generation moves.
LEMMA ReqMoves ==
    ASSUME NEW q, NEW o, NEW g, NEW h, NEW a, NEW tp,
           ReqInv(q, o, g, a, tp), GenInv(g), Moves(g, h)
    PROVE  ReqInv(q, o, h, a, tp)
  <1>1. /\ q.gen \in Int /\ q.seen \in Int /\ g.id \in Int /\ h.id \in Int
    BY DEF ReqInv, Request, GenInv, Moves, GenerationDoc
  <1>2. q.gen <= g.id /\ h.id >= g.id /\ (h.id = g.id => h.members = g.members)
    BY Zenon DEF ReqInv, Moves
  <1>3. /\ q.gen <= h.id
        /\ q.seen >= h.id - 1 => q.seen >= g.id - 1
        /\ q.gen >= h.id - 1 => q.gen >= g.id - 1
        /\ q.gen = h.id => q.gen = g.id /\ h.id = g.id
    BY <1>1, <1>2
  <1>4. Read(q.view, h)
    BY ReadMoves, Zenon DEF ReqInv
  <1>5. q.gen = h.id => DOMAIN q.map \in {{}, h.members}
    BY <1>2, <1>3, Zenon DEF ReqInv
  <1> QED BY <1>3, <1>4, <1>5, Zenon DEF ReqInv

\* So does a client.
LEMMA ClientMoves ==
    ASSUME NEW c, NEW g, NEW h, NEW a, ClientInv(c, g, a), GenInv(g), Moves(g, h)
    PROVE  ClientInv(c, h, a)
  <1>1. c.gen \in Int /\ g.id \in Int /\ h.id \in Int
    BY DEF ClientInv, Client, GenInv, Moves, GenerationDoc
  <1>2. c.gen <= g.id /\ h.id >= g.id /\ (h.id = g.id => h.members = g.members)
    BY Zenon DEF ClientInv, Moves
  <1>3. /\ c.gen <= h.id
        /\ c.gen >= h.id - 1 => c.gen >= g.id - 1
        /\ c.gen = h.id => c.gen = g.id /\ h.id = g.id
    BY <1>1, <1>2
  <1> QED BY <1>2, <1>3, Zenon DEF ClientInv

\* The assignments stay the group's: a new generation has none yet.
LEMMA AsgMoves ==
    ASSUME NEW g, NEW h, NEW a, NEW tp,
           AsgInv(g, a), TopInv(tp, g, a), GenInv(g), Moves(g, h)
    PROVE  AsgInv(h, a) /\ TopInv(tp, h, a)
  <1>1. g.id \in Int /\ h.id \in Int /\ tp \in Int
    BY DEF TopInv, GenInv, Moves, GenerationDoc
  <1>2. h.id >= g.id /\ (h.id = g.id => h.members = g.members) /\ tp <= g.id
    BY Zenon DEF Moves, TopInv
  <1>3. \A k \in DOMAIN a : k \in Int /\ k <= g.id /\ a[k] \in Maps
    BY DEF AsgInv
  <1>4. /\ \A k \in DOMAIN a : k <= h.id
        /\ h.id \in DOMAIN a => h.id = g.id
        /\ tp <= h.id /\ (tp >= h.id - 1 => tp >= g.id - 1)
    BY <1>1, <1>2, <1>3
  <1> QED BY <1>1, <1>2, <1>3, <1>4, Zenon DEF AsgInv, TopInv

\* A request keeps its invariant when the last assignments are kept.
LEMMA ReqKeeps ==
    ASSUME NEW q, NEW o, NEW g, NEW a, NEW b, NEW tp, NEW tq,
           ReqInv(q, o, g, a, tp), Keeps(a, b, g), tp \in Int, tq \in Int, tp <= tq
    PROVE  ReqInv(q, o, g, b, tq)
  <1>1. q.seen \in Int /\ q.seen <= tp
    BY DEF ReqInv, Request
  <1>2. q.seen <= tq
    BY <1>1
  <1> QED BY <1>2, Zenon DEF ReqInv, Keeps

\* So does a client.
LEMMA ClientKeeps ==
    ASSUME NEW c, NEW g, NEW a, NEW b, ClientInv(c, g, a), Keeps(a, b, g)
    PROVE  ClientInv(c, g, b)
  BY Zenon DEF ClientInv, Keeps

-----------------------------------------------------------------------------
(* From one request and one client to all of them.                         *)

\* The invariant after a step of request r or client m, from what becomes of them.
LEMMA StepOne ==
    ASSUME IInv, NEW r, NEW q, NEW m \in Members, NEW c,
           \/ /\ gen' = gen /\ Keeps(asg, asg', gen) /\ AsgInv(gen, asg')
              /\ TopInv(top', gen, asg') /\ top <= top'
           \/ Moves(gen, gen') /\ asg' = asg /\ top' = top,
           DocInv(doc'), want' \in [Members -> Topics], budget' \in [Events -> Nat],
           \/ req' = req
           \/ r \in Requests /\ req' = [req EXCEPT ![r] = q] /\ ReqInv(q, Owner[r], gen', asg', top'),
           client' = client \/ (client' = [client EXCEPT ![m] = c] /\ ClientInv(c, gen', asg'))
    PROVE  IInv'
  <1>1. /\ GenInv(gen) /\ AsgInv(gen, asg) /\ TopInv(top, gen, asg)
        /\ req \in [Requests -> Request] /\ client \in [Members -> Client]
        /\ \A k \in Requests : ReqInv(req[k], Owner[k], gen, asg, top)
        /\ \A k \in Members : ClientInv(client[k], gen, asg)
    BY Zenon DEF IInv
  <1> DEFINE Shared == GenInv(gen') /\ AsgInv(gen', asg') /\ TopInv(top', gen', asg')
             Reqs == \A k \in Requests : ReqInv(req[k], Owner[k], gen', asg', top')
             Clients == \A k \in Members : ClientInv(client[k], gen', asg')
  <1>2. ASSUME gen' = gen, Keeps(asg, asg', gen), AsgInv(gen, asg'),
               TopInv(top', gen, asg'), top <= top'
        PROVE  Shared /\ Reqs /\ Clients
    <2>1. top \in Int /\ top' \in Int
      BY <1>1, <1>2, Zenon DEF TopInv
    <2>2. Reqs
      BY <1>1, <1>2, <2>1, ReqKeeps, Zenon
    <2>3. Clients
      BY <1>1, <1>2, ClientKeeps, Zenon
    <2>4. Shared
      BY <1>1, <1>2, Zenon
    <2> QED BY <2>2, <2>3, <2>4, Zenon
  <1>3. ASSUME Moves(gen, gen'), asg' = asg, top' = top
        PROVE  Shared /\ Reqs /\ Clients
    <2>1. Shared
      BY <1>1, <1>3, AsgMoves, Zenon DEF Moves
    <2>2. Reqs
      BY <1>1, <1>3, ReqMoves, Zenon
    <2>3. Clients
      BY <1>1, <1>3, ClientMoves, Zenon
    <2> QED BY <2>1, <2>2, <2>3, Zenon
  <1>4. Shared /\ Reqs /\ Clients
    BY <1>2, <1>3, Zenon
  <1> HIDE DEF Shared
  <1>5. /\ req' \in [Requests -> Request]
        /\ \A k \in Requests : ReqInv(req'[k], Owner[k], gen', asg', top')
    <2>1. CASE req' = req
      BY <1>1, <1>4, <2>1, Zenon
    <2>2. CASE r \in Requests /\ req' = [req EXCEPT ![r] = q] /\ ReqInv(q, Owner[r], gen', asg', top')
      <3>1. q \in Request
        BY <2>2, Zenon DEF ReqInv
      <3>2. req'[r] = q /\ \A k \in Requests \ {r} : req'[k] = req[k]
        BY <1>1, <2>2, Zenon
      <3>3. req' \in [Requests -> Request]
        BY <1>1, <2>2, <3>1, Zenon
      <3> QED BY <1>4, <2>2, <3>2, <3>3, Zenon
    <2> QED BY <2>1, <2>2, Zenon
  <1>6. /\ client' \in [Members -> Client]
        /\ \A k \in Members : ClientInv(client'[k], gen', asg')
    <2>1. CASE client' = client
      BY <1>1, <1>4, <2>1, Zenon
    <2>2. CASE client' = [client EXCEPT ![m] = c] /\ ClientInv(c, gen', asg')
      <3>1. c \in Client
        BY <2>2, Zenon DEF ClientInv
      <3>2. client'[m] = c /\ \A k \in Members \ {m} : client'[k] = client[k]
        BY <1>1, <2>2, Zenon
      <3>3. client' \in [Members -> Client]
        BY <1>1, <2>2, <3>1, Zenon
      <3> QED BY <1>4, <2>2, <3>2, <3>3, Zenon
    <2> QED BY <2>1, <2>2, Zenon
  <1> QED BY <1>4, <1>5, <1>6, Zenon DEF IInv, Shared

\* Where the generation and the assignments stay as they are.
LEMMA StepQuiet ==
    ASSUME IInv, NEW r, NEW q, NEW m \in Members, NEW c,
           gen' = gen, asg' = asg, top' = top,
           DocInv(doc'), want' \in [Members -> Topics], budget' \in [Events -> Nat],
           \/ req' = req
           \/ r \in Requests /\ req' = [req EXCEPT ![r] = q] /\ ReqInv(q, Owner[r], gen, asg, top),
           client' = client \/ (client' = [client EXCEPT ![m] = c] /\ ClientInv(c, gen, asg))
    PROVE  IInv'
  <1>1. AsgInv(gen, asg) /\ TopInv(top, gen, asg)
    BY Zenon DEF IInv
  <1>2. top <= top
    BY <1>1 DEF TopInv
  <1>3. Keeps(asg, asg, gen)
    BY Zenon DEF Keeps
  <1> QED BY <1>1, <1>2, <1>3, StepOne, Zenon

\* A request goes on, with what it had read or with the generation as it is.
LEMMA Advance ==
    ASSUME NEW q, NEW p, NEW o, NEW g, NEW a, NEW tp,
           ReqInv(q, o, g, a, tp), GenInv(g), TopInv(tp, g, a),
           p \in Request, p.gen = q.gen, p.map = q.map, p.seen = q.seen,
           \/ p.view = g
           \/ p.view = q.view /\ (q.pc \notin {"idle", "read"} \/ p.pc \in {"idle", "read"}),
           p.pc \notin {"create", "fence"},
           p.pc \in {"admit", "cas"} => p.changed \/ o \in p.view.members,
           p.pc \in Sweeping => p.view.seq # 0
    PROVE  ReqInv(p, o, g, a, tp)
  <1>1. Read(p.view, g)
    <2>1. Read(g, g)
      <3>1. g.seq \in Nat /\ g.id \in Int
        BY DEF GenInv, GenerationDoc
      <3>2. g.seq <= g.seq /\ g.id <= g.id
        BY <3>1
      <3> QED BY <3>2, Zenon DEF Read
    <2> QED BY <2>1, Zenon DEF ReqInv
  <1>2. p.pc \notin {"idle", "read"} => p.seen <= p.view.id
    <2>1. CASE p.view = g
      <3>1. q.seen \in Int /\ q.seen <= tp /\ tp \in Int /\ tp <= g.id /\ g.id \in Int
        BY DEF ReqInv, Request, TopInv, GenInv, GenerationDoc
      <3> QED BY <2>1, <3>1
    <2>2. CASE p.view = q.view /\ (q.pc \notin {"idle", "read"} \/ p.pc \in {"idle", "read"})
      BY <2>2, Zenon DEF ReqInv
    <2> QED BY <2>1, <2>2, Zenon
  <1> QED BY <1>1, <1>2, Zenon DEF ReqInv

\* A request that is done says nothing.
LEMMA IdleInv ==
    ASSUME NEW r \in Requests, NEW g, NEW a, NEW tp, GenInv(g), TopInv(tp, g, a)
    PROVE  ReqInv(Idle(r), Owner[r], g, a, tp)
  <1> DEFINE q == Idle(r)
  <1>1. Owner[r] \in Members /\ First[Owner[r]] \in Topics
    BY GroupAssumption, Zenon
  <1>2. Empty \in Maps /\ DOMAIN Empty = {}
    <2>1. Empty \in [{} -> Topics] /\ {} \in SUBSET Members
      BY DEF Empty
    <2> QED BY <2>1 DEF Maps, Empty
  <1>3. NoGroup \in GenerationDoc
    BY DEF NoGroup, GenerationDoc, Nobody
  <1>4. q \in Request
    BY <1>1, <1>2, <1>3, SMT DEF Idle, Request, ControlPoints, Kinds
  <1>5. /\ q.pc = "idle" /\ q.gen = -1 /\ q.seen = -1 /\ q.view = NoGroup /\ q.map = Empty
    BY DEF Idle
  <1>6. g.seq \in Nat /\ g.id \in Int /\ tp \in Int /\ tp >= -1
    BY DEF GenInv, GenerationDoc, TopInv
  <1>7. g.seq = 0 => g = NoGroup
    BY Zenon DEF GenInv
  <1>8. NoGroup.seq = 0 /\ NoGroup.id = -1 /\ NoGroup.leader = Nobody /\ NoGroup.members = {}
    BY DEF NoGroup
  <1>9. g.seq # 0 => g.id >= 0
    BY Zenon DEF GenInv
  <1>10. Read(NoGroup, g)
    <2>1. GenInv(NoGroup)
      BY <1>3, <1>8, Zenon DEF GenInv
    <2>2. NoGroup.seq <= g.seq /\ NoGroup.id <= g.id /\ (NoGroup.id = g.id => g.seq = 0)
      BY <1>6, <1>7, <1>8, <1>9
    <2> QED BY <1>7, <1>8, <2>1, <2>2, Zenon DEF Read
  <1>11. q.gen <= g.id /\ q.seen <= tp /\ ~ (q.seen >= 0)
    BY <1>5, <1>6, <1>7, <1>8, <1>9
  <1> HIDE DEF q
  <1>12. ReqInv(q, Owner[r], g, a, tp)
    BY <1>2, <1>4, <1>5, <1>10, <1>11, Zenon DEF ReqInv, Sweeping
  <1> QED BY <1>12 DEF q

\* A client that is told to go on, or to start over.
LEMMA ClientBack ==
    ASSUME NEW k, NEW c, NEW g, NEW a, ClientInv(k, g, a), c \in Client, c.gen = k.gen,
           (c.st = k.st /\ c.map = k.map) \/ (c.st # "stable" /\ c.map = Empty)
    PROVE  ClientInv(c, g, a)
  <1>1. DOMAIN Empty = {}
    BY DEF Empty
  <1> QED BY <1>1, Zenon DEF ClientInv

\* Proceed, Rejoin, Unknown and Interrupted leave a client consistent.
LEMMA Answers ==
    ASSUME IInv, NEW m \in Members, NEW op
    PROVE  /\ ClientInv(Proceed(m), gen, asg) /\ ClientInv(Rejoin(m), gen, asg)
           /\ ClientInv(Unknown(m), gen, asg) /\ ClientInv(Interrupted(m, op), gen, asg)
  <1> DEFINE k == client[m]
             Back(c) == /\ c \in Client /\ c.gen = k.gen
                        /\ (c.st = k.st /\ c.map = k.map) \/ (c.st # "stable" /\ c.map = Empty)
  <1>1. ClientInv(k, gen, asg) /\ k \in Client
    BY Zenon DEF IInv, ClientInv
  <1>2. Empty \in Maps
    <2>1. Empty \in [{} -> Topics] /\ {} \in SUBSET Members
      BY DEF Empty
    <2> QED BY <2>1 DEF Maps
  <1> HIDE DEF k
  <1>3. /\ Back([k EXCEPT !.on = Nobody])
        /\ Back([k EXCEPT !.st = "out", !.map = Empty, !.on = Nobody])
        /\ Back([k EXCEPT !.st = "gone", !.map = Empty, !.on = Nobody])
    BY <1>1, <1>2 DEF Client
  <1>4. /\ Back([[k EXCEPT !.on = Nobody] EXCEPT !.st = "out", !.map = Empty])
        /\ Back([[k EXCEPT !.on = Nobody] EXCEPT !.st = "gone", !.map = Empty])
    BY <1>1, <1>2 DEF Client
  <1>5. Back(Proceed(m)) /\ Back(Rejoin(m)) /\ Back(Unknown(m))
    BY <1>3, Zenon DEF Proceed, Rejoin, Unknown, k
  <1>6. Back(Interrupted(m, op))
    <2>1. CASE op \in {"join", "sync"}
      BY <1>4, <2>1 DEF Interrupted, k
    <2>2. CASE op = "leave"
      BY <1>4, <2>2 DEF Interrupted, k
    <2>3. CASE op \notin {"join", "sync"} /\ op # "leave"
      BY <1>3, <2>3 DEF Interrupted, k
    <2> QED BY <2>1, <2>2, <2>3, Zenon
  <1>7. ASSUME NEW c, Back(c) PROVE ClientInv(c, gen, asg)
    BY <1>1, <1>7, ClientBack, Zenon
  <1> QED BY <1>5, <1>6, <1>7, Zenon

\* An answer, where the generation and the assignments stay as they are.
LEMMA AnswerHolds ==
    ASSUME IInv, NEW r \in Requests, NEW c, Answer(r, c), ClientInv(c, gen, asg),
           gen' = gen, asg' = asg, top' = top,
           DocInv(doc'), want' \in [Members -> Topics], budget' \in [Events -> Nat]
    PROVE  IInv'
  <1>1. ReqInv(Idle(r), Owner[r], gen, asg, top)
    BY IdleInv, Zenon DEF IInv
  <1>2. Owner[r] \in Members
    BY GroupAssumption, Zenon
  <1>3. client' = client \/ client' = [client EXCEPT ![Owner[r]] = c]
    BY Zenon DEF Answer
  <1> QED BY <1>1, <1>2, <1>3, StepQuiet, Zenon DEF Answer

\* What the actions write of a request, as one record.
LEMMA GotoIs ==
    ASSUME IInv, NEW r \in Requests, NEW l \in ControlPoints, Goto(r, l)
    PROVE  \E p \in Request :
              /\ req' = [req EXCEPT ![r] = p] /\ p.pc = l
              /\ p = [req[r] EXCEPT !.pc = l]
  <1> DEFINE p == [req[r] EXCEPT !.pc = l]
  <1>1. req[r] \in Request
    BY Zenon DEF IInv
  <1>2. p \in Request /\ p.pc = l
    BY <1>1 DEF Request
  <1>3. req' = [req EXCEPT ![r] = p]
    BY DEF Goto
  <1> QED BY <1>2, <1>3

\* A request that moves on with what it has read.
LEMMA GotoHolds ==
    ASSUME IInv, NEW r \in Requests, NEW l \in ControlPoints \ (Writing \cup Sweeping),
           Goto(r, l), req[r].pc \notin {"idle", "read"},
           gen' = gen, asg' = asg, top' = top, client' = client,
           DocInv(doc'), want' \in [Members -> Topics], budget' \in [Events -> Nat]
    PROVE  IInv'
  <1>1. PICK p \in Request : /\ req' = [req EXCEPT ![r] = p] /\ p.pc = l
                             /\ p = [req[r] EXCEPT !.pc = l]
    BY GotoIs, Zenon
  <1>2. /\ ReqInv(req[r], Owner[r], gen, asg, top) /\ req[r] \in Request
        /\ GenInv(gen) /\ TopInv(top, gen, asg) /\ Owner[r] \in Members
    BY GroupAssumption, Zenon DEF IInv
  <1>3. /\ p.gen = req[r].gen /\ p.map = req[r].map /\ p.seen = req[r].seen
        /\ p.view = req[r].view
    BY <1>1, <1>2 DEF Request
  <1>4. ReqInv(p, Owner[r], gen, asg, top)
    BY <1>1, <1>2, <1>3, Advance, Zenon DEF Writing
  <1> QED BY <1>1, <1>2, <1>4, StepQuiet, Zenon

\* A request that goes on with the generation as it is.
LEMMA SeeHolds ==
    ASSUME IInv, NEW r \in Requests, NEW l \in ControlPoints \ Writing,
           See(r, gen, l), l \in Sweeping => gen.seq # 0,
           gen' = gen, asg' = asg, top' = top, client' = client,
           DocInv(doc'), want' \in [Members -> Topics], budget' \in [Events -> Nat]
    PROVE  IInv'
  <1>1. /\ ReqInv(req[r], Owner[r], gen, asg, top) /\ req[r] \in Request
        /\ GenInv(gen) /\ TopInv(top, gen, asg) /\ Owner[r] \in Members
        /\ req \in [Requests -> Request]
    BY GroupAssumption, Zenon DEF IInv
  <1>2. gen \in GenerationDoc
    BY <1>1, Zenon DEF GenInv
  <1> DEFINE p == [req[r] EXCEPT !.view = gen, !.pc = l]
  <1>3. req' = [req EXCEPT ![r] = p]
    BY <1>1 DEF See
  <1>4. /\ p \in Request /\ p.pc = l /\ p.view = gen
        /\ p.gen = req[r].gen /\ p.map = req[r].map /\ p.seen = req[r].seen
    BY <1>1, <1>2 DEF Request
  <1> HIDE DEF p
  <1>5. ReqInv(p, Owner[r], gen, asg, top)
    BY <1>1, <1>3, <1>4, Advance, Zenon DEF Writing
  <1> QED BY <1>1, <1>3, <1>5, StepQuiet, Zenon

\* A request that has moved the generation, and goes on with what it wrote.
LEMMA SeeMoved ==
    ASSUME IInv, NEW r \in Requests, NEW l \in ControlPoints \ Writing,
           See(r, gen', l), Moves(gen, gen'), asg' = asg, top' = top, client' = client,
           doc' = doc, want' = want, budget' \in [Events -> Nat]
    PROVE  IInv'
  <1>1. /\ ReqInv(req[r], Owner[r], gen, asg, top) /\ req[r] \in Request
        /\ GenInv(gen) /\ TopInv(top, gen, asg) /\ AsgInv(gen, asg) /\ Owner[r] \in Members
        /\ DocInv(doc') /\ want' \in [Members -> Topics] /\ req \in [Requests -> Request]
    BY GroupAssumption, Zenon DEF IInv
  <1>2. gen' \in GenerationDoc /\ GenInv(gen')
    BY <1>1, Zenon DEF GenInv, Moves
  <1> DEFINE p == [req[r] EXCEPT !.view = gen', !.pc = l]
  <1>3. req' = [req EXCEPT ![r] = p]
    BY <1>1 DEF See
  <1>4. /\ p \in Request /\ p.pc = l /\ p.view = gen'
        /\ p.gen = req[r].gen /\ p.map = req[r].map /\ p.seen = req[r].seen
    BY <1>1, <1>2 DEF Request
  <1> HIDE DEF p
  <1>5. ReqInv(req[r], Owner[r], gen', asg, top) /\ TopInv(top, gen', asg)
    BY <1>1, ReqMoves, AsgMoves, Zenon
  <1>6. p.view.seq # 0
    <2>1. gen'.seq > gen.seq /\ gen.seq \in Nat /\ gen'.seq \in Nat
      BY <1>1, <1>2 DEF Moves, GenInv, GenerationDoc
    <2> QED BY <1>4, <2>1
  <1>7. ReqInv(p, Owner[r], gen', asg, top)
    BY <1>2, <1>3, <1>4, <1>5, <1>6, Advance, Zenon DEF Writing
  <1> QED BY <1>1, <1>3, <1>7, StepOne, Zenon

\* Where a request goes after its sweep.
LEMMA HandlerType ==
    ASSUME NEW op \in Kinds
    PROVE  /\ Handler(op) \in ControlPoints \ Writing
           /\ Handler(op) \notin {"idle", "read"} \cup Sweeping
  BY DEF Kinds, Handler, ControlPoints, Sweeping, Writing

\* Spending leaves a budget.
LEMMA SpendType ==
    ASSUME IInv, NEW e \in Events, Spend(e)
    PROVE  budget' \in [Events -> Nat]
  <1>1. budget \in [Events -> Nat]
    BY Zenon DEF IInv
  <1> QED BY <1>1 DEF Spend

\* What becomes of the member documents.
LEMMA DocTypes ==
    ASSUME IInv, NEW m \in Members, NEW t \in Topics, NEW S
    PROVE  /\ DocInv(With(doc, m, [subs |-> t, live |-> TRUE]))
           /\ DocInv(Without(doc, S))
           /\ Renew(m) => DocInv(doc')
           /\ m \in DOMAIN doc => DocInv([doc EXCEPT ![m].live = FALSE])
  <1>1. DOMAIN doc \subseteq Members /\ \A k \in DOMAIN doc : doc[k] \in MemberDoc
    BY Zenon DEF IInv, DocInv
  <1>2. [subs |-> t, live |-> TRUE] \in MemberDoc
    BY DEF MemberDoc
  <1>3. DocInv(With(doc, m, [subs |-> t, live |-> TRUE]))
    BY <1>1, <1>2, Zenon DEF With, DocInv
  <1>4. DocInv(Without(doc, S))
    BY <1>1, Zenon DEF Without, DocInv
  <1>5. ASSUME m \in DOMAIN doc, NEW b \in BOOLEAN
        PROVE  DocInv([doc EXCEPT ![m].live = b])
    <2>1. [doc[m] EXCEPT !.live = b] \in MemberDoc
      BY <1>1, <1>5 DEF MemberDoc
    <2> QED BY <1>1, <2>1, Zenon DEF DocInv
  <1>6. Renew(m) => DocInv(doc')
    BY <1>1, <1>5, Zenon DEF Renew, DocInv
  <1> QED BY <1>3, <1>4, <1>5, <1>6, Zenon

-----------------------------------------------------------------------------
(* One lemma per action: clients.                                          *)

\* A request says what its client knows.
LEMMA SendHolds ==
    ASSUME IInv, NEW m \in Members, NEW r \in Requests, NEW op \in Kinds,
           NEW t \in Topics, NEW f, Send(m, r, op, t, f), budget' \in [Events -> Nat],
           f = Empty \/ (f = client[m].map /\ client[m].st # "stable")
    PROVE  IInv'
  <1> DEFINE k == client[m]
             q == req[r]
             p == [q EXCEPT !.pc = "read", !.op = op, !.gen = k.gen, !.subs = t,
                            !.map = f, !.seen = top]
             c == [k EXCEPT !.on = r]
  <1>1. /\ ReqInv(q, Owner[r], gen, asg, top) /\ q \in Request
        /\ ClientInv(k, gen, asg) /\ k \in Client
        /\ GenInv(gen) /\ TopInv(top, gen, asg) /\ DocInv(doc) /\ want \in [Members -> Topics]
    BY Zenon DEF IInv
  <1>2. req' = [req EXCEPT ![r] = p] /\ client' = [client EXCEPT ![m] = c]
    BY DEF Send
  <1>3. gen' = gen /\ doc' = doc /\ asg' = asg /\ want' = want /\ top' = top
    BY Zenon DEF Send
  <1> HIDE DEF k, q
  <1>4. Empty \in Maps /\ DOMAIN Empty = {}
    <2>1. Empty \in [{} -> Topics] /\ {} \in SUBSET Members
      BY DEF Empty
    <2> QED BY <2>1 DEF Maps, Empty
  <1>5. f \in Maps /\ k.gen \in Int /\ k.gen <= gen.id /\ top \in Int
    <2>1. k.map \in Maps /\ k.gen \in Int
      BY <1>1 DEF Client
    <2> QED BY <1>1, <1>4, <2>1, Zenon DEF ClientInv, TopInv, k
  <1>6. k.gen = gen.id => DOMAIN f \in {{}, gen.members}
    BY <1>1, <1>4, Zenon DEF ClientInv, k
  <1>7. /\ p \in Request /\ p.pc = "read" /\ p.gen = k.gen /\ p.map = f /\ p.seen = top
        /\ p.view = q.view
    BY <1>1, <1>5 DEF Request, ControlPoints
  <1>8. c \in Client /\ c.gen = k.gen /\ c.st = k.st /\ c.map = k.map
    BY <1>1 DEF Client
  <1> HIDE DEF p, c
  <1>9. top <= top
    BY <1>5
  <1>10. ReqInv(p, Owner[r], gen, asg, top)
    BY <1>1, <1>5, <1>6, <1>7, <1>9, Zenon DEF ReqInv, TopInv, Sweeping
  <1>11. ClientInv(c, gen, asg)
    BY <1>1, <1>8, ClientBack, Zenon
  <1> QED BY <1>1, <1>2, <1>3, <1>10, <1>11, StepQuiet, Zenon

\* Every request a client sends.
LEMMA SendsHold ==
    ASSUME IInv, NEW m \in Members, NEW r \in Requests,
           SendJoin(m, r) \/ SendSync(m, r) \/ SendHeartbeat(m, r) \/ SendCommit(m, r)
              \/ SendLeave(m, r)
    PROVE  IInv'
  <1>1. want[m] \in Topics /\ First[m] \in Topics /\ budget \in [Events -> Nat]
    BY GroupAssumption, Zenon DEF IInv
  <1>2. /\ "join" \in Kinds /\ "sync" \in Kinds /\ "heartbeat" \in Kinds
        /\ "commit" \in Kinds /\ "leave" \in Kinds /\ "commit" \in Events /\ "leave" \in Events
    BY Zenon DEF Kinds, Events
  <1>3. CASE SendJoin(m, r)
    BY <1>1, <1>2, <1>3, SendHolds, Zenon DEF SendJoin
  <1>4. CASE SendSync(m, r)
    <2>1. client[m].st # "stable" /\ budget' = budget /\ Send(m, r, "sync", First[m], client[m].map)
      BY <1>4 DEF SendSync
    <2> QED BY <1>1, <1>2, <2>1, SendHolds, Zenon
  <1>5. CASE SendHeartbeat(m, r)
    BY <1>1, <1>2, <1>5, SendHolds, Zenon DEF SendHeartbeat
  <1>6. CASE SendCommit(m, r)
    BY <1>1, <1>2, <1>6, SendHolds, SpendType, Zenon DEF SendCommit
  <1>7. CASE SendLeave(m, r)
    BY <1>1, <1>2, <1>7, SendHolds, SpendType, Zenon DEF SendLeave
  <1> QED BY <1>3, <1>4, <1>5, <1>6, <1>7, Zenon

\* The client that resubscribes or stops listening, and the member that lapses.
LEMMA ClientsHold ==
    ASSUME IInv, NEW m \in Members,
           Resubscribe(m) \/ LoseAnswer(m) \/ Lapse(m)
    PROVE  IInv'
  <1>2. /\ ClientInv(client[m], gen, asg) /\ client[m] \in Client /\ DocInv(doc)
        /\ want \in [Members -> Topics] /\ client \in [Members -> Client]
    BY Zenon DEF IInv
  <1>3. "change" \in Events /\ "lose" \in Events /\ "lapse" \in Events
    BY Zenon DEF Events
  <1>4. CASE Resubscribe(m)
    <2> DEFINE c == [client[m] EXCEPT !.st = "out", !.map = Empty]
    <2>1. Empty \in Maps
      <3>1. Empty \in [{} -> Topics] /\ {} \in SUBSET Members
        BY DEF Empty
      <3> QED BY <3>1 DEF Maps
    <2>2. c \in Client /\ c.gen = client[m].gen /\ c.st # "stable" /\ c.map = Empty
      BY <1>2, <2>1 DEF Client
    <2>3. client' = [client EXCEPT ![m] = c]
      BY <1>2, <1>4 DEF Resubscribe
    <2> HIDE DEF c
    <2>4. ClientInv(c, gen, asg)
      BY <1>2, <2>2, ClientBack, Zenon
    <2>5. want' \in [Members -> Topics]
      BY <1>2, <1>4, Zenon DEF Resubscribe
    <2>6. budget' \in [Events -> Nat]
      BY <1>3, <1>4, SpendType, Zenon DEF Resubscribe
    <2> QED BY <1>2, <1>4, <2>3, <2>4, <2>5, <2>6, StepQuiet, Zenon DEF Resubscribe
  <1>5. CASE LoseAnswer(m)
    <2>1. ClientInv(Interrupted(m, req[client[m].on].op), gen, asg)
      BY Answers, Zenon
    <2>2. budget' \in [Events -> Nat]
      BY <1>3, <1>5, SpendType, Zenon DEF LoseAnswer
    <2> QED BY <1>2, <1>5, <2>1, <2>2, StepQuiet, Zenon DEF LoseAnswer
  <1>6. CASE Lapse(m)
    <2>1. budget' \in [Events -> Nat]
      BY <1>3, <1>6, SpendType, Zenon DEF Lapse
    <2>2. want[m] \in Topics
      BY <1>2, Zenon
    <2>3. DocInv(doc')
      BY <1>6, <2>2, DocTypes, Zenon DEF Lapse
    <2> QED BY <1>2, <1>6, <2>1, <2>3, StepQuiet, Zenon DEF Lapse
  <1> QED BY <1>4, <1>5, <1>6, Zenon

-----------------------------------------------------------------------------
(* One lemma per action: the moves of the generation.                      *)

\* What Rebalanced and Bumped change of a generation.json.
LEMMA Writes ==
    ASSUME NEW w \in GenerationDoc
    PROVE  /\ Rebalanced(w) \in GenerationDoc /\ Rebalanced(w).seq = w.seq
           /\ Rebalanced(w).id = w.id + 1 /\ Rebalanced(w).leader = w.leader
           /\ Rebalanced(w).members = w.members
           /\ Bumped(w) \in GenerationDoc /\ Bumped(w).seq = w.seq + 1 /\ Bumped(w).id = w.id
           /\ Bumped(w).leader = w.leader /\ Bumped(w).members = w.members
  BY DEF Rebalanced, Bumped, GenerationDoc

\* The two together: a new composition is written.
LEMMA WritesBoth ==
    ASSUME NEW w \in GenerationDoc
    PROVE  LET n == Bumped(Rebalanced(w))
           IN  /\ n \in GenerationDoc /\ n.seq = w.seq + 1 /\ n.id = w.id + 1
               /\ n.leader = w.leader /\ n.members = w.members
  <1> DEFINE v == Rebalanced(w)
             n == Bumped(v)
  <1>1. /\ v \in GenerationDoc /\ v.seq = w.seq /\ v.id = w.id + 1
        /\ v.leader = w.leader /\ v.members = w.members
    BY Writes, Zenon
  <1> HIDE DEF v
  <1>2. /\ n \in GenerationDoc /\ n.seq = v.seq + 1 /\ n.id = v.id
        /\ n.leader = v.leader /\ n.members = v.members
    BY <1>1, Writes, Zenon
  <1> HIDE DEF n
  <1>3. /\ n \in GenerationDoc /\ n.seq = w.seq + 1 /\ n.id = w.id + 1
        /\ n.leader = w.leader /\ n.members = w.members
    BY <1>1, <1>2
  <1> QED BY <1>3 DEF n, v

\* Each write of generation.json is a move.
LEMMA WritesMove ==
    ASSUME IInv, NEW ids, NEW m \in Members
    PROVE  /\ gen.seq > 0 => Moves(gen, Bumped(gen))
           /\ gen.seq > 0 => Moves(gen, Evicted(gen, ids))
           /\ m \in gen.members => Moves(gen, Left(gen, m))
  <1>1. gen \in GenerationDoc /\ GenInv(gen)
    BY Zenon DEF IInv, GenInv
  <1>2. /\ gen.seq \in Nat /\ gen.id \in Int /\ gen.leader \in Members \cup {Nobody}
        /\ gen.members \subseteq Members
    BY <1>1 DEF GenerationDoc
  <1>3. gen.seq # 0 => gen.id >= 0
    BY <1>1, Zenon DEF GenInv
  <1>4. gen.leader = Nobody \/ gen.leader \in gen.members
    BY <1>1, Zenon DEF GenInv
  <1>5. m \in gen.members => gen.seq > 0
    <2>1. NoGroup.members = {}
      BY DEF NoGroup
    <2>2. gen.seq = 0 => gen.members = {}
      BY <1>1, <2>1, Zenon DEF GenInv
    <2> QED BY <1>2, <2>2
  <1>6. ASSUME gen.seq > 0 PROVE Moves(gen, Bumped(gen))
    <2> DEFINE h == Bumped(gen)
    <2>1. /\ h \in GenerationDoc /\ h.seq = gen.seq + 1 /\ h.id = gen.id
          /\ h.leader = gen.leader /\ h.members = gen.members
      BY <1>1 DEF Bumped, GenerationDoc
    <2> HIDE DEF h
    <2>2. h.seq # 0 /\ h.seq > gen.seq /\ h.id >= gen.id /\ h.id >= 0
      BY <1>2, <1>3, <1>6, <2>1
    <2>3. Moves(gen, h)
      BY <1>4, <2>1, <2>2, Zenon DEF Moves, GenInv
    <2> QED BY <2>3 DEF h
  <1>7. ASSUME gen.seq > 0 PROVE Moves(gen, Evicted(gen, ids))
    <2> DEFINE h == Evicted(gen, ids)
    <2>1. /\ h \in GenerationDoc /\ h.seq = gen.seq + 1 /\ h.id = gen.id + 1
          /\ h.leader = Nobody
      <3> DEFINE S == gen.members \ ids
                 w == [gen EXCEPT !.members = S, !.leader = Nobody]
      <3>1. S \in SUBSET Members
        BY <1>2, Zenon
      <3>5. Evicted(gen, ids) = Bumped(Rebalanced(w))
        BY DEF Evicted
      <3> HIDE DEF S
      <3>2. w \in GenerationDoc /\ w.seq = gen.seq /\ w.id = gen.id /\ w.leader = Nobody
        BY <1>1, <3>1 DEF GenerationDoc
      <3> HIDE DEF w
      <3>3. Bumped(Rebalanced(w)) \in GenerationDoc
        BY <3>2, WritesBoth
      <3>4. /\ Bumped(Rebalanced(w)).seq = w.seq + 1 /\ Bumped(Rebalanced(w)).id = w.id + 1
            /\ Bumped(Rebalanced(w)).leader = w.leader
        BY <3>2, WritesBoth
      <3> QED BY <3>2, <3>3, <3>4, <3>5, Zenon
    <2> HIDE DEF h
    <2>2. h.seq # 0 /\ h.seq > gen.seq /\ h.id >= gen.id /\ h.id >= 0 /\ h.id # gen.id
      BY <1>2, <1>3, <1>7, <2>1
    <2>3. Moves(gen, h)
      BY <2>1, <2>2, Zenon DEF Moves, GenInv
    <2> QED BY <2>3 DEF h
  <1>8. ASSUME m \in gen.members PROVE Moves(gen, Left(gen, m))
    <2> DEFINE h == Left(gen, m)
    <2>1. /\ h \in GenerationDoc /\ h.seq = gen.seq + 1 /\ h.id = gen.id + 1
          /\ h.members = gen.members \ {m}
          /\ h.leader = IF gen.leader = m THEN Nobody ELSE gen.leader
      <3> DEFINE S == gen.members \ {m}
                 l == IF gen.leader = m THEN Nobody ELSE gen.leader
                 w == [gen EXCEPT !.members = S, !.leader = l]
      <3>1. S \in SUBSET Members /\ l \in Members \cup {Nobody}
        BY <1>2, Zenon
      <3>5. Left(gen, m) = Bumped(Rebalanced(w))
        BY DEF Left
      <3> HIDE DEF S, l
      <3>2. /\ w \in GenerationDoc /\ w.seq = gen.seq /\ w.id = gen.id
            /\ w.members = S /\ w.leader = l
        BY <1>1, <3>1 DEF GenerationDoc
      <3> HIDE DEF w
      <3>3. Bumped(Rebalanced(w)) \in GenerationDoc
        BY <3>2, WritesBoth
      <3>4. /\ Bumped(Rebalanced(w)).seq = w.seq + 1 /\ Bumped(Rebalanced(w)).id = w.id + 1
            /\ Bumped(Rebalanced(w)).leader = w.leader
            /\ Bumped(Rebalanced(w)).members = w.members
        BY <3>2, WritesBoth
      <3> QED BY <3>2, <3>3, <3>4, <3>5, Zenon DEF S, l
    <2> HIDE DEF h
    <2>2. h.seq # 0 /\ h.seq > gen.seq /\ h.id >= gen.id /\ h.id >= 0 /\ h.id # gen.id
      BY <1>2, <1>3, <1>5, <1>8, <2>1
    <2>3. h.leader = Nobody \/ h.leader \in h.members
      BY <1>4, <2>1, Zenon
    <2>4. Moves(gen, h)
      BY <2>1, <2>2, <2>3, Zenon DEF Moves, GenInv
    <2> QED BY <2>4 DEF h
  <1> QED BY <1>6, <1>7, <1>8, Zenon

\* So is the one of a join, when what it read is still there.
LEMMA JoinMoves ==
    ASSUME IInv, NEW r \in Requests, req[r].pc = "cas", Current(r)
    PROVE  Moves(gen, Joined(r))
  <1> DEFINE m == Owner[r]
             v == req[r].view
             ids == req[r].ids
             w == [v EXCEPT !.members = @ \cup {m} \cup ids]
  <1>1. /\ ReqInv(req[r], m, gen, asg, top) /\ req[r] \in Request /\ m \in Members
        /\ GenInv(gen) /\ gen \in GenerationDoc
    BY GroupAssumption, Zenon DEF IInv, GenInv
  <1>2. v = gen
    BY <1>1, Zenon DEF ReqInv, Read, Current
  <1>3. ids \in SUBSET Members /\ req[r].changed \in BOOLEAN
    BY <1>1 DEF Request
  <1>4. req[r].changed \/ m \in v.members
    BY <1>1, Zenon DEF ReqInv
  <1>5. /\ gen.seq \in Nat /\ gen.id \in Int /\ gen.leader \in Members \cup {Nobody}
        /\ gen.members \subseteq Members
    BY <1>1 DEF GenerationDoc
  <1>6. Nobody \notin Members /\ gen.id >= -1
    <2>1. gen.seq = 0 => gen.id = -1
      BY <1>1 DEF GenInv, NoGroup
    <2>2. gen.seq # 0 => gen.id >= 0
      BY <1>1, Zenon DEF GenInv
    <2> QED BY <1>5, <2>1, <2>2, GroupAssumption DEF Nobody
  <1>7. gen.leader = Nobody \/ gen.leader \in gen.members
    BY <1>1, Zenon DEF GenInv
  <1> DEFINE n == IF req[r].changed THEN Rebalanced(w) ELSE v
             h == Bumped(IF n.leader \in n.members THEN n ELSE [n EXCEPT !.leader = m])
  <1>8. Joined(r) = h
    BY Zenon DEF Joined
  <1>9. /\ n \in GenerationDoc /\ n.seq = gen.seq /\ n.leader = gen.leader
        /\ m \in n.members /\ gen.members \subseteq n.members
        /\ n.id = gen.id \/ n.id = gen.id + 1
        /\ n.id = gen.id => n = gen
    <2>1. CASE req[r].changed
      <3>1. /\ Rebalanced(w) \in GenerationDoc /\ Rebalanced(w).seq = gen.seq
            /\ Rebalanced(w).leader = gen.leader /\ Rebalanced(w).id = gen.id + 1
            /\ Rebalanced(w).members = gen.members \cup {m} \cup ids
        <4>1. gen.members \cup {m} \cup ids \in SUBSET Members
          BY <1>1, <1>3, <1>5, Zenon
        <4>2. /\ w \in GenerationDoc /\ w.seq = gen.seq /\ w.id = gen.id
              /\ w.leader = gen.leader /\ w.members = gen.members \cup {m} \cup ids
          BY <1>1, <1>2, <4>1 DEF GenerationDoc
        <4> HIDE DEF w
        <4> QED BY <4>2 DEF Rebalanced, GenerationDoc
      <3>2. gen.id + 1 # gen.id
        BY <1>5
      <3> QED BY <2>1, <3>1, <3>2
    <2>2. CASE ~ req[r].changed
      BY <1>1, <1>2, <1>4, <2>2
    <2> QED BY <2>1, <2>2, Zenon
  <1> HIDE DEF n
  <1>10. /\ h \in GenerationDoc /\ h.seq = gen.seq + 1 /\ h.id = n.id /\ h.members = n.members
         /\ h.leader = IF n.leader \in n.members THEN n.leader ELSE m
    BY <1>1, <1>9 DEF Bumped, GenerationDoc
  <1> HIDE DEF h
  <1>11. h.seq # 0 /\ h.seq > gen.seq /\ h.id >= gen.id
    BY <1>5, <1>9, <1>10
  <1>12. h.id >= 0
    <2>1. CASE n.id = gen.id + 1
      BY <1>5, <1>6, <1>10, <2>1
    <2>2. CASE n.id = gen.id
      <3>1. m \in gen.members
        BY <1>9, <2>2, Zenon
      <3>2. NoGroup.members = {}
        BY DEF NoGroup
      <3>3. gen.seq # 0
        BY <1>1, <3>1, <3>2, Zenon DEF GenInv
      <3> QED BY <1>1, <1>10, <2>2, <3>3, Zenon DEF GenInv
    <2> QED BY <1>9, <2>1, <2>2, Zenon
  <1>13. h.leader \in h.members
    BY <1>9, <1>10, Zenon
  <1>14. h.id = gen.id /\ gen.leader # Nobody => h.leader = gen.leader
    BY <1>7, <1>9, <1>10, Zenon
  <1>15. h.id = gen.id => h.members = gen.members
    BY <1>9, <1>10, Zenon
  <1>16. GenInv(h)
    BY <1>10, <1>11, <1>12, <1>13, Zenon DEF GenInv
  <1> QED BY <1>8, <1>11, <1>14, <1>15, <1>16, Zenon DEF Moves

-----------------------------------------------------------------------------
(* One lemma per action: the steps of a request.                           *)

\* What a step that leaves want and budget alone may rely on.
LEMMA Facts ==
    ASSUME IInv, NEW r \in Requests
    PROVE  /\ ReqInv(req[r], Owner[r], gen, asg, top) /\ req[r] \in Request
           /\ req[r].op \in Kinds /\ req[r].view \in GenerationDoc /\ req[r].gen \in Int
           /\ Read(req[r].view, gen) /\ GenInv(gen) /\ gen \in GenerationDoc
           /\ TopInv(top, gen, asg) /\ AsgInv(gen, asg) /\ DocInv(doc)
           /\ Owner[r] \in Members /\ want \in [Members -> Topics]
           /\ budget \in [Events -> Nat] /\ req \in [Requests -> Request]
  <1>1. req[r] \in Request
    BY Zenon DEF IInv
  <1>2. req[r].op \in Kinds /\ req[r].view \in GenerationDoc /\ req[r].gen \in Int
    BY <1>1 DEF Request
  <1> QED BY <1>1, <1>2, GroupAssumption, Zenon DEF IInv, ReqInv, GenInv

\* A generation that names a member has been written.
LEMMA NamesSomebody ==
    ASSUME NEW g, GenInv(g), g.members # {}
    PROVE  g.seq # 0 /\ g.id >= 0
  <1>1. NoGroup.members = {}
    BY DEF NoGroup
  <1> QED BY <1>1, Zenon DEF GenInv

\* read_view, and the decision to sweep.
LEMMA ReadViewHolds ==
    ASSUME IInv, NEW r \in Requests, ReadView(r)
    PROVE  IInv'
  <1>1. /\ gen' = gen /\ asg' = asg /\ top' = top /\ client' = client
        /\ DocInv(doc') /\ want' \in [Members -> Topics] /\ budget' \in [Events -> Nat]
    BY Facts, Zenon DEF ReadView
  <1>2. CASE See(r, gen, Handler(req[r].op))
    BY <1>1, <1>2, Facts, HandlerType, SeeHolds, Zenon
  <1>3. CASE gen.members # {} /\ See(r, gen, "claim")
    <2>1. gen.seq # 0
      BY <1>3, Facts, NamesSomebody, Zenon
    <2>2. "claim" \in ControlPoints \ Writing
      BY DEF ControlPoints, Writing
    <2> QED BY <1>1, <1>3, <2>1, <2>2, SeeHolds, Zenon
  <1> QED BY <1>2, <1>3, Zenon DEF ReadView

\* A request that dies.
LEMMA FailHolds ==
    ASSUME IInv, NEW r \in Requests, Fail(r)
    PROVE  IInv'
  <1>1. "fail" \in Events
    BY Zenon DEF Events
  <1>2. budget' \in [Events -> Nat]
    BY <1>1, SpendType, Zenon DEF Fail
  <1>3. Owner[r] \in Members /\ DocInv(doc) /\ want \in [Members -> Topics]
    BY Facts, Zenon
  <1>4. ClientInv(Interrupted(Owner[r], req[r].op), gen, asg)
    BY <1>3, Answers, Zenon
  <1> QED BY <1>2, <1>3, <1>4, AnswerHolds, Zenon DEF Fail

\* The sweep's claim.
LEMMA SweepClaimHolds ==
    ASSUME IInv, NEW r \in Requests, SweepClaim(r)
    PROVE  IInv'
  <1>1. "sweep" \in Events
    BY Zenon DEF Events
  <1>2. /\ asg' = asg /\ top' = top /\ client' = client /\ doc' = doc /\ want' = want
        /\ DocInv(doc') /\ want' \in [Members -> Topics] /\ budget' \in [Events -> Nat]
    BY <1>1, Facts, SpendType, Zenon DEF SweepClaim
  <1>3. CASE Current(r)
    <2>1. req[r].view.seq # 0 /\ req[r].view.seq = gen.seq /\ gen.seq \in Nat
      <3>1. gen.seq \in Nat
        BY Facts DEF GenerationDoc
      <3> QED BY <1>3, <3>1, Facts, Zenon DEF SweepClaim, ReqInv, Sweeping, Current
    <2>2. gen.seq > 0
      BY <2>1
    <2>3. Moves(gen, Bumped(gen))
      BY <2>2, Facts, WritesMove, Zenon
    <2>4. "verdict" \in ControlPoints \ Writing
      BY DEF ControlPoints, Writing
    <2>5. gen' = Bumped(gen) /\ See(r, gen', "verdict")
      BY <1>3, Zenon DEF SweepClaim
    <2>6. Moves(gen, gen')
      BY <2>3, <2>5, Zenon
    <2> QED BY <1>2, <2>4, <2>5, <2>6, SeeMoved, Zenon
  <1>4. CASE ~ Current(r)
    <2>1. gen' = gen /\ See(r, gen, Handler(req[r].op))
      BY <1>4, Zenon DEF SweepClaim
    <2> QED BY <1>2, <2>1, Facts, HandlerType, SeeHolds, Zenon
  <1> QED BY <1>3, <1>4, Zenon

\* The sweep's verdict on the members.
LEMMA SweepVerdictHolds ==
    ASSUME IInv, NEW r \in Requests, SweepVerdict(r)
    PROVE  IInv'
  <1> DEFINE q == req[r]
             lapsed == {m \in q.view.members : m \in DOMAIN doc => ~ doc[m].live}
  <1>0. PICK unread \in SUBSET q.view.members :
          /\ IF unread = {} THEN UNCHANGED budget ELSE Spend("fail")
          /\ IF lapsed \cup unread = {} THEN Goto(r, Handler(q.op))
             ELSE req' = [req EXCEPT ![r].ids = lapsed \cup unread, ![r].pc = "evict"]
    BY Zenon DEF SweepVerdict
  <1> DEFINE expired == lapsed \cup unread
             p == [q EXCEPT !.ids = expired, !.pc = "evict"]
  <1>1. /\ gen' = gen /\ asg' = asg /\ top' = top /\ client' = client
        /\ DocInv(doc') /\ want' \in [Members -> Topics] /\ q.pc = "verdict"
    BY Facts, Zenon DEF SweepVerdict
  <1>4. "fail" \in Events
    BY DEF Events
  <1>5. budget' \in [Events -> Nat]
    BY <1>0, <1>4, Facts, SpendType, Zenon
  <1>2. CASE Goto(r, Handler(q.op))
    <2>1. Handler(q.op) \in ControlPoints \ (Writing \cup Sweeping)
      BY Facts, HandlerType, Zenon
    <2>2. q.pc \notin {"idle", "read"}
      BY <1>1, Zenon
    <2> QED BY <1>1, <1>2, <1>5, <2>1, <2>2, GotoHolds, Zenon
  <1>3. CASE req' = [req EXCEPT ![r].ids = expired, ![r].pc = "evict"]
    <2>1. expired \in SUBSET Members
      BY Facts DEF GenerationDoc
    <2>2. req \in [Requests -> Request] /\ q \in Request
      BY Facts, Zenon
    <2> HIDE DEF expired
    <2>3. req' = [req EXCEPT ![r] = p]
      BY <1>3, <2>2
    <2>4. /\ p \in Request /\ p.pc = "evict" /\ p.view = q.view
          /\ p.gen = q.gen /\ p.map = q.map /\ p.seen = q.seen
      BY <2>1, <2>2 DEF Request, ControlPoints
    <2> HIDE DEF p
    <2>5. q.view.seq # 0
      BY <1>1, Facts, Zenon DEF ReqInv, Sweeping
    <2>6. ReqInv(p, Owner[r], gen, asg, top)
      BY <1>1, <2>4, <2>5, Facts, Advance, Zenon
    <2> QED BY <1>1, <1>5, <2>3, <2>6, Facts, StepQuiet, Zenon
  <1> QED BY <1>0, <1>2, <1>3, Zenon

\* The sweep's eviction.
LEMMA SweepEvictHolds ==
    ASSUME IInv, NEW r \in Requests, SweepEvict(r)
    PROVE  IInv'
  <1>1. /\ asg' = asg /\ top' = top /\ client' = client /\ doc' = doc /\ want' = want
        /\ DocInv(doc') /\ want' \in [Members -> Topics] /\ budget' \in [Events -> Nat]
    BY Facts, Zenon DEF SweepEvict
  <1>2. CASE Current(r)
    <2>1. req[r].view.seq # 0 /\ req[r].view.seq = gen.seq /\ gen.seq \in Nat
      <3>1. gen.seq \in Nat
        BY Facts DEF GenerationDoc
      <3> QED BY <1>2, <3>1, Facts, Zenon DEF SweepEvict, ReqInv, Sweeping, Current
    <2>2. gen.seq > 0
      BY <2>1
    <2>3. Moves(gen, Evicted(gen, req[r].ids))
      BY <2>2, Facts, WritesMove, Zenon
    <2>4. "drop" \in ControlPoints \ Writing
      BY DEF ControlPoints, Writing
    <2>5. gen' = Evicted(gen, req[r].ids) /\ See(r, gen', "drop")
      BY <1>2, Zenon DEF SweepEvict
    <2>6. Moves(gen, gen')
      BY <2>3, <2>5, Zenon
    <2> QED BY <1>1, <2>4, <2>5, <2>6, SeeMoved, Zenon
  <1>3. CASE ~ Current(r)
    <2>1. gen' = gen /\ See(r, gen, Handler(req[r].op))
      BY <1>3, Zenon DEF SweepEvict
    <2> QED BY <1>1, <2>1, Facts, HandlerType, SeeHolds, Zenon
  <1> QED BY <1>2, <1>3, Zenon

\* The documents of the evicted.
LEMMA SweepDropHolds ==
    ASSUME IInv, NEW r \in Requests, SweepDrop(r)
    PROVE  IInv'
  <1>1. PICK S \in SUBSET req[r].ids : doc' = Without(doc, S)
    BY Zenon DEF SweepDrop
  <1>2. Owner[r] \in Members /\ First[Owner[r]] \in Topics
    BY GroupAssumption, Zenon
  <1>3. DocInv(doc')
    BY <1>1, <1>2, DocTypes, Zenon
  <1>4. /\ gen' = gen /\ asg' = asg /\ top' = top /\ client' = client
        /\ want' \in [Members -> Topics] /\ budget' \in [Events -> Nat]
        /\ Goto(r, Handler(req[r].op)) /\ req[r].pc \notin {"idle", "read"}
    BY Facts, Zenon DEF SweepDrop
  <1>5. Handler(req[r].op) \in ControlPoints \ (Writing \cup Sweeping)
    BY Facts, HandlerType, Zenon
  <1> QED BY <1>3, <1>4, <1>5, GotoHolds, Zenon

\* The member document of a join.
LEMMA JoinMemberHolds ==
    ASSUME IInv, NEW r \in Requests, JoinMember(r)
    PROVE  IInv'
  <1> DEFINE m == Owner[r]
             q == req[r]
             v == q.view
             changed == m \notin v.members \/ (m \in DOMAIN doc => doc[m].subs # q.subs)
             l == IF m \notin v.members THEN "admit"
                  ELSE IF changed \/ v.leader \notin v.members THEN "cas" ELSE "decide"
             p == [q EXCEPT !.changed = changed, !.ids = {}, !.pc = l]
  <1>1. /\ gen' = gen /\ asg' = asg /\ top' = top /\ client' = client
        /\ want' \in [Members -> Topics] /\ budget' \in [Events -> Nat]
        /\ q.pc = "member" /\ doc' = With(doc, m, [subs |-> q.subs, live |-> TRUE])
    BY Facts, Zenon DEF JoinMember
  <1>2. req \in [Requests -> Request] /\ q \in Request
    BY Facts, Zenon
  <1>3. q.subs \in Topics /\ changed \in BOOLEAN /\ l \in {"admit", "cas", "decide"}
    BY <1>2 DEF Request
  <1>4. req' = [req EXCEPT ![r].changed = changed, ![r].ids = {}, ![r].pc = l]
    BY Zenon DEF JoinMember
  <1>5. l = "admit" => changed
    BY Zenon
  <1>6. l = "cas" => m \in v.members
    BY Zenon
  <1>7. DocInv(doc')
    BY <1>1, <1>3, Facts, DocTypes, Zenon
  <1> HIDE DEF changed, l
  <1>8. req' = [req EXCEPT ![r] = p]
    BY <1>2, <1>4
  <1>9. /\ p \in Request /\ p.pc = l /\ p.view = v /\ p.changed = changed
        /\ p.gen = q.gen /\ p.map = q.map /\ p.seen = q.seen
    BY <1>2, <1>3 DEF Request, ControlPoints
  <1> HIDE DEF p
  <1>10. ReqInv(p, m, gen, asg, top)
    BY <1>1, <1>3, <1>5, <1>6, <1>9, Facts, Advance, Zenon DEF Sweeping
  <1> QED BY <1>1, <1>7, <1>8, <1>10, Facts, StepQuiet, Zenon

\* The batch a join admits.
LEMMA JoinAdmitHolds ==
    ASSUME IInv, NEW r \in Requests, JoinAdmit(r)
    PROVE  IInv'
  <1> DEFINE q == req[r]
             Pending == {m \in DOMAIN doc \ (q.view.members \cup {Owner[r]}) : doc[m].live}
  <1>1. /\ gen' = gen /\ asg' = asg /\ top' = top /\ client' = client
        /\ DocInv(doc') /\ want' \in [Members -> Topics] /\ budget' \in [Events -> Nat]
        /\ q.pc = "admit"
    BY Facts, Zenon DEF JoinAdmit
  <1>2. PICK S \in SUBSET Pending :
           Goto(r, "read") \/ req' = [req EXCEPT ![r].ids = S, ![r].pc = "cas"]
    BY Zenon DEF JoinAdmit
  <1>3. CASE Goto(r, "read")
    <2>1. "read" \in ControlPoints \ (Writing \cup Sweeping) /\ q.pc \notin {"idle", "read"}
      BY <1>1 DEF ControlPoints, Writing, Sweeping
    <2> QED BY <1>1, <1>3, <2>1, GotoHolds, Zenon
  <1>4. CASE req' = [req EXCEPT ![r].ids = S, ![r].pc = "cas"]
    <2> DEFINE p == [q EXCEPT !.ids = S, !.pc = "cas"]
    <2>1. S \in SUBSET Members
      BY Facts, Zenon DEF DocInv
    <2>2. req \in [Requests -> Request] /\ q \in Request
      BY Facts, Zenon
    <2>3. req' = [req EXCEPT ![r] = p]
      BY <1>4, <2>2
    <2>4. /\ p \in Request /\ p.pc = "cas" /\ p.view = q.view /\ p.changed = q.changed
          /\ p.gen = q.gen /\ p.map = q.map /\ p.seen = q.seen
      BY <2>1, <2>2 DEF Request, ControlPoints
    <2> HIDE DEF p
    <2>5. q.changed \/ Owner[r] \in q.view.members
      BY <1>1, Facts, Zenon DEF ReqInv
    <2>6. ReqInv(p, Owner[r], gen, asg, top)
      BY <1>1, <2>4, <2>5, Facts, Advance, Zenon DEF Sweeping
    <2> QED BY <1>1, <2>3, <2>6, Facts, StepQuiet, Zenon
  <1> QED BY <1>2, <1>3, <1>4, Zenon

\* The generation a join writes.
LEMMA JoinCasHolds ==
    ASSUME IInv, NEW r \in Requests, JoinCas(r)
    PROVE  IInv'
  <1>1. /\ asg' = asg /\ top' = top /\ client' = client /\ doc' = doc /\ want' = want
        /\ DocInv(doc') /\ want' \in [Members -> Topics] /\ budget' \in [Events -> Nat]
        /\ req[r].pc = "cas"
    BY Facts, Zenon DEF JoinCas
  <1>2. CASE Current(r)
    <2>1. "decide" \in ControlPoints \ Writing
      BY DEF ControlPoints, Writing
    <2>2. gen' = Joined(r) /\ See(r, gen', "decide")
      BY <1>2, Zenon DEF JoinCas
    <2>3. Moves(gen, gen')
      BY <1>1, <1>2, <2>2, JoinMoves, Zenon
    <2> QED BY <1>1, <2>1, <2>2, <2>3, SeeMoved, Zenon
  <1>3. CASE ~ Current(r)
    <2>1. gen' = gen /\ Goto(r, "read")
      BY <1>3, Zenon DEF JoinCas
    <2>2. "read" \in ControlPoints \ (Writing \cup Sweeping) /\ req[r].pc \notin {"idle", "read"}
      BY <1>1 DEF ControlPoints, Writing, Sweeping
    <2> QED BY <1>1, <2>1, <2>2, GotoHolds, Zenon
  <1> QED BY <1>2, <1>3, Zenon

\* A join that waits, or is answered as a follower.
LEMMA JoinAnswerHolds ==
    ASSUME IInv, NEW r \in Requests, JoinWait(r) \/ JoinRespond(r)
    PROVE  IInv'
  <1>1. /\ gen' = gen /\ asg' = asg /\ top' = top
        /\ DocInv(doc') /\ want' \in [Members -> Topics] /\ budget' \in [Events -> Nat]
        /\ req[r].pc \notin {"idle", "read"}
    BY Facts, Zenon DEF JoinWait, JoinRespond
  <1>2. "read" \in ControlPoints \ (Writing \cup Sweeping)
        /\ "list" \in ControlPoints \ (Writing \cup Sweeping)
    BY DEF ControlPoints, Writing, Sweeping
  <1>3. CASE (Goto(r, "read") \/ Goto(r, "list")) /\ client' = client
    BY <1>1, <1>2, <1>3, GotoHolds, Zenon
  <1> DEFINE c == [st |-> "joined", gen |-> req[r].view.id, map |-> Empty, on |-> Nobody]
  <1>4. CASE Answer(r, c)
    <2>1. Empty \in Maps /\ DOMAIN Empty = {}
      <3>1. Empty \in [{} -> Topics] /\ {} \in SUBSET Members
        BY DEF Empty
      <3> QED BY <3>1 DEF Maps, Empty
    <2>2. req[r].view.id \in Int
      BY Facts DEF GenerationDoc
    <2>3. c \in Client /\ c.st = "joined" /\ c.gen = req[r].view.id /\ c.map = Empty
      BY <2>1, <2>2 DEF Client
    <2> HIDE DEF c
    <2>4. ClientInv(c, gen, asg)
      BY <2>1, <2>3, Facts, Zenon DEF ClientInv, Read
    <2> QED BY <1>1, <1>4, <2>4, AnswerHolds, Zenon
  <1> QED BY <1>3, <1>4, Zenon DEF JoinWait, JoinRespond

\* The leader's list.
LEMMA JoinMembersHolds ==
    ASSUME IInv, NEW r \in Requests, JoinMembers(r)
    PROVE  IInv'
  <1> DEFINE v == req[r].view
             f == [m \in v.members |-> doc[m].subs]
             c == [st |-> "joined", gen |-> v.id, on |-> Nobody, map |-> f]
  <1>1. /\ gen' = gen /\ asg' = asg /\ top' = top
        /\ DocInv(doc') /\ want' \in [Members -> Topics] /\ budget' \in [Events -> Nat]
    BY Facts, Zenon DEF JoinMembers
  <1>2. CASE v.members \subseteq DOMAIN doc /\ Answer(r, c)
    <2>1. v.id \in Int /\ v.members \in SUBSET Members
      BY Facts DEF GenerationDoc
    <2>2. \A m \in v.members : doc[m].subs \in Topics
      <3>1. \A m \in DOMAIN doc : doc[m] \in MemberDoc
        BY Facts, Zenon DEF DocInv
      <3> QED BY <1>2, <3>1 DEF MemberDoc
    <2>3. f \in [v.members -> Topics] /\ DOMAIN f = v.members
      BY <2>2, Zenon
    <2>4. f \in Maps
      BY <2>1, <2>3, Zenon DEF Maps
    <2> HIDE DEF f
    <2>5. c \in Client /\ c.st = "joined" /\ c.gen = v.id /\ c.map = f
      BY <2>1, <2>4 DEF Client
    <2> HIDE DEF c
    <2>6. ClientInv(c, gen, asg)
      BY <2>3, <2>5, Facts, Zenon DEF ClientInv, Read
    <2> QED BY <1>1, <1>2, <2>6, AnswerHolds, Zenon
  <1>3. CASE Answer(r, Rejoin(Owner[r]))
    BY <1>1, <1>3, Facts, Answers, AnswerHolds, Zenon
  <1> QED BY <1>2, <1>3, Zenon DEF JoinMembers

\* An assignment is handed out.
LEMMA GrantedHolds ==
    ASSUME IInv, NEW r \in Requests, NEW f \in Maps, Granted(r, f),
           gen' = gen, Keeps(asg, asg', gen), AsgInv(gen, asg'),
           DocInv(doc'), want' \in [Members -> Topics], budget' \in [Events -> Nat],
           req[r].gen >= gen.id - 1 => req[r].gen \in DOMAIN asg' /\ f = asg'[req[r].gen]
    PROVE  IInv'
  <1> DEFINE n == req[r].gen
             c == [st |-> "stable", gen |-> n, map |-> f, on |-> Nobody]
             t == IF client[Owner[r]].on = r /\ n > top THEN n ELSE top
  <1>1. n \in Int /\ n <= gen.id
    BY Facts, Zenon DEF ReqInv
  <1>2. c \in Client /\ c.st = "stable" /\ c.gen = n /\ c.map = f
    BY <1>1 DEF Client
  <1>3. Answer(r, c) /\ top' = t
    BY Zenon DEF Granted
  <1> HIDE DEF c
  <1>4. ClientInv(c, gen', asg')
    BY <1>1, <1>2, Zenon DEF ClientInv
  <1>5. TopInv(top, gen, asg)
    BY Facts, Zenon
  <1>6. top \in Int /\ top >= -1
    BY <1>5, Zenon DEF TopInv
  <1>7. TopInv(top', gen, asg') /\ top <= top'
    <2>1. CASE t = top
      <3>1. TopInv(top, gen, asg')
        BY <1>5, Zenon DEF TopInv, Keeps
      <3>2. top <= top
        BY <1>6
      <3> QED BY <1>3, <2>1, <3>1, <3>2, Zenon
    <2>2. CASE t = n /\ n > top
      <3>1. n >= -1 /\ top <= n
        BY <1>1, <1>6, <2>2
      <3>2. TopInv(n, gen, asg')
        BY <1>1, <3>1, Zenon DEF TopInv
      <3> QED BY <1>3, <2>2, <3>1, <3>2, Zenon
    <2> QED BY <2>1, <2>2, Zenon
  <1>8. GenInv(gen) /\ Owner[r] \in Members
    BY Facts, Zenon
  <1>9. ReqInv(Idle(r), Owner[r], gen', asg', top')
    BY <1>7, <1>8, IdleInv, Zenon
  <1>10. req' = [req EXCEPT ![r] = Idle(r)]
         /\ (client' = client \/ client' = [client EXCEPT ![Owner[r]] = c])
    BY <1>3, Zenon DEF Answer
  <1> QED BY <1>4, <1>7, <1>8, <1>9, <1>10, StepOne, Zenon

\* A sync that has to wait, or is refused.
LEMMA HeldHolds ==
    ASSUME IInv, NEW r \in Requests, NEW g, NEW c, Held(r, g, c), ClientInv(c, gen, asg),
           req[r].pc \notin {"idle", "read"}, gen' = gen, asg' = asg,
           DocInv(doc'), want' \in [Members -> Topics], budget' \in [Events -> Nat]
    PROVE  IInv'
  <1>1. top' = top
    BY Zenon DEF Held
  <1>2. "read" \in ControlPoints \ (Writing \cup Sweeping)
    BY DEF ControlPoints, Writing, Sweeping
  <1>3. CASE Goto(r, "read") /\ client' = client
    BY <1>1, <1>2, <1>3, GotoHolds, Zenon
  <1> DEFINE d == IF Formed(g) THEN Rejoin(Owner[r]) ELSE c
  <1>4. CASE Answer(r, d)
    <2>1. ClientInv(d, gen, asg)
      BY Facts, Answers, Zenon
    <2> HIDE DEF d
    <2> QED BY <1>1, <1>4, <2>1, AnswerHolds, Zenon
  <1> QED BY <1>3, <1>4, Zenon DEF Held

\* sync_once: what the view says of the member and of its generation.
LEMMA SyncOnceHolds ==
    ASSUME IInv, NEW r \in Requests, SyncOnce(r)
    PROVE  IInv'
  <1> DEFINE m == Owner[r]
             q == req[r]
             v == q.view
  <1>1. First[m] \in Topics /\ m \in Members
    BY GroupAssumption, Zenon
  <1>2. Renew(m)
    BY Zenon DEF SyncOnce
  <1>3. DocInv(doc')
    BY <1>1, <1>2, DocTypes, Zenon
  <1>4. /\ gen' = gen /\ asg' = asg
        /\ want' \in [Members -> Topics] /\ budget' \in [Events -> Nat]
        /\ q.pc = "once" /\ q.pc \notin {"idle", "read"}
    BY Facts, Zenon DEF SyncOnce
  <1>5. CASE Held(r, v, Unknown(m)) \/ Held(r, v, Rejoin(m))
    <2>1. ClientInv(Unknown(m), gen, asg) /\ ClientInv(Rejoin(m), gen, asg)
      BY <1>1, Answers, Zenon
    <2> QED BY <1>3, <1>4, <1>5, <2>1, HeldHolds, Zenon
  <1>6. CASE v.id = q.gen /\ \E a \in InForce(v) : Granted(r, a)
    <2>1. PICK a \in InForce(v) : Granted(r, a)
      BY <1>6, Zenon
    <2>2. v.id \in DOMAIN asg /\ a = asg[v.id]
      BY <2>1, Zenon DEF InForce
    <2>3. a \in Maps /\ AsgInv(gen, asg)
      BY <2>2, Facts, Zenon DEF AsgInv
    <2>4. Keeps(asg, asg, gen)
      BY Zenon DEF Keeps
    <2>5. q.gen \in DOMAIN asg /\ a = asg[q.gen]
      BY <1>6, <2>2, Zenon
    <2> QED BY <1>3, <1>4, <2>1, <2>3, <2>4, <2>5, GrantedHolds, Zenon
  <1>7. CASE /\ m \in v.members /\ v.id = q.gen /\ m \in DOMAIN q.map
             /\ Goto(r, "create") /\ client' = client /\ top' = top
    <2>1. "create" \in ControlPoints
      BY DEF ControlPoints
    <2>2. PICK p \in Request : /\ req' = [req EXCEPT ![r] = p] /\ p.pc = "create"
                               /\ p = [q EXCEPT !.pc = "create"]
      BY <1>7, <2>1, GotoIs, Zenon
    <2>3. q \in Request
      BY Facts, Zenon
    <2>4. /\ p.gen = q.gen /\ p.map = q.map /\ p.seen = q.seen /\ p.view = v
      BY <2>2, <2>3 DEF Request
    <2>5. v.id >= 0
      BY <1>7, Facts, NamesSomebody, Zenon DEF Read
    <2>6. q.seen <= v.id
      BY <1>4, Facts, Zenon DEF ReqInv
    <2>7. p.pc \notin Sweeping /\ p.pc \notin {"admit", "cas"} /\ p.pc # "fence"
      BY <2>2 DEF Sweeping
    <2>8. ReqInv(p, m, gen, asg, top)
      BY <1>7, <2>2, <2>4, <2>5, <2>6, <2>7, Facts, Zenon DEF ReqInv
    <2> QED BY <1>1, <1>3, <1>4, <1>7, <2>2, <2>8, StepQuiet, Zenon
  <1> QED BY <1>5, <1>6, <1>7, Zenon DEF SyncOnce

\* The assignment is created, or the one that is there is adopted.
LEMMA SyncCreateHolds ==
    ASSUME IInv, NEW r \in Requests, SyncCreate(r)
    PROVE  IInv'
  <1> DEFINE q == req[r]
             g == q.view.id
             p == [q EXCEPT !.map = asg'[g], !.pc = "fence"]
  <1>1. /\ gen' = gen /\ top' = top /\ client' = client
        /\ DocInv(doc') /\ want' \in [Members -> Topics] /\ budget' \in [Events -> Nat]
        /\ q.pc = "create"
        /\ asg' = IF g \in DOMAIN asg THEN asg ELSE With(asg, g, q.map)
        /\ req' = [req EXCEPT ![r].map = asg'[g], ![r].pc = "fence"]
    BY Facts, Zenon DEF SyncCreate
  <1>2. req \in [Requests -> Request] /\ q \in Request /\ ReqInv(q, Owner[r], gen, asg, top)
    BY Facts, Zenon
  <1>3. g = q.gen /\ g >= 0 /\ g <= gen.id /\ Owner[r] \in DOMAIN q.map
        /\ (g = gen.id => DOMAIN q.map \in {{}, gen.members}) /\ q.seen <= g
    BY <1>1, <1>2, Zenon DEF ReqInv
  <1>4. q.map \in Maps /\ g \in Nat
    BY <1>2, <1>3 DEF Request
  <1>5. g = gen.id => DOMAIN q.map = gen.members
    BY <1>3, Zenon
  <1>6. AsgInv(gen, asg)
    BY Facts, Zenon
  <1>7. g \in DOMAIN asg' /\ Keeps(asg, asg', gen) /\ AsgInv(gen, asg')
    <2>1. CASE g \in DOMAIN asg
      BY <1>1, <1>6, <2>1, Zenon DEF Keeps
    <2>2. CASE g \notin DOMAIN asg
      <3>1. asg' = With(asg, g, q.map)
        BY <1>1, <2>2, Zenon
      <3>2. DOMAIN asg' = DOMAIN asg \cup {g} /\ asg'[g] = q.map
            /\ \A h \in DOMAIN asg : asg'[h] = asg[h]
        BY <2>2, <3>1, Zenon DEF With
      <3> QED BY <1>3, <1>4, <1>5, <1>6, <3>2, Zenon DEF Keeps, AsgInv
    <2> QED BY <2>1, <2>2, Zenon
  <1>8. TopInv(top, gen, asg') /\ top <= top
    <2>1. TopInv(top, gen, asg) /\ top \in Int
      BY Facts, Zenon DEF TopInv
    <2>2. top <= top
      BY <2>1
    <2> QED BY <1>7, <2>1, <2>2, Zenon DEF TopInv, Keeps
  <1>9. ReqInv(q, Owner[r], gen, asg', top)
    <2>1. top \in Int
      BY <1>8, Zenon DEF TopInv
    <2> QED BY <1>2, <1>7, <1>8, <2>1, ReqKeeps, Zenon
  <1>10. asg'[g] \in Maps
    BY <1>7, Zenon DEF AsgInv
  <1>11. req' = [req EXCEPT ![r] = p]
    BY <1>1, <1>2
  <1>12. /\ p \in Request /\ p.pc = "fence" /\ p.view = q.view /\ p.map = asg'[g]
         /\ p.gen = q.gen /\ p.seen = q.seen
    BY <1>2, <1>10 DEF Request, ControlPoints
  <1> HIDE DEF p
  <1>13. q.gen = gen.id => DOMAIN p.map \in {{}, gen.members}
    BY <1>3, <1>7, <1>12, Zenon DEF AsgInv
  <1>14. p.pc \notin Sweeping /\ p.pc \notin {"admit", "cas"} /\ p.pc # "create"
    BY <1>12 DEF Sweeping
  <1>15. ReqInv(p, Owner[r], gen, asg', top)
    BY <1>3, <1>7, <1>9, <1>12, <1>13, <1>14, Zenon DEF ReqInv
  <1>16. Owner[r] \in Members
    BY Facts, Zenon
  <1> QED BY <1>1, <1>7, <1>8, <1>11, <1>15, <1>16, StepOne, Zenon

\* The generation is read again before the assignment is handed out.
LEMMA SyncFenceHolds ==
    ASSUME IInv, NEW r \in Requests, SyncFence(r)
    PROVE  IInv'
  <1> DEFINE m == Owner[r]
             q == req[r]
  <1>1. First[m] \in Topics /\ m \in Members
    BY GroupAssumption, Zenon
  <1>2. Renew(m)
    BY Zenon DEF SyncFence
  <1>3. DocInv(doc')
    BY <1>1, <1>2, DocTypes, Zenon
  <1>4. /\ gen' = gen /\ want' \in [Members -> Topics] /\ budget' \in [Events -> Nat]
        /\ q.pc = "fence" /\ q.pc \notin {"idle", "read"}
    BY Facts, Zenon DEF SyncFence
  <1>5. CASE Held(r, gen, Rejoin(m)) /\ asg' = asg
    <2>1. ClientInv(Rejoin(m), gen, asg)
      BY <1>1, Answers, Zenon
    <2> QED BY <1>3, <1>4, <1>5, <2>1, HeldHolds, Zenon
  <1>6. CASE /\ gen.id = q.view.id /\ Granted(r, q.map)
             /\ asg' \in {asg, Without(asg, {g \in DOMAIN asg : g < gen.id - 1})}
    <2>1. q.map \in Maps /\ gen.id \in Int /\ q.gen \in Int
      BY Facts DEF Request, GenerationDoc
    <2>2. q.gen = gen.id /\ AsgInv(gen, asg)
      BY <1>4, <1>6, Facts, Zenon DEF ReqInv
    <2>3. q.gen >= gen.id - 1 /\ \A h \in DOMAIN asg : h >= gen.id - 1 => ~ (h < gen.id - 1)
      <3>1. \A h \in DOMAIN asg : h \in Int
        BY <2>2 DEF AsgInv
      <3> QED BY <2>1, <2>2, <3>1
    <2>4. q.gen \in DOMAIN asg /\ q.map = asg[q.gen]
      BY <1>4, <2>3, Facts, Zenon DEF ReqInv
    <2>5. Keeps(asg, asg', gen)
      BY <1>6, <2>3, Zenon DEF Keeps, Without
    <2>6. AsgInv(gen, asg')
      BY <1>6, <2>2, Zenon DEF AsgInv, Without
    <2>7. q.gen \in DOMAIN asg' /\ q.map = asg'[q.gen]
      BY <2>3, <2>4, <2>5, Zenon DEF Keeps
    <2> QED BY <1>3, <1>4, <1>6, <2>1, <2>5, <2>6, <2>7, GrantedHolds, Zenon
  <1> QED BY <1>5, <1>6, Zenon DEF SyncFence

\* Heartbeats and commits.
LEMMA BeatHolds ==
    ASSUME IInv, NEW r \in Requests, Heartbeat(r) \/ CommitAccepted(r) \/ CommitRefused(r)
    PROVE  IInv'
  <1> DEFINE m == Owner[r]
  <1>1. First[m] \in Topics /\ m \in Members
    BY GroupAssumption, Zenon
  <1>2. Renew(m) \/ doc' = doc
    BY Zenon DEF Heartbeat, CommitAccepted, CommitRefused
  <1>3. DocInv(doc')
    BY <1>1, <1>2, Facts, DocTypes, Zenon
  <1>4. /\ gen' = gen /\ asg' = asg /\ top' = top
        /\ want' \in [Members -> Topics] /\ budget' \in [Events -> Nat]
    BY Facts, Zenon DEF Heartbeat, CommitAccepted, CommitRefused
  <1>5. Answer(r, Unknown(m)) \/ Answer(r, Proceed(m)) \/ Answer(r, Rejoin(m))
    <2>1. CASE Heartbeat(r)
      <3>1. CASE req[r].gen = req[r].view.id
        BY <2>1, <3>1, Zenon DEF Heartbeat
      <3>2. CASE req[r].gen # req[r].view.id
        BY <2>1, <3>2, Zenon DEF Heartbeat
      <3> QED BY <3>1, <3>2, Zenon
    <2>2. CASE CommitAccepted(r) \/ CommitRefused(r)
      BY <2>2, Zenon DEF CommitAccepted, CommitRefused
    <2> QED BY <2>1, <2>2, Zenon
  <1>6. /\ ClientInv(Unknown(m), gen, asg) /\ ClientInv(Proceed(m), gen, asg)
        /\ ClientInv(Rejoin(m), gen, asg)
    BY <1>1, Answers, Zenon
  <1> QED BY <1>3, <1>4, <1>5, <1>6, AnswerHolds, Zenon

\* A member leaves.
LEMMA LeaveHolds ==
    ASSUME IInv, NEW r \in Requests, Leave(r)
    PROVE  IInv'
  <1> DEFINE m == Owner[r]
             q == req[r]
  <1>1. /\ asg' = asg /\ top' = top /\ doc' = doc /\ want' = want
        /\ DocInv(doc') /\ want' \in [Members -> Topics] /\ budget' \in [Events -> Nat]
        /\ q.pc = "leave" /\ q.pc \notin {"idle", "read"} /\ m \in Members
    BY Facts, Zenon DEF Leave
  <1>2. CASE Answer(r, Unknown(m)) /\ gen' = gen
    BY <1>1, <1>2, Answers, AnswerHolds, Zenon
  <1>3. CASE Goto(r, "read") /\ gen' = gen /\ client' = client
    <2>1. "read" \in ControlPoints \ (Writing \cup Sweeping)
      BY DEF ControlPoints, Writing, Sweeping
    <2> QED BY <1>1, <1>3, <2>1, GotoHolds, Zenon
  <1>4. CASE /\ m \in q.view.members /\ Current(r) /\ gen' = Left(gen, m) /\ client' = client
             /\ req' = [req EXCEPT ![r].ids = {m}, ![r].pc = "drop"]
    <2> DEFINE p == [q EXCEPT !.ids = {m}, !.pc = "drop"]
    <2>1. q.view = gen
      BY <1>4, Facts, Zenon DEF Read, Current
    <2>2. Moves(gen, gen')
      BY <1>1, <1>4, <2>1, WritesMove, Zenon
    <2>3. req \in [Requests -> Request] /\ q \in Request
      BY Facts, Zenon
    <2>4. req' = [req EXCEPT ![r] = p]
      BY <1>4, <2>3
    <2>5. /\ p \in Request /\ p.pc = "drop" /\ p.view = q.view
          /\ p.gen = q.gen /\ p.map = q.map /\ p.seen = q.seen
      BY <1>1, <2>3 DEF Request, ControlPoints
    <2> HIDE DEF p
    <2>6. ReqInv(q, m, gen', asg, top) /\ TopInv(top, gen', asg) /\ GenInv(gen')
      BY <2>2, Facts, ReqMoves, AsgMoves, Zenon DEF Moves
    <2>7. ReqInv(p, m, gen', asg, top)
      BY <1>1, <2>5, <2>6, Advance, Zenon DEF Sweeping
    <2> QED BY <1>1, <1>4, <2>2, <2>4, <2>7, StepOne, Zenon
  <1> QED BY <1>2, <1>3, <1>4, Zenon DEF Leave

\* The document of the member that left.
LEMMA LeaveDropHolds ==
    ASSUME IInv, NEW r \in Requests, LeaveDrop(r)
    PROVE  IInv'
  <1>1. PICK S \in SUBSET req[r].ids : doc' = Without(doc, S)
    BY Zenon DEF LeaveDrop
  <1>2. Owner[r] \in Members /\ First[Owner[r]] \in Topics
    BY GroupAssumption, Zenon
  <1>3. DocInv(doc')
    BY <1>1, <1>2, DocTypes, Zenon
  <1>4. /\ gen' = gen /\ asg' = asg /\ top' = top
        /\ want' \in [Members -> Topics] /\ budget' \in [Events -> Nat]
        /\ Answer(r, Unknown(Owner[r]))
    BY Facts, Zenon DEF LeaveDrop
  <1> QED BY <1>2, <1>3, <1>4, Answers, AnswerHolds, Zenon

-----------------------------------------------------------------------------
(* The invariant.                                                          *)

\* It holds of a group nobody has joined.
LEMMA InitHolds == Init => IInv
  <1> SUFFICES ASSUME Init PROVE IInv
    BY Zenon
  <1>1. gen = NoGroup /\ doc = Empty /\ asg = Empty /\ top = -1 /\ want = First
    BY Zenon DEF Init
  <1>2. NoGroup \in GenerationDoc /\ NoGroup.id = -1
    BY DEF NoGroup, GenerationDoc, Nobody
  <1>3. GenInv(gen)
    BY <1>1, <1>2 DEF GenInv, NoGroup, Nobody
  <1>4. DOMAIN Empty = {}
    BY DEF Empty
  <1>5. AsgInv(gen, asg) /\ DocInv(doc)
    BY <1>1, <1>4, Zenon DEF AsgInv, DocInv
  <1>6. TopInv(top, gen, asg)
    BY <1>1, <1>2 DEF TopInv
  <1>7. \A r \in Requests : ReqInv(Idle(r), Owner[r], gen, asg, top)
    BY <1>3, <1>6, IdleInv, Zenon
  <1>8. \A r \in Requests : Idle(r) \in Request
    BY <1>7, Zenon DEF ReqInv
  <1>9. req = [r \in Requests |-> Idle(r)]
    BY Zenon DEF Init
  <1>10. /\ req \in [Requests -> Request]
         /\ \A r \in Requests : ReqInv(req[r], Owner[r], gen, asg, top)
    BY <1>7, <1>8, <1>9, Zenon
  <1> DEFINE c == [st |-> "out", gen |-> -1, map |-> Empty, on |-> Nobody]
  <1>11. Empty \in Maps
    <2>1. Empty \in [{} -> Topics] /\ {} \in SUBSET Members
      BY DEF Empty
    <2> QED BY <2>1 DEF Maps
  <1>12. c \in Client /\ c.gen = -1 /\ c.st = "out" /\ c.map = Empty
    BY <1>11 DEF Client
  <1>13. client = [m \in Members |-> c]
    BY Zenon DEF Init
  <1> HIDE DEF c
  <1>14. c.gen <= gen.id
    BY <1>1, <1>2, <1>12
  <1>15. ClientInv(c, gen, asg)
    BY <1>4, <1>12, <1>14, Zenon DEF ClientInv
  <1>16. /\ client \in [Members -> Client]
         /\ \A m \in Members : ClientInv(client[m], gen, asg)
    BY <1>12, <1>13, <1>15, Zenon
  <1>17. want \in [Members -> Topics] /\ budget \in [Events -> Nat]
    BY <1>1, GroupAssumption, Zenon DEF Init
  <1> QED BY <1>3, <1>5, <1>6, <1>10, <1>16, <1>17, Zenon DEF IInv

\* Every step keeps it.
LEMMA NextHolds == IInv /\ [Next]_vars => IInv'
  <1> SUFFICES ASSUME IInv, [Next]_vars PROVE IInv'
    BY Zenon
  <1>1. CASE \E m \in Members, r \in Requests :
                SendJoin(m, r) \/ SendSync(m, r) \/ SendHeartbeat(m, r) \/ SendCommit(m, r)
                   \/ SendLeave(m, r)
    BY <1>1, SendsHold, Zenon
  <1>2. CASE \E m \in Members : Resubscribe(m) \/ LoseAnswer(m) \/ Lapse(m)
    BY <1>2, ClientsHold, Zenon
  <1>3. ASSUME NEW r \in Requests, Serve(r) \/ Fail(r) PROVE IInv'
    <2>1. CASE ReadView(r) \/ Fail(r)
      BY <2>1, ReadViewHolds, FailHolds, Zenon
    <2>2. CASE SweepClaim(r) \/ SweepVerdict(r) \/ SweepEvict(r) \/ SweepDrop(r)
      BY <2>2, SweepClaimHolds, SweepVerdictHolds, SweepEvictHolds, SweepDropHolds, Zenon
    <2>3. CASE JoinMember(r) \/ JoinAdmit(r) \/ JoinCas(r)
      BY <2>3, JoinMemberHolds, JoinAdmitHolds, JoinCasHolds, Zenon
    <2>4. CASE JoinWait(r) \/ JoinRespond(r) \/ JoinMembers(r)
      BY <2>4, JoinAnswerHolds, JoinMembersHolds, Zenon
    <2>5. CASE SyncOnce(r) \/ SyncCreate(r) \/ SyncFence(r)
      BY <2>5, SyncOnceHolds, SyncCreateHolds, SyncFenceHolds, Zenon
    <2>6. CASE Heartbeat(r) \/ CommitAccepted(r) \/ CommitRefused(r)
      BY <2>6, BeatHolds, Zenon
    <2>7. CASE Leave(r) \/ LeaveDrop(r)
      BY <2>7, LeaveHolds, LeaveDropHolds, Zenon
    <2> QED BY <1>3, <2>1, <2>2, <2>3, <2>4, <2>5, <2>6, <2>7, Zenon DEF Serve
  <1>4. CASE UNCHANGED vars
    BY <1>4, Zenon DEF vars, IInv
  <1> QED BY <1>1, <1>2, <1>3, <1>4, Zenon DEF Next

-----------------------------------------------------------------------------
(* Theorems.                                                               *)

\* The invariant holds of every group, whatever its members do and lose.
THEOREM GroupConsistent == Spec => []IInv
  <1> QED BY InitHolds, NextHolds, PTL DEF Spec

\* Every variable has its type: the documents, and what requests and clients hold.
THEOREM GroupTypeCorrect == Spec => []TypeOK
  <1>1. IInv => TypeOK
    BY Zenon DEF IInv, TypeOK, GenInv, AsgInv, TopInv, DocInv
  <1> QED BY <1>1, GroupConsistent, PTL

\* The leader of a generation is one of its members, through every join, leave and
\* sweep.
THEOREM LeaderAlwaysMember == Spec => []LeaderIsMember
  <1>1. IInv => LeaderIsMember
    BY Zenon DEF IInv, LeaderIsMember, GenInv
  <1> QED BY <1>1, GroupConsistent, PTL

\* The assignment of the current generation names its members, all and only, however
\* late the leader that wrote it was.
THEOREM AssignmentAlwaysCovers == Spec => []AssignmentCovers
  <1>1. IInv => AssignmentCovers
    BY Zenon DEF IInv, AssignmentCovers, AsgInv
  <1> QED BY <1>1, GroupConsistent, PTL

\* Members of the current generation and of the one before it act on the assignment
\* that is stored.
THEOREM AssignmentAlwaysAgreed == Spec => []AssignmentAgreed
  <1>1. IInv => AssignmentAgreed
    BY Zenon DEF IInv, AssignmentAgreed, ClientInv
  <1> QED BY <1>1, GroupConsistent, PTL

\* Whatever writes generation.json moves it.
LEMMA GenerationMoves == IInv /\ [Next]_vars => gen' = gen \/ Moves(gen, gen')
  <1> SUFFICES ASSUME IInv, [Next]_vars PROVE gen' = gen \/ Moves(gen, gen')
    BY Zenon
  <1>1. CASE \E m \in Members, r \in Requests :
                SendJoin(m, r) \/ SendSync(m, r) \/ SendHeartbeat(m, r) \/ SendCommit(m, r)
                   \/ SendLeave(m, r)
    <2>1. PICK m \in Members, r \in Requests :
             SendJoin(m, r) \/ SendSync(m, r) \/ SendHeartbeat(m, r) \/ SendCommit(m, r)
                \/ SendLeave(m, r)
      BY <1>1, Zenon
    <2>2. \E op, t, f : Send(m, r, op, t, f)
      BY <2>1, Zenon DEF SendJoin, SendSync, SendHeartbeat, SendCommit, SendLeave
    <2> QED BY <2>2, Zenon DEF Send
  <1>2. CASE \E m \in Members : Resubscribe(m) \/ LoseAnswer(m) \/ Lapse(m)
    BY <1>2, Zenon DEF Resubscribe, LoseAnswer, Lapse
  <1>3. ASSUME NEW r \in Requests, Serve(r) \/ Fail(r) PROVE gen' = gen \/ Moves(gen, gen')
    <2>1. CASE ReadView(r) \/ Fail(r) \/ SweepVerdict(r) \/ SweepDrop(r)
      BY <2>1, Zenon DEF ReadView, Fail, SweepVerdict, SweepDrop
    <2>2. CASE SweepClaim(r) \/ SweepEvict(r)
      <3>1. CASE Current(r)
        <4>1. req[r].view.seq # 0 /\ req[r].view.seq = gen.seq /\ gen.seq \in Nat
          <5>1. gen.seq \in Nat
            BY Facts DEF GenerationDoc
          <5> QED BY <2>2, <3>1, <5>1, Facts, Zenon
                  DEF SweepClaim, SweepEvict, ReqInv, Sweeping, Current
        <4>2. gen.seq > 0 /\ Owner[r] \in Members
          BY <4>1, Facts
        <4>3. Moves(gen, Bumped(gen)) /\ Moves(gen, Evicted(gen, req[r].ids))
          BY <4>2, WritesMove, Zenon
        <4> QED BY <2>2, <3>1, <4>3, Zenon DEF SweepClaim, SweepEvict
      <3>2. CASE ~ Current(r)
        BY <2>2, <3>2, Zenon DEF SweepClaim, SweepEvict
      <3> QED BY <3>1, <3>2, Zenon
    <2>3. CASE JoinCas(r)
      BY <2>3, JoinMoves, Zenon DEF JoinCas
    <2>4. CASE \/ JoinMember(r) \/ JoinAdmit(r) \/ JoinWait(r) \/ JoinRespond(r)
               \/ JoinMembers(r) \/ SyncOnce(r) \/ SyncCreate(r) \/ SyncFence(r)
      BY <2>4, Zenon DEF JoinMember, JoinAdmit, JoinWait, JoinRespond, JoinMembers,
                         SyncOnce, SyncCreate, SyncFence
    <2>5. CASE Heartbeat(r) \/ CommitAccepted(r) \/ CommitRefused(r) \/ LeaveDrop(r)
      BY <2>5, Zenon DEF Heartbeat, CommitAccepted, CommitRefused, LeaveDrop
    <2>6. CASE Leave(r)
      <3>1. CASE gen' = gen
        BY <3>1, Zenon
      <3>2. CASE Owner[r] \in req[r].view.members /\ Current(r) /\ gen' = Left(gen, Owner[r])
        <4>1. req[r].view = gen /\ Owner[r] \in Members
          BY <3>2, Facts, Zenon DEF Read, Current
        <4> QED BY <3>2, <4>1, WritesMove, Zenon
      <3> QED BY <2>6, <3>1, <3>2, Zenon DEF Leave
    <2> QED BY <1>3, <2>1, <2>2, <2>3, <2>4, <2>5, <2>6, Zenon DEF Serve
  <1>4. CASE UNCHANGED vars
    BY <1>4, Zenon DEF vars
  <1> QED BY <1>1, <1>2, <1>3, <1>4, Zenon DEF Next

\* A generation never regresses, never changes its members, and keeps the leader it
\* elected, whoever writes generation.json and however often the CAS is lost.
THEOREM GenerationsNeverReusedEver == Spec => GenerationsNeverReused
  <1> DEFINE A == /\ gen'.id >= gen.id
                  /\ gen'.members # gen.members => gen'.id > gen.id
                  /\ gen'.id = gen.id /\ gen.leader # Nobody => gen'.leader = gen.leader
  <1>1. IInv /\ [Next]_vars => [A]_vars
    <2> SUFFICES ASSUME IInv, [Next]_vars PROVE A
      BY Zenon
    <2>1. gen.id \in Int
      BY DEF IInv, GenInv, GenerationDoc
    <2>2. CASE gen' = gen
      BY <2>1, <2>2
    <2>3. CASE Moves(gen, gen')
      <3>1. gen'.id \in Int
        BY <2>3 DEF Moves, GenInv, GenerationDoc
      <3>2. /\ gen'.id >= gen.id /\ (gen'.id = gen.id => gen'.members = gen.members)
            /\ (gen'.id = gen.id /\ gen.leader # Nobody => gen'.leader = gen.leader)
        BY <2>3, Zenon DEF Moves
      <3> QED BY <2>1, <3>1, <3>2
    <2> QED BY <2>2, <2>3, GenerationMoves, Zenon
  <1> QED BY <1>1, GroupConsistent, PTL DEF Spec, GenerationsNeverReused

\* A commit that a later generation's assignment should fence is refused, up to the
\* pruning that CommitFenced names.
THEOREM CommitAlwaysFenced == Spec => CommitFenced
  <1> DEFINE A == \A r \in Requests : CommitAccepted(r) =>
                     req[r].seen <= req[r].gen \/ gen.id > req[r].view.id + 1
  <1>1. IInv /\ [Next]_vars => [A]_vars
    <2> SUFFICES ASSUME IInv, NEW r \in Requests, CommitAccepted(r)
                 PROVE  req[r].seen <= req[r].gen \/ gen.id > req[r].view.id + 1
      BY Zenon
    <2> DEFINE q == req[r]
    <2>1. /\ q.seen \in Int /\ q.gen \in Int /\ q.view.id \in Int /\ gen.id \in Int
      BY Facts DEF Request, GenerationDoc
    <2>2. q.seen <= q.view.id
      BY Facts, Zenon DEF CommitAccepted, ReqInv
    <2>3. q.view.id >= 0
      BY Facts, NamesSomebody, Zenon DEF CommitAccepted, Read
    <2>4. CASE q.gen = q.view.id
      BY <2>2, <2>4, Zenon
    <2>5. CASE StaleCommitAccepted(r)
      <3>1. q.view.id - 1 = q.gen /\ q.view.id \notin DOMAIN asg
        BY <2>5, Zenon DEF StaleCommitAccepted
      <3>2. q.seen >= 0 /\ q.seen >= gen.id - 1 => q.seen \in DOMAIN asg
        BY Facts, Zenon DEF ReqInv
      <3> HIDE DEF q
      <3>3. ASSUME ~ (q.seen <= q.gen), ~ (gen.id > q.view.id + 1) PROVE FALSE
        <4>1. q.seen = q.view.id /\ q.seen >= 0 /\ q.seen >= gen.id - 1
          BY <2>1, <2>2, <2>3, <3>1, <3>3
        <4> QED BY <3>1, <3>2, <4>1, Zenon
      <3> QED BY <3>3, Zenon DEF q
    <2> QED BY <2>4, <2>5, Zenon DEF CommitAccepted
  <1> QED BY <1>1, GroupConsistent, PTL DEF Spec, CommitFenced
=============================================================================
