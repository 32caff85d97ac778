------------------------------ MODULE Assignor ------------------------------
(* The server-side assignors of a consumer-protocol group (assignor.rs):      *)
(* pure functions of the members' subscriptions, the topics' partition counts *)
(* and the members' previous targets.                                         *)
(*                                                                            *)
(* Members and topics are numbers, whose order is the order of the code's     *)
(* BTreeMap keys.  A partition is a pair <<topic, index>>.                    *)
(*   members  [member -> [subscribed : set of topics, previous : partitions]] *)
(*   topics   [topic -> number of partitions]                                 *)
EXTENDS Integers, FiniteSets

PartitionsOf(topics) == UNION {{t} \X (0..(topics[t] - 1)) : t \in DOMAIN topics}

Before(p, q) == p[1] < q[1] \/ (p[1] = q[1] /\ p[2] < q[2])
First(S) == CHOOSE p \in S : \A q \in S \ {p} : Before(p, q)
Least(S) == CHOOSE n \in S : \A k \in S : n <= k

Subscribers(members, t) == {m \in DOMAIN members : t \in members[m].subscribed}

\* Contiguous ranges of each topic, the first ones a partition wider.
range(members, topics) ==
  LET slice(m, t) ==
        LET subscribers == Subscribers(members, t)
            quota == topics[t] \div Cardinality(subscribers)
            extra == topics[t] % Cardinality(subscribers)
            index == Cardinality({k \in subscribers : k < m})
            start == index * quota + Least({index, extra})
            width == quota + IF index < extra THEN 1 ELSE 0
        IN {t} \X (start..(start + width - 1))
  IN [m \in DOMAIN members |->
        UNION {slice(m, t) : t \in members[m].subscribed \cap DOMAIN topics}]

\* An owner map under construction gives a member to each partition in its domain.
Load(owner, m) == Cardinality({p \in DOMAIN owner : owner[p] = m})

least_loaded(members, owner, t) ==
  LET subscribers == Subscribers(members, t)
      lightest == {m \in subscribers : \A k \in subscribers : Load(owner, m) <= Load(owner, k)}
  IN Least(lightest)

\* Mutant of kept: a member keeps what it no longer subscribes to.
KeptRegardless(members, topics) ==
  LET claims(p) == {m \in DOMAIN members : p \in members[m].previous}
  IN [p \in {p \in PartitionsOf(topics) : claims(p) # {}} |-> Least(claims(p))]
\* What each previous target still entitles its member to, the first member's when two claim it.
kept(members, topics) ==
  LET claims(p) == {m \in DOMAIN members : p \in members[m].previous /\ p[1] \in members[m].subscribed}
  IN [p \in {p \in PartitionsOf(topics) : claims(p) # {}} |-> Least(claims(p))]

Give(owner, p, m) == [q \in DOMAIN owner \cup {p} |-> IF q = p THEN m ELSE owner[q]]

\* Every partition nobody kept goes, in order, to the least loaded of its subscribers.
Place(members, wanted, owner) ==
  LET left == wanted \ DOMAIN owner
  IN IF left = {} THEN owner ELSE Give(owner, First(left), least_loaded(members, owner, First(left)[1]))
placed(members, topics) ==
  LET wanted == {p \in PartitionsOf(topics) : Subscribers(members, p[1]) # {}}
      after[k \in Nat] ==
        IF k = 0 THEN kept(members, topics) ELSE Place(members, wanted, after[k - 1])
  IN after[Cardinality(wanted)]

\* The gap a move of partition p to the least loaded of its subscribers would narrow.
Gap(members, owner, p) == Load(owner, owner[p]) - Load(owner, least_loaded(members, owner, p[1]))

improving_moves(members, owner) ==
  LET worth == {p \in DOMAIN owner : Gap(members, owner, p) >= 2}
  IN {p \in worth : \A q \in worth : Gap(members, owner, q) <= Gap(members, owner, p)}

\* Each move lowers the sum of the squared loads by at least two, which bounds the number of moves.
Improve(members, owner) ==
  LET moves == improving_moves(members, owner)
  IN IF moves = {} THEN owner ELSE Give(owner, First(moves), least_loaded(members, owner, First(moves)[1]))
balanced(members, start) ==
  LET after[k \in Nat] ==
        IF k = 0 THEN start ELSE Improve(members, after[k - 1])
  IN after[(Cardinality(DOMAIN start) * Cardinality(DOMAIN start)) \div 2]

Shares(members, owner) == [m \in DOMAIN members |-> {p \in DOMAIN owner : owner[p] = m}]
uniform(members, topics) == Shares(members, balanced(members, placed(members, topics)))

assign(assignor, members, topics) ==
  IF assignor = "range" THEN range(members, topics) ELSE uniform(members, topics)
=============================================================================
