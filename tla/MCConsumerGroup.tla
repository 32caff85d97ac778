-------------------------- MODULE MCConsumerGroup --------------------------
(* Small instances of ConsumerGroup for TLC. *)
EXTENDS ConsumerGroup, TLC

CONSTANTS r1, r2

Quiet == [leave |-> 0, crash |-> 0, lose |-> 0, late |-> 0, topic |-> 0, resubscribe |-> 0, restart |-> 0, tick |-> 0,
          size |-> 9, at |-> {r1}, upgrade |-> TRUE, instance |-> [c \in Client |-> Nil], assignor |-> [c \in Client |-> Nil]]
NoGeneration == [id |-> 0, members |-> {}, converted |-> FALSE, assignment |-> Nil]
Fresh(kind) == [kind |-> kind, phase |-> IF kind = "consumer" THEN "in" ELSE "out", epoch |-> 0, owned |-> {}, want |-> {},
                reported |-> Nil, subscribed |-> {1}, resubscribed |-> FALSE]
Away == [Fresh("consumer") EXCEPT !.phase = "gone"]
Topics(partitions) == [t \in Topic |-> IF t = 1 THEN partitions ELSE 0]
Start0(joining, partitions, b) ==
  [doc |-> Nil, gen |-> NoGeneration, meta |-> Topics(partitions), stamps |-> [c \in Client |-> {}], heard |-> [c \in Client |-> 0],
   beat |-> [c \in Client |-> 0],
   client |-> [c \in Client |-> IF c \in joining THEN Fresh("consumer") ELSE Away], budget |-> b]

\* Members who share the topic already, at epoch 1, and the ones who are about to join them.
Share(members, partitions) ==
  uniform([m \in members |-> [subscribed |-> {1}, previous |-> {}]], [t \in {1} |-> partitions])
Holding(kind, epoch, p) ==
  [Fresh(kind) EXCEPT !.phase = "in", !.epoch = epoch, !.owned = p, !.want = p, !.reported = p]
Running(members, joining, partitions, b) ==
  LET share == Share(members, partitions) IN
  [Start0(joining, partitions, b) EXCEPT
     !.doc = [epoch |-> 1, topics |-> [t \in {1} |-> partitions], classicGeneration |-> Nil,
              members |-> [m \in members |->
                [epoch |-> 1, previous |-> 0, state |-> "Stable", instance |-> b.instance[m], subscribed |-> {1},
                 assignor |-> b.assignor[m], contact |-> 0, told |-> NoDeadline, assigned |-> share[m], pending |-> {},
                 target |-> share[m], classic |-> FALSE]]],
     !.client = [c \in Client |-> IF c \in members THEN Holding("consumer", 1, share[c]) ELSE @[c]]]

\* The same, of a classic group whose generation is settled.
Settled0(kind, members, joining, partitions, b) ==
  LET share == Share(members, partitions) IN
  [Start0(joining, partitions, b) EXCEPT
     !.gen = [id |-> 1, members |-> members, converted |-> FALSE, assignment |-> share],
     !.client = [c \in Client |-> IF c \in members THEN Holding(kind, 1, share[c]) ELSE @[c]]]

\* Members last written long ago, kept alive by the stamps they have written since.
Stamped(ages, silent, b) ==
  LET s == Running({1, 2}, {}, 1, b) IN
  [s EXCEPT !.doc.members = [m \in {1, 2} |-> [@[m] EXCEPT !.contact = Old]],
            !.stamps = [c \in Client |-> IF c = 1 THEN ages ELSE {0}], !.heard[1] = silent]


\* A member told to give a partition up two ticks ago, and another waiting for it.
Withholding(b) ==
  LET s == Running({1}, {}, 2, b) IN
  [s EXCEPT !.doc = [@ EXCEPT !.epoch = 2, !.members = [m \in {1, 2} |->
      IF m = 1 THEN [@[1] EXCEPT !.state = "UnrevokedPartitions", !.told = Rebalance - 1, !.assigned = {<<1, 0>>},
                                 !.pending = {<<1, 1>>}, !.target = {<<1, 0>>}]
      ELSE [@[1] EXCEPT !.epoch = 2, !.state = "UnreleasedPartitions", !.assigned = {}, !.target = {<<1, 1>>}]]],
            !.client[1].want = {<<1, 0>>}, !.client[2] = Holding("consumer", 2, {}), !.stamps = [c \in Client |-> {}]]

\* A classic member whose document is as old as a running session lets it get, and a consumer about to join.
Aged0(age, silent, b) ==
  [Settled0("eager", {1}, {2}, 1, b) EXCEPT !.beat[1] = age, !.heard[1] = silent]

\* A conversion whose members have all gone since: the document names one whose session is over.
Deserted(kind, b) ==
  LET s == Running({1}, {}, 1, b) IN
  [s EXCEPT !.gen = [id |-> 1, members |-> {1}, converted |-> TRUE, assignment |-> Nil],
            !.doc.classicGeneration = 1, !.doc.members[1].contact = Old,
            !.client = [c \in Client |-> IF c = 2 THEN Fresh(kind) ELSE Away]]

WithClassic(s, c, kind) == [s EXCEPT !.client[c] = Fresh(kind)]

MCScenarios ==
  { \* consumers that join, are joined, leave and lose answers, of two replicas
    Start0({1, 2}, 2, [Quiet EXCEPT !.leave = 1]),
    Running({1}, {2}, 2, [Quiet EXCEPT !.lose = 1, !.leave = 1]),
    Running({1, 2}, {3}, 3, Quiet),
    Running({1}, {2}, 2, [Quiet EXCEPT !.at = {r1, r2}, !.restart = 1]),
    Start0({1}, 1, [Quiet EXCEPT !.late = 1]),
    \* a topic that grows or goes, a new subscription, a group that is full, a static member replaced
    Running({1}, {2}, 1, [Quiet EXCEPT !.topic = 1, !.assignor[1] = "range"]),
    [Running({1, 2}, {}, 1, [Quiet EXCEPT !.resubscribe = 1]) EXCEPT !.meta[2] = 1],
    Running({1}, {2}, 1, [Quiet EXCEPT !.size = 1, !.leave = 1]),
    Running({1}, {2}, 2, [Quiet EXCEPT !.leave = 1, !.instance = [c \in Client |-> IF c < 3 THEN 1 ELSE Nil]]),
    \* sessions and rebalance timeouts about to run out
    Stamped({5}, 4, [Quiet EXCEPT !.tick = 2]),
    Stamped({6, 4}, 3, [Quiet EXCEPT !.tick = 2]),
    Withholding([Quiet EXCEPT !.tick = 2]),
    \* classic groups that consumers join, and consumer groups that classic members join
    Settled0("cooperative", {1}, {2}, 2, Quiet),
    Settled0("eager", {1}, {2}, 2, [Quiet EXCEPT !.leave = 1]),
    Settled0("eager", {1}, {2}, 2, [Quiet EXCEPT !.crash = 1]),
    Settled0("eager", {1}, {2}, 2, [Quiet EXCEPT !.upgrade = FALSE]),
    Settled0("eager", {1, 3}, {2}, 2, [Quiet EXCEPT !.size = 1]),
    Aged0(6, 5, [Quiet EXCEPT !.tick = 1]),
    WithClassic(Running({1}, {}, 2, [Quiet EXCEPT !.leave = 1]), 2, "cooperative"),
    WithClassic(Start0({}, 2, [Quiet EXCEPT !.leave = 1]), 1, "eager"),
    Deserted("eager", Quiet), Deserted("cooperative", [Quiet EXCEPT !.leave = 1]) }

\* A classic group between two generations: its next one has no assignment yet.
Rebalancing ==
  {[Settled0("eager", {1}, {2}, 2, Quiet) EXCEPT !.gen = [id |-> 2, members |-> {1}, converted |-> FALSE, assignment |-> Nil]]}
=============================================================================
