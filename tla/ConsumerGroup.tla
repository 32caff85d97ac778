--------------------------- MODULE ConsumerGroup ---------------------------
(* Consumer-protocol groups (KIP-848) as the coordinator serves them:         *)
(* consumer.rs (the heartbeat state machine), migration.rs (classic members   *)
(* inside a consumer group, conversion of a classic one) and the part of      *)
(* administrator.rs that reads, applies and writes back over shared objects.  *)
(*                                                                            *)
(* Objects of the store: consumer.json (doc), generation.json with the        *)
(* generation's assignment (gen), the classic members' documents (beat: their *)
(* last contact), the liveness stamps (stamps).  Any replica serves any       *)
(* request, and keeps nothing but two memos (memo).  A request is a process   *)
(* of its own, one step per access to the store.  A conditional write is kept *)
(* as the document to write and a flag, "fresh", that any other write of the  *)
(* object in between takes away.                                              *)
(*                                                                            *)
(* Time is a clock of Tick steps.  Every instant is kept as its age in ticks, *)
(* which stops growing at Old.  Members are numbers, in the order of their    *)
(* ids.  The classic group's own protocol (join windows, sweeps, batches) is  *)
(* ClassicGroup's; here it is reduced to what a conversion can see of it.     *)
EXTENDS Assignor

CONSTANTS
  Client,        \* consumers, numbered: each has one member id
  Topic,         \* topics, numbered
  Replica,
  Session,       \* ticks of a session timeout
  Rebalance,     \* ticks of a rebalance timeout
  MaxConflicts,  \* MAX_GENERATION_CAS_ATTEMPTS
  Scenarios,     \* initial situations and the budgets of what may happen
  Nil

ASSUME NumbersAssumption ==
  /\ Client \subseteq Nat /\ Topic \subseteq Nat
  /\ Session \in Nat \ {0} /\ Rebalance \in Nat /\ MaxConflicts \in Nat

VARIABLES doc, gen, stamps, memo, meta, req, client, beat, heard, budget
vars == <<doc, gen, stamps, memo, meta, req, client, beat, heard, budget>>

LapsesAfter == Session + Session \div 2
\* The age at which nothing distinguishes instants any more.
Old == IF LapsesAfter < Rebalance THEN Rebalance + 1 ELSE LapsesAfter + 1
Older(age) == IF age = Old THEN Old ELSE age + 1
NoDeadline == -1
LeavingStatic == -2

-----------------------------------------------------------------------------
(* consumer.rs *)

NoGroup == [epoch |-> 0, members |-> <<>>, topics |-> <<>>, classicGeneration |-> Nil]
Members(g) == DOMAIN g.members
Member(g, m, r) == [g EXCEPT !.members = [k \in Members(g) \cup {m} |-> IF k = m THEN r ELSE @[k]]]
Without(g, S) == [g EXCEPT !.members = [m \in Members(g) \ S |-> @[m]]]

\* What a request knows of how recently each member was heard from.
\* Mutant of last_contact: the stamps are not looked at.
LastWritten(live, g, m) == g.members[m].contact
last_contact(live, g, m) == Least({g.members[m].contact, live.contacts[m]})
is_expired(live, g, m) == last_contact(live, g, m) > LapsesAfter
is_revocation_overdue(r) == r.state = "UnrevokedPartitions" /\ r.told > Rebalance

Swept(g, live) ==
  {m \in Members(g) : is_revocation_overdue(g.members[m]) \/ (live.listed /\ is_expired(live, g, m))}
sweep(g, live) == Without(g, Swept(g, live))

\* Most votes win, and "range" a tie.
preferred_assignor(g) ==
  LET votes(a) == Cardinality({m \in Members(g) : g.members[m].assignor = a})
  IN IF votes("range") > 0 /\ votes("range") >= votes("uniform") THEN "range" ELSE "uniform"

\* The assignment epoch always catches up with the group epoch within the write: one number stands for both.
Retargeted(g, targets) ==
  [g EXCEPT !.epoch = @ + 1, !.members = [m \in Members(g) |-> [@[m] EXCEPT !.target = targets[m]]]]
retarget(g) ==
  Retargeted(g, assign(preferred_assignor(g),
                       [m \in Members(g) |-> [subscribed |-> g.members[m].subscribed \cap DOMAIN g.topics,
                                              previous |-> g.members[m].target]],
                       g.topics))

RetargetIf(rebalance, g) == IF rebalance THEN retarget(g) ELSE g

refresh_topics(g, resolved) == IF resolved = Nil THEN g ELSE [g EXCEPT !.topics = resolved]

\* Mutant of owned_by_others: a partition being revoked is up for grabs.
AssignedToOthers(g, m) == UNION {g.members[o].assigned : o \in Members(g) \ {m}}
owned_by_others(g, m) == UNION {g.members[o].assigned \cup g.members[o].pending : o \in Members(g) \ {m}}
still_owns(owned, revoking) == owned = Nil \/ owned \cap revoking # {}

next_assignment(r, epoch, taken, owned) ==
  LET current == r.assigned
      revoking == current \ r.target
      free == (r.target \ current) \ taken
  IN IF revoking # {} /\ still_owns(owned, revoking)
     THEN [r EXCEPT !.state = "UnrevokedPartitions",
                    !.told = IF r.state = "UnrevokedPartitions" THEN @ ELSE 0,
                    !.assigned = current \cap r.target,
                    !.pending = revoking]
     ELSE [r EXCEPT !.previous = IF r.epoch = epoch THEN @ ELSE r.epoch,
                    !.epoch = epoch,
                    !.state = IF r.target \ current \subseteq free THEN "Stable" ELSE "UnreleasedPartitions",
                    !.assigned = (current \cap r.target) \cup free,
                    !.pending = {},
                    !.told = NoDeadline]

\* Mutant of reconcile: a member waiting for partitions is not looked at again.
ReconcileOnce(g, m, owned) ==
  LET r == g.members[m]
      moves == IF r.state = "UnrevokedPartitions" THEN ~still_owns(owned, r.pending) ELSE r.epoch # g.epoch
  IN IF moves THEN Member(g, m, next_assignment(r, g.epoch, owned_by_others(g, m), owned)) ELSE g
reconcile(g, m, owned) ==
  LET r == g.members[m]
      moves == CASE r.state = "Stable" -> r.epoch # g.epoch
                 [] r.state = "UnrevokedPartitions" -> ~still_owns(owned, r.pending)
                 [] r.state = "UnreleasedPartitions" -> TRUE
  IN IF moves THEN Member(g, m, next_assignment(r, g.epoch, owned_by_others(g, m), owned)) ELSE g

new_member(rq) ==
  [epoch |-> 0, previous |-> -1, state |-> "Stable", instance |-> rq.instance, subscribed |-> {}, assignor |-> Nil,
   contact |-> 0, told |-> NoDeadline, assigned |-> {}, pending |-> {}, target |-> {}, classic |-> FALSE]

Fail(code) == [code |-> code]
InstanceHolders(g, rq) == {m \in Members(g) : rq.instance # Nil /\ g.members[m].instance = rq.instance}

\* A (re)join at epoch 0: the group with the member in it, and whether its composition changed.
join(g, rq) ==
  LET others == InstanceHolders(g, rq) \ {rq.member}
      reset(r) == [r EXCEPT !.epoch = 0, !.previous = 0, !.state = "Stable", !.classic = FALSE,
                            !.pending = {}, !.told = NoDeadline]
      held == Least(others)
  IN CASE others # {} /\ g.members[held].epoch # LeavingStatic -> Fail("UnreleasedInstanceId")
       [] others # {} /\ g.members[held].epoch = LeavingStatic ->
            [code |-> "None", joined |-> FALSE,
             group |-> Member(Without(g, {held}), rq.member, reset(g.members[held]))]
       [] others = {} /\ rq.member \in Members(g) ->
            [code |-> "None", joined |-> FALSE,
             group |-> Member(g, rq.member, [reset(g.members[rq.member]) EXCEPT !.assigned = {}])]
       [] others = {} /\ rq.member \notin Members(g) /\ Cardinality(Members(g)) >= budget.size ->
            Fail("GroupMaxSizeReached")
       [] OTHER -> [code |-> "None", joined |-> TRUE, group |-> Member(g, rq.member, new_member(rq))]

validate_epoch(g, rq) ==
  IF rq.member \notin Members(g) THEN "UnknownMemberId"
  ELSE LET r == g.members[rq.member]
           lost_response == rq.epoch = r.previous /\ rq.owned # Nil /\ rq.owned \subseteq r.assigned
       IN IF rq.epoch > r.epoch \/ (rq.epoch < r.epoch /\ ~lost_response) THEN "FencedMemberEpoch" ELSE "None"

\* What the request says of its sender, folded in: a new subscription or assignor rebalances.
update_member(r, rq) ==
  [r EXCEPT !.subscribed = IF rq.subscribed = Nil THEN @ ELSE rq.subscribed,
            !.assignor = IF rq.assignor = Nil THEN @ ELSE rq.assignor]

\* A leaver, for good or (static, epoch -2) keeping its assignment for its session.
StaysStatic(g, rq) == rq.epoch = LeavingStatic /\ g.members[rq.member].instance # Nil
leave(g, rq) ==
  IF StaysStatic(g, rq)
  THEN Member(g, rq.member, [g.members[rq.member] EXCEPT !.epoch = LeavingStatic, !.contact = 0])
  ELSE Without(g, {rq.member})

\* What a request against the document comes to: the document to write back, whether it
\* differs from the one read, whether the sender's liveness is due a stamp, the answer.
Contacted(before, g, m) == IF g = before THEN g ELSE Member(g, m, [g.members[m] EXCEPT !.contact = 0])
RenewalDue(live, g, m) == last_contact(live, g, m) >= Session \div 2
Answer(code, epoch, assignment) == [code |-> code, epoch |-> epoch, assignment |-> assignment]
Refuse(code) == Answer(code, Nil, Nil)
Refused(code) == [code |-> code, answer |-> Refuse(code)]
Done(before, g, m, live, answer) ==
  [code |-> "None", group |-> Contacted(before, g, m), changed |-> g # before,
   renew |-> g = before /\ RenewalDue(live, g, m), answer |-> answer]
Left(before, g, answer) == [code |-> "None", group |-> g, changed |-> g # before, renew |-> FALSE, answer |-> answer]

applyLeave(before, g, rq) ==
  IF rq.member \notin Members(g) THEN Refused("UnknownMemberId")
  ELSE Left(before, RetargetIf(g # before \/ ~StaysStatic(g, rq), leave(g, rq)), Answer("None", rq.epoch, Nil))

Sends(before, g, rq) ==
  LET r == g.members[rq.member] IN
  \/ rq.epoch # r.epoch
  \/ rq.member \notin Members(before)
  \/ before.members[rq.member].assigned # r.assigned
  \/ rq.owned \notin {Nil, r.assigned}
Heard(before, g, rq, live) ==
  Done(before, g, rq.member, live,
       Answer("None", g.members[rq.member].epoch, IF Sends(before, g, rq) THEN g.members[rq.member].assigned ELSE Nil))
Reconciling(g0, g, rq, rebalance) == reconcile(RetargetIf(rebalance \/ g # g0, g), rq.member, rq.owned)
Updated(g, rq, resolved) ==
  refresh_topics(Member(g, rq.member, update_member(g.members[rq.member], rq)), resolved)
applyMember(before, g, rq, rebalance, resolved, live) ==
  Heard(before, Reconciling(g, Updated(g, rq, resolved), rq, rebalance), rq, live)
applyJoin(before, g, joined, rq, resolved, live) ==
  IF joined.code # "None" THEN Refused(joined.code)
  ELSE applyMember(before, joined.group, rq, joined.joined \/ g # before, resolved, live)
applyEpoch(before, g, rq, resolved, live) ==
  IF validate_epoch(g, rq) # "None" THEN Refused(validate_epoch(g, rq))
  ELSE applyMember(before, g, rq, g # before, resolved, live)

\* One ConsumerGroupHeartbeat against the group as read.
Held(held) == IF held = Nil THEN NoGroup ELSE held
applySwept(before, g, rq, resolved, live) ==
  CASE rq.epoch \in {-1, LeavingStatic} -> applyLeave(before, g, rq)
    [] rq.epoch = 0 -> applyJoin(before, g, join(g, rq), rq, resolved, live)
    [] rq.epoch > 0 -> applyEpoch(before, g, rq, resolved, live)
apply(held, rq, resolved, live) ==
  IF held = Nil /\ rq.epoch # 0 THEN Refused("UnknownMemberId")
  ELSE applySwept(Held(held), sweep(Held(held), live), rq, resolved, live)

-----------------------------------------------------------------------------
(* migration.rs: classic members inside a consumer group *)

\* The consumer group a classic generation becomes over the one held.  "absent" are the
\* members whose documents are gone or lapsed; the assignment is Nil mid-rebalance.
\* A member is carried with the last contact its document has.
from_classic(generation, absent, assignment, topics, held, subscribed, contacts) ==
  LET carried == generation.members \ absent
      share(m) == IF assignment = Nil THEN {} ELSE {p \in assignment[m] : p[1] \in DOMAIN topics}
  IN [epoch |-> IF held = Nil \/ held.epoch < generation.id THEN generation.id ELSE held.epoch,
      topics |-> topics,
      classicGeneration |-> generation.id,
      members |-> [m \in carried |->
        [epoch |-> generation.id, previous |-> generation.id, state |-> "Stable", instance |-> Nil,
         subscribed |-> subscribed[m], assignor |-> Nil, contact |-> contacts[m], told |-> NoDeadline,
         assigned |-> share(m), pending |-> {}, target |-> share(m), classic |-> TRUE]]]

waiting_on_unreleased(g, m) ==
  (g.members[m].target \ g.members[m].assigned) \cap owned_by_others(g, m) # {}

\* A classic JoinGroup: the reconciliation a consumer-protocol heartbeat would do.
Seated(g, rq) == IF rq.member \in Members(g) THEN g ELSE Member(g, rq.member, new_member(rq))
Resubscribed(r, rq) == [r EXCEPT !.subscribed = rq.subscribed, !.assignor = Nil, !.classic = TRUE]
classicSeated(before, g1, g2, rq) ==
  LET r == g1.members[rq.member]
      rebalance == g1 # before \/ g2 # g1 \/ r.subscribed # rq.subscribed \/ r.assignor # Nil
  IN reconcile(RetargetIf(rebalance, Member(g2, rq.member, Resubscribed(r, rq))), rq.member, rq.owned)
ClassicHeard(before, g, rq, live) == Done(before, g, rq.member, live, Answer("None", g.members[rq.member].epoch, Nil))
classicJoinSwept(before, g, rq, resolved, live) ==
  IF rq.member \notin Members(g) /\ Cardinality(Members(g)) >= budget.size THEN Refused("GroupMaxSizeReached")
  ELSE ClassicHeard(before, classicSeated(before, Seated(g, rq), refresh_topics(Seated(g, rq), resolved), rq), rq, live)
classicJoin(held, rq, resolved, live) ==
  classicJoinSwept(Held(held), sweep(Held(held), live), rq, resolved, live)

validated(g, rq) ==
  CASE rq.member \notin Members(g) -> "UnknownMemberId"
    [] rq.member \in Members(g) /\ ~g.members[rq.member].classic -> "UnknownMemberId"
    [] rq.member \in Members(g) /\ g.members[rq.member].classic ->
         IF g.members[rq.member].epoch # rq.epoch THEN "IllegalGeneration" ELSE "None"
Validated(before, g, rq, live, answer) ==
  IF validated(g, rq) # "None" THEN Refused(validated(g, rq)) ELSE Done(before, g, rq.member, live, answer)

Behind(g, r) == g.epoch > r.epoch /\ r.state # "UnrevokedPartitions"
classicSynced(before, g, rq, live) ==
  LET r == g.members[rq.member] IN
  IF validated(g, rq) = "None" /\ Behind(g, r) THEN Refused("RebalanceInProgress")
  ELSE Validated(before, g, rq, live, Answer("None", r.epoch, r.assigned))
classicSync(held, rq, live) ==
  IF held = Nil THEN Refused("UnknownMemberId")
  ELSE classicSynced(held, RetargetIf(Swept(held, live) # {}, sweep(held, live)), rq, live)

MustRejoin(g, m) ==
  LET r == g.members[m] IN
  \/ r.epoch < g.epoch
  \/ r.state = "UnrevokedPartitions"
  \/ r.state = "UnreleasedPartitions" /\ ~waiting_on_unreleased(g, m)
classicBeaten(before, g, rq, live) ==
  Validated(before, g, rq, live,
            IF MustRejoin(g, rq.member) THEN Refuse("RebalanceInProgress")
            ELSE Answer("None", g.members[rq.member].epoch, Nil))
RetargetIfChanged(before, g) == RetargetIf(g # before, g)
classicHeartbeat(held, rq, resolved, live) ==
  IF held = Nil THEN Refused("UnknownMemberId")
  ELSE classicBeaten(held, RetargetIfChanged(held, refresh_topics(sweep(held, live), resolved)), rq, live)

classicLeaving(before, g, rq) ==
  Left(before, RetargetIfChanged(before, Without(g, {rq.member})),
       IF rq.member \in Members(g) THEN Answer("None", rq.epoch, Nil) ELSE Refuse("UnknownMemberId"))
classicLeave(held, rq, live) ==
  IF held = Nil THEN Refused("UnknownMemberId") ELSE classicLeaving(held, sweep(held, live), rq)

-----------------------------------------------------------------------------
(* administrator.rs: requests over the shared objects *)

Requests == Client \X {"now", "late"}
Idle == [pc |-> "idle", at |-> Nil, op |-> Nil, member |-> Nil, instance |-> Nil, epoch |-> Nil, owned |-> Nil,
         subscribed |-> Nil, assignor |-> Nil, list |-> Nil, silent |-> {}, since |-> 0, slow |-> 0, next |-> Nil, fresh |-> FALSE,
         seen |-> Nil, checked |-> FALSE, conflicts |-> 0, answer |-> Nil]

Goto(i, rq, pc) == req' = [req EXCEPT ![i] = [rq EXCEPT !.pc = pc]]
\* A request's answer, with what only its processing needed forgotten.
Answered(rq, answer) ==
  [Idle EXCEPT !.pc = "answer", !.op = rq.op, !.member = rq.member, !.epoch = rq.epoch, !.owned = rq.owned, !.answer = answer]
Reply(i, rq, answer) == req' = [req EXCEPT ![i] = Answered(rq, answer)]

\* A write of consumer.json takes every other pending conditional write of it away.
OnDoc == {"write", "build", "completeWrite"}
Overtake(rqs) == [i \in Requests |-> IF rqs[i].pc \in OnDoc THEN [rqs[i] EXCEPT !.fresh = FALSE] ELSE rqs[i]]
\* generation.json never returns to an earlier value, so its etag is its value.
Current(seen) == seen.id = gen.id /\ seen.members = gen.members /\ seen.converted = gen.converted

\* The topics the group's members subscribe to, with the request's subscription for its sender's, that exist.
subscriptions(held, rq) ==
  LET others == IF held = Nil THEN {} ELSE Members(held) \ {rq.member}
      own == IF rq.subscribed # Nil THEN rq.subscribed
             ELSE IF held # Nil /\ rq.member \in Members(held) THEN held.members[rq.member].subscribed ELSE {}
  IN own \cup UNION {held.members[m].subscribed : m \in others}
resolve_topics(names) == [t \in {t \in names : meta[t] > 0} |-> meta[t]]

consumer_metadata_due(rq) ==
  \/ rq.op = "heartbeat" /\ (rq.epoch = 0 \/ rq.subscribed # Nil \/ ~memo[rq.at].checked)
  \/ rq.op = "classicHeartbeat" /\ ~memo[rq.at].checked
  \/ rq.op = "join"

\* The newest stamp of each member when they were listed, and the sender's own as this replica last saw it.
consumer_liveness(rq) ==
  [listed |-> rq.list # Nil,
   contacts |-> [m \in Client |->
     Least({Old} \cup (IF rq.list = Nil THEN {} ELSE rq.list[m])
                 \cup (IF m = rq.member /\ rq.op # "classicLeave" THEN {memo[rq.at].noted[m]} ELSE {}))]]

\* Whether the document names a member whose session has not lapsed, by its stamps.
is_live_consumer ==
  /\ doc # Nil
  /\ \E m \in Members(doc) : Least({doc.members[m].contact} \cup stamps[m]) <= LapsesAfter
\* The classic members whose documents are gone, or a session and its slack old.
Lapsed == {c \in Client : beat[c] > LapsesAfter}
is_live_classic(generation) == ~generation.converted /\ generation.members \ Lapsed # {}

\* Housekeeping of the stamps listed: all but the newest of each member the group has.
Stale(rq) ==
  [m \in Client |-> IF m \in Members(rq.next) /\ rq.list[m] # {} THEN rq.list[m] \ {Least(rq.list[m])} ELSE rq.list[m]]
\* The end of a request whose effect is in place.
Finish(i, rq, rqs) ==
  IF rq.list # Nil /\ \E m \in Client : Stale(rq)[m] # {}
  THEN req' = [rqs EXCEPT ![i] = [rq EXCEPT !.pc = "forget"]] /\ UNCHANGED heard
  ELSE /\ req' = [rqs EXCEPT ![i] = Answered(rq, rq.answer)]
       /\ heard' = [heard EXCEPT ![rq.member] = rq.since]

Step(rq) ==
  LET live == consumer_liveness(rq)
      resolved == IF rq.list = Nil THEN Nil ELSE resolve_topics(subscriptions(doc, rq))
  IN CASE rq.op = "heartbeat" -> apply(doc, rq, resolved, live)
       [] rq.op = "join" -> classicJoin(doc, rq, resolved, live)
       [] rq.op = "sync" -> classicSync(doc, rq, live)
       [] rq.op = "classicHeartbeat" -> classicHeartbeat(doc, rq, resolved, live)
       [] rq.op = "classicLeave" -> classicLeave(doc, rq, live)

Leaving(rq) == rq.op = "classicLeave" \/ (rq.op = "heartbeat" /\ rq.epoch < 0)
Noted(rq, noted) == [memo EXCEPT ![rq.at].noted[rq.member] = noted]

\* The document as read, the step applied to it, at the clock of this iteration.
Settle(i, rq, out) ==
  LET rq1 == [rq EXCEPT !.since = 0, !.answer = out.answer, !.next = out.group]
  IN IF out.code # "None"
     THEN Reply(i, rq, out.answer) /\ UNCHANGED <<memo, heard>>
     ELSE /\ memo' = IF rq.list = Nil THEN memo ELSE [memo EXCEPT ![rq.at].checked = TRUE]
          /\ IF out.changed
             THEN req' = [req EXCEPT ![i] = [rq1 EXCEPT !.pc = "write", !.fresh = TRUE]] /\ UNCHANGED heard
             ELSE IF out.renew
             THEN Goto(i, rq1, "stamp") /\ UNCHANGED heard
             ELSE Finish(i, rq1, req)
ReadDoc(i, rq) == Settle(i, rq, Step(rq))

\* consumer_transition: the stamps, when they are asked for, are listed once, before the first read.
Begin(i, rq0) ==
  LET rq == [rq0 EXCEPT !.conflicts = 0, !.seen = Nil] IN
  /\ IF consumer_metadata_due(rq)
     THEN /\ req' = [req EXCEPT ![i] = [rq EXCEPT !.pc = "read", !.list = stamps, !.since = 0,
                                                  !.silent = {m \in Client : heard[m] > Session}]]
          /\ UNCHANGED <<memo, heard>>
     ELSE ReadDoc(i, rq)
  /\ UNCHANGED <<doc, gen, stamps>>

Read(i) ==
  /\ req[i].pc = "read"
  /\ ReadDoc(i, req[i])
  /\ UNCHANGED <<doc, gen, stamps>>

\* Mutant of GiveUpOr: one attempt too many.
GiveUpLate(i, rq, pc, code) ==
  IF rq.conflicts > MaxConflicts THEN Reply(i, rq, Refuse(code))
  ELSE req' = [req EXCEPT ![i] = [rq EXCEPT !.pc = pc, !.conflicts = @ + 1, !.next = Nil]]
GiveUpOr(i, rq, pc, code) ==
  IF rq.conflicts >= MaxConflicts THEN Reply(i, rq, Refuse(code))
  ELSE req' = [req EXCEPT ![i] = [rq EXCEPT !.pc = pc, !.conflicts = @ + 1, !.next = Nil]]

Write(i) ==
  LET rq == req[i] IN
  /\ rq.pc = "write"
  /\ IF rq.fresh
     THEN /\ doc' = rq.next
          /\ memo' = IF rq.member \in Members(rq.next) /\ ~Leaving(rq) THEN Noted(rq, rq.since) ELSE memo
          /\ Finish(i, [rq EXCEPT !.fresh = FALSE], Overtake(req))
     ELSE GiveUpOr(i, rq, "read", "CoordinatorLoadInProgress") /\ UNCHANGED <<doc, memo, heard>>
  /\ UNCHANGED <<gen, stamps>>

renew_consumer_member(i) ==
  LET rq == req[i] IN
  /\ rq.pc = "stamp"
  /\ stamps' = [stamps EXCEPT ![rq.member] = @ \cup {rq.since}]
  /\ memo' = Noted(rq, rq.since)
  /\ Finish(i, rq, req)
  /\ UNCHANGED <<doc, gen>>

forget_stale_stamps(i) ==
  LET rq == req[i] IN
  /\ rq.pc = "forget"
  /\ stamps' = [m \in Client |-> stamps[m] \ Stale(rq)[m]]
  /\ Reply(i, rq, rq.answer)
  /\ heard' = [heard EXCEPT ![rq.member] = rq.since]
  /\ UNCHANGED <<doc, gen, memo>>

\* A consumer-protocol join: may it join this group at all?
Admit(i, rq) ==
  /\ Goto(i, rq, IF is_live_consumer THEN "begin" ELSE "admitView")
  /\ UNCHANGED <<doc, gen, stamps, memo, heard>>

\* complete_conversion counts its conflicts from 0, whoever asks for it.
Complete(i, rq) == Goto(i, [rq EXCEPT !.conflicts = 0], "complete")

\* What convert asks of a classic group before it touches it.  That the group's protocol type is
\* "consumer", and that its subscriptions and assignments decode, goes with the policy.
Convertible(generation) == budget.upgrade /\ Cardinality(generation.members) <= budget.size

AdmitView(i) ==
  LET rq == [req[i] EXCEPT !.seen = gen] IN
  /\ rq.pc = "admitView"
  /\ CASE gen.converted -> Complete(i, rq)
       [] ~gen.converted /\ ~is_live_classic(gen) -> Goto(i, rq, "begin")
       [] ~gen.converted /\ is_live_classic(gen) ->
            IF Convertible(gen) THEN Goto(i, rq, "mark") ELSE Reply(i, rq, Refuse("GroupIdNotFound"))
  /\ UNCHANGED <<doc, gen, stamps, memo, heard>>

\* convert: one conditional write of generation.json is the commit point.
Mark(i) ==
  LET rq == req[i] IN
  /\ rq.pc = "mark"
  /\ IF Current(rq.seen)
     THEN /\ gen' = [gen EXCEPT !.converted = TRUE]
          /\ Complete(i, [rq EXCEPT !.seen = gen'])
     ELSE GiveUpOr(i, rq, "admit", "CoordinatorLoadInProgress") /\ UNCHANGED gen
  /\ UNCHANGED <<doc, stamps, memo, heard>>

\* complete_conversion goes back to whoever asked for it.
Completed(rq) == IF rq.op = "join" THEN "routeLive" ELSE "begin"

\* It reads what is held, then what there is to carry, and writes over what it read.
complete_conversion(i) ==
  LET rq == req[i] IN
  /\ rq.pc = "complete"
  /\ IF doc # Nil /\ doc.classicGeneration = rq.seen.id
     THEN Goto(i, rq, Completed(rq))
     ELSE req' = [req EXCEPT ![i] = [rq EXCEPT !.pc = "build", !.next = doc, !.fresh = TRUE]]
  /\ UNCHANGED <<doc, gen, stamps, memo, heard>>

converted(i) ==
  LET rq == req[i]
      names == UNION {client[m].subscribed : m \in rq.seen.members}
  IN
  /\ rq.pc = "build"
  /\ Goto(i, [rq EXCEPT !.next = from_classic(rq.seen, Lapsed, IF gen.id = rq.seen.id THEN gen.assignment ELSE Nil,
                                              resolve_topics(names), rq.next,
                                              [m \in Client |-> client[m].subscribed], beat)], "completeWrite")
  /\ UNCHANGED <<doc, gen, stamps, memo, heard>>

CompleteWrite(i) ==
  LET rq == req[i]
      done == [rq EXCEPT !.pc = Completed(rq), !.next = Nil, !.fresh = FALSE] IN
  /\ rq.pc = "completeWrite"
  /\ IF rq.fresh
     THEN doc' = rq.next /\ req' = [Overtake(req) EXCEPT ![i] = done]
     ELSE /\ IF rq.conflicts >= MaxConflicts /\ rq.op # "heartbeat"
             THEN req' = [req EXCEPT ![i] = done]
             ELSE GiveUpOr(i, rq, "complete", "CoordinatorLoadInProgress")
          /\ UNCHANGED doc
  /\ UNCHANGED <<gen, stamps, memo, heard>>

\* classic_route: whose is a classic request against the generation as read?
Route(i, rq0) ==
  LET rq == [rq0 EXCEPT !.seen = gen, !.since = 0]
      asks == rq.op = "join" /\ ~rq.checked /\ (gen.converted \/ gen.members = {})
  IN
  /\ CASE rq.op = "join" /\ ~asks -> Goto(i, rq, "classic")
       [] asks /\ gen.converted -> Complete(i, [rq EXCEPT !.checked = TRUE])
       [] asks /\ ~gen.converted -> Goto(i, [rq EXCEPT !.checked = TRUE], "routeLive")
       [] rq.op # "join" /\ gen.converted -> Complete(i, rq)
       [] rq.op # "join" /\ ~gen.converted -> Goto(i, rq, IF rq.member \in gen.members THEN "classic" ELSE "routeDoc")
  /\ UNCHANGED <<doc, gen, stamps, memo, heard>>

RouteLive(i) ==
  LET rq == req[i] IN
  /\ rq.pc = "routeLive"
  /\ CASE is_live_consumer -> Goto(i, rq, "begin")
       [] ~is_live_consumer /\ rq.seen.converted -> Goto(i, rq, "takeBack")
       [] ~is_live_consumer /\ ~rq.seen.converted -> Goto(i, rq, "classic")
  /\ UNCHANGED <<doc, gen, stamps, memo, heard>>

RouteDoc(i) ==
  LET rq == req[i] IN
  /\ rq.pc = "routeDoc"
  /\ Goto(i, rq, IF doc # Nil /\ rq.member \in Members(doc) THEN "begin" ELSE "classic")
  /\ UNCHANGED <<doc, gen, stamps, memo, heard>>

\* Everyone the conversion carried is gone: the group is the classic protocol's again, and read again.
TakeBack(i) ==
  /\ req[i].pc = "takeBack"
  /\ gen' = IF Current(req[i].seen)
            THEN [id |-> gen.id + 1, members |-> {}, converted |-> FALSE, assignment |-> Nil] ELSE gen
  /\ Goto(i, [req[i] EXCEPT !.checked = FALSE], "route")
  /\ UNCHANGED <<doc, stamps, memo, heard>>

\* The classic group's own answer, reduced: a join or a leave moves the generation, its leader
\* computes the assignment, everyone else waits for it.
Leader(generation) == Least(generation.members)
LeaderAssigns(generation) ==
  LET names == UNION {client[m].subscribed : m \in generation.members}
  IN assign("uniform", [m \in generation.members |-> [subscribed |-> client[m].subscribed, previous |-> {}]],
            resolve_topics(names))

\* A member's document after a contact at this request's clock, and the answer that follows it.
Due(rq) == beat[rq.member] - rq.since >= Session \div 2
Stamp(rq) == [beat EXCEPT ![rq.member] = rq.since]
Contact(rq, new) == beat' = IF new \/ Due(rq) THEN Stamp(rq) ELSE beat
\* Once the group is marked, a conversion may have read the document already: such a contact is lost.
ReplyHeard(i, rq, answer) ==
  Reply(i, rq, answer) /\ heard' = IF gen.converted THEN heard ELSE [heard EXCEPT ![rq.member] = rq.since]

\* A join writes its member's document, and then has the generation name it.
ClassicJoins(i) ==
  LET rq == req[i]
      known == rq.member \in rq.seen.members
  IN
  /\ rq.pc = "classic" /\ rq.op = "join"
  /\ Contact(rq, ~known)
  /\ IF known THEN ReplyHeard(i, rq, Answer("None", rq.seen.id, Nil))
     ELSE Goto(i, rq, "classicWrite") /\ UNCHANGED heard
  /\ UNCHANGED <<doc, gen, stamps, memo>>

ClassicWrite(i) ==
  LET rq == req[i] IN
  /\ rq.pc = "classicWrite"
  /\ IF Current(rq.seen)
     THEN /\ gen' = [gen EXCEPT !.id = @ + 1, !.assignment = Nil, !.members = @ \cup {rq.member}]
          /\ ReplyHeard(i, rq, Answer("None", gen'.id, Nil))
     ELSE Goto(i, rq, "route") /\ UNCHANGED <<gen, heard>>
  /\ UNCHANGED <<doc, stamps, memo, beat>>

\* A leave takes the member out of the generation, and then its document.
ClassicLeaves(i) ==
  LET rq == req[i] IN
  /\ rq.pc = "classic" /\ rq.op = "classicLeave"
  /\ IF rq.member \in rq.seen.members THEN Goto(i, rq, "leaveWrite") ELSE Reply(i, rq, Refuse("UnknownMemberId"))
  /\ UNCHANGED <<doc, gen, stamps, memo, heard, beat>>

LeaveWrite(i) ==
  LET rq == req[i] IN
  /\ rq.pc = "leaveWrite"
  /\ IF Current(rq.seen)
     THEN /\ gen' = [gen EXCEPT !.id = @ + 1, !.assignment = Nil, !.members = @ \ {rq.member}]
          /\ beat' = [beat EXCEPT ![rq.member] = Old]
          /\ Reply(i, rq, Answer("None", gen'.id, Nil))
     ELSE GiveUpOr(i, rq, "route", "RebalanceInProgress") /\ UNCHANGED <<gen, beat>>
  /\ UNCHANGED <<doc, stamps, memo, heard>>

\* How a member's generation compares with the group's.
Verdict(rq) ==
  CASE rq.member \notin rq.seen.members -> "UnknownMemberId"
    [] rq.member \in rq.seen.members /\ rq.epoch > rq.seen.id -> "IllegalGeneration"
    [] rq.member \in rq.seen.members /\ rq.epoch < rq.seen.id -> "RebalanceInProgress"
    [] rq.member \in rq.seen.members /\ rq.epoch = rq.seen.id -> "None"

ClassicBeats(i) ==
  LET rq == req[i]
      answer == IF Verdict(rq) = "None" THEN Answer("None", rq.seen.id, Nil) ELSE Refuse(Verdict(rq))
  IN
  /\ rq.pc = "classic" /\ rq.op = "classicHeartbeat"
  /\ IF Verdict(rq) = "UnknownMemberId" THEN Reply(i, rq, answer) /\ UNCHANGED <<heard, beat>>
     ELSE ReplyHeard(i, rq, answer) /\ Contact(rq, FALSE)
  /\ UNCHANGED <<doc, gen, stamps, memo>>

ClassicSyncs(i) ==
  LET rq == req[i]
      assigned == Verdict(rq) = "None" /\ rq.seen.assignment # Nil
      leads == Verdict(rq) = "None" /\ rq.seen.assignment = Nil /\ rq.member = Leader(rq.seen)
      code == IF Verdict(rq) = "None" THEN "RebalanceInProgress" ELSE Verdict(rq)
  IN
  /\ rq.pc = "classic" /\ rq.op = "sync"
  /\ IF leads THEN Goto(i, rq, "classicCreate") /\ UNCHANGED <<heard, beat>>
     ELSE /\ ReplyHeard(i, rq, IF assigned THEN Answer("None", rq.seen.id, rq.seen.assignment[rq.member])
                                          ELSE Refuse(code))
          /\ Contact(rq, FALSE)
  /\ UNCHANGED <<doc, gen, stamps, memo>>

ClassicCreate(i) ==
  LET rq == req[i] IN
  /\ rq.pc = "classicCreate"
  /\ gen' = IF gen.id = rq.seen.id /\ gen.assignment = Nil
            THEN [gen EXCEPT !.assignment = LeaderAssigns(rq.seen)] ELSE gen
  /\ Goto(i, rq, "classicFence")
  /\ UNCHANGED <<doc, stamps, memo, heard, beat>>

ClassicFence(i) ==
  LET rq == req[i] IN
  /\ rq.pc = "classicFence"
  /\ ReplyHeard(i, rq, IF gen.id # rq.seen.id THEN Refuse("RebalanceInProgress")
                       ELSE Answer("None", gen.id, gen.assignment[rq.member]))
  /\ Contact(rq, FALSE)
  /\ UNCHANGED <<doc, gen, stamps, memo>>

-----------------------------------------------------------------------------
(* The consumers, as the protocols have them behave (external).               *)
(* A consumer has one request under way at a time, and takes partitions up or *)
(* gives them up between requests.                                            *)

Free(c) == req[<<c, "now">>].pc = "idle"
Request(c, r, op, epoch, owned) ==
  [Idle EXCEPT !.at = r, !.op = op, !.member = c, !.instance = budget.instance[c], !.epoch = epoch, !.owned = owned]
ConsumerProtocol(c) == client[c].kind = "consumer"

\* A consumer-protocol member reports what it owns once that is what it was told to own,
\* after every assignment it is told, and again when the report may not have got through.
Report(k) == IF k.owned = k.reported \/ k.want # k.owned THEN Nil ELSE k.owned
Heartbeat(c, r) ==
  LET k == client[c]
      rq == Request(c, r, "heartbeat", k.epoch, Report(k))
      full == [rq EXCEPT !.subscribed = IF k.epoch = 0 \/ k.resubscribed THEN k.subscribed ELSE Nil,
                         !.assignor = IF k.epoch = 0 THEN budget.assignor[c] ELSE Nil]
  IN
  /\ Free(c) /\ k.kind = "consumer" /\ k.phase = "in"
  /\ IF k.epoch = 0 THEN Admit(<<c, "now">>, full) ELSE Begin(<<c, "now">>, full)
  /\ UNCHANGED <<meta, client, beat, budget>>

\* It gives up what it was not told to keep, and takes up what it was given.
Reconcile(c) ==
  /\ Free(c) /\ client[c].want # client[c].owned
  /\ client' = [client EXCEPT ![c].owned = client[c].want]
  /\ UNCHANGED <<doc, gen, stamps, memo, meta, req, beat, heard, budget>>

\* A classic member: an eager one gives everything up before it joins, a cooperative one reports
\* what it keeps, and a first-version subscription reports nothing at all.
JoinGroup(c, r) ==
  LET k == client[c]
      keeps == IF k.kind = "cooperative" THEN k.owned ELSE {}
      rq == Request(c, r, "join", k.epoch, IF k.kind = "unversioned" THEN Nil ELSE keeps)
  IN
  /\ Free(c) /\ k.kind # "consumer" /\ k.phase = "out"
  /\ client' = [client EXCEPT ![c].owned = keeps, ![c].want = keeps]
  /\ Route(<<c, "now">>, [rq EXCEPT !.subscribed = k.subscribed])
  /\ UNCHANGED <<meta, beat, budget>>

ClassicRequest(c, r, op, phase) ==
  /\ Free(c) /\ client[c].kind # "consumer" /\ client[c].phase = phase
  /\ Route(<<c, "now">>, Request(c, r, op, client[c].epoch, Nil))
  /\ UNCHANGED <<meta, client, beat, budget>>
SyncGroup(c, r) == ClassicRequest(c, r, "sync", "sync")
ClassicBeat(c, r) == ClassicRequest(c, r, "classicHeartbeat", "in")

Gone(k) == [k EXCEPT !.phase = "gone", !.owned = {}, !.want = {}]
Spend(what) == budget[what] > 0 /\ budget' = [budget EXCEPT ![what] = @ - 1]

\* A consumer closes: for good, or (static) to come back as another process of the same instance.
Leave(c, r) ==
  LET k == client[c]
      epoch == IF budget.instance[c] = Nil THEN -1 ELSE LeavingStatic
  IN
  /\ Spend("leave")
  /\ Free(c) /\ k.phase = "in" /\ k.epoch > 0
  /\ client' = [client EXCEPT ![c] = Gone(k)]
  /\ IF k.kind = "consumer" THEN Begin(<<c, "now">>, Request(c, r, "heartbeat", epoch, Nil))
     ELSE Route(<<c, "now">>, Request(c, r, "classicLeave", k.epoch, Nil))
  /\ UNCHANGED <<meta, beat>>

Crash(c) ==
  /\ Spend("crash")
  /\ client[c].phase # "gone"
  /\ client' = [client EXCEPT ![c] = Gone(client[c])]
  /\ UNCHANGED <<doc, gen, stamps, memo, meta, req, beat, heard>>

\* A classic member nobody has heard from for its session and the slack.
Lapse(c) ==
  /\ client[c].phase = "gone" /\ c \in gen.members \ Lapsed
  /\ beat' = [beat EXCEPT ![c] = Old]
  /\ UNCHANGED <<doc, gen, stamps, memo, meta, req, client, heard, budget>>

Lost(k) == [k EXCEPT !.owned = {}, !.want = {}, !.epoch = 0, !.reported = Nil,
                     !.phase = IF k.kind = "consumer" THEN "in" ELSE "out"]
ConsumerTold(k, rq) ==
  LET a == rq.answer IN
  CASE a.code = "None" ->
         [k EXCEPT !.epoch = a.epoch, !.want = IF a.assignment = Nil THEN @ ELSE a.assignment,
                   !.reported = IF a.assignment # Nil THEN Nil ELSE IF rq.owned = Nil THEN @ ELSE rq.owned, !.resubscribed = FALSE]
    [] a.code \in {"UnknownMemberId", "FencedMemberEpoch"} -> Lost(k)
    [] a.code = "CoordinatorLoadInProgress" -> [k EXCEPT !.reported = Nil]
    [] OTHER -> Gone(k)
ClassicTold(k, rq) ==
  LET a == rq.answer IN
  CASE a.code = "None" /\ rq.op = "join" -> [k EXCEPT !.epoch = a.epoch, !.phase = "sync"]
    [] a.code = "None" /\ rq.op = "sync" ->
         [k EXCEPT !.owned = a.assignment, !.want = a.assignment,
                   !.phase = IF k.owned \subseteq a.assignment THEN "in" ELSE "out"]
    [] a.code \in {"UnknownMemberId", "IllegalGeneration"} -> Lost(k)
    [] a.code \in {"RebalanceInProgress", "CoordinatorLoadInProgress"} -> [k EXCEPT !.phase = "out"]
    [] a.code = "GroupMaxSizeReached" -> Gone(k)
    [] OTHER -> k
Unanswered(k, rq) ==
  CASE k.kind = "consumer" -> [k EXCEPT !.reported = Nil]
    [] k.kind # "consumer" /\ rq.op \in {"join", "sync"} -> [k EXCEPT !.phase = "out"]
    [] OTHER -> k

Told(c) ==
  LET k == client[c]
      rq == req[<<c, "now">>] IN
  /\ rq.pc = "answer"
  /\ client' = [client EXCEPT ![c] = IF k.phase = "gone" THEN k
                                     ELSE IF k.kind = "consumer" THEN ConsumerTold(k, rq) ELSE ClassicTold(k, rq)]
  /\ req' = [req EXCEPT ![<<c, "now">>] = Idle]
  /\ UNCHANGED <<doc, gen, stamps, memo, meta, beat, heard, budget>>

AnswerLost(c) ==
  /\ Spend("lose")
  /\ req[<<c, "now">>].pc = "answer" /\ client[c].phase # "gone"
  /\ client' = [client EXCEPT ![c] = Unanswered(@, req[<<c, "now">>])]
  /\ req' = [req EXCEPT ![<<c, "now">>] = Idle]
  /\ UNCHANGED <<doc, gen, stamps, memo, meta, beat, heard>>

\* The consumer gives a request up that a replica is still serving, and sends another.
TimesOut(c) ==
  LET rq == req[<<c, "now">>] IN
  /\ Spend("late")
  /\ rq.pc \notin {"idle", "answer"} /\ req[<<c, "late">>].pc = "idle" /\ client[c].phase # "gone"
  /\ client' = [client EXCEPT ![c] = Unanswered(@, rq)]
  /\ req' = [req EXCEPT ![<<c, "late">>] = rq, ![<<c, "now">>] = Idle]
  /\ UNCHANGED <<doc, gen, stamps, memo, meta, beat, heard>>
LateAnswer(c) ==
  /\ req[<<c, "late">>].pc = "answer"
  /\ req' = [req EXCEPT ![<<c, "late">>] = Idle]
  /\ UNCHANGED <<doc, gen, stamps, memo, meta, client, beat, heard, budget>>

-----------------------------------------------------------------------------
(* What happens around them *)

\* A topic grows, is created, or is deleted.
ChangeTopic(t, n) ==
  /\ Spend("topic")
  /\ n \in {0, meta[t] + 1} \ {meta[t]}
  /\ meta' = [meta EXCEPT ![t] = n]
  /\ UNCHANGED <<doc, gen, stamps, memo, req, client, beat, heard>>

Resubscribe(c, S) ==
  /\ Spend("resubscribe")
  /\ client[c].kind = "consumer" /\ client[c].phase = "in" /\ Free(c) /\ S # client[c].subscribed
  /\ client' = [client EXCEPT ![c].subscribed = S, ![c].resubscribed = TRUE]
  /\ UNCHANGED <<doc, gen, stamps, memo, meta, req, beat, heard>>

\* CONSUMER_METADATA_REFRESH has passed since this replica last resolved the group's topics.
WindowEnds(r) ==
  /\ memo[r].checked
  /\ memo' = [memo EXCEPT ![r].checked = FALSE]
  /\ UNCHANGED <<doc, gen, stamps, meta, req, client, beat, heard, budget>>

ColdMemo == [checked |-> FALSE, noted |-> [c \in Client |-> Old]]

\* A replica stops, with the requests it was serving, and starts cold.
Restart(r) ==
  LET cut == {c \in Client : req[<<c, "now">>].at = r} IN
  /\ Spend("restart")
  /\ memo' = [memo EXCEPT ![r] = ColdMemo]
  /\ req' = [i \in Requests |-> IF req[i].at = r THEN Idle ELSE req[i]]
  /\ client' = [c \in Client |-> IF c \in cut /\ client[c].phase # "gone"
                                 THEN Unanswered(client[c], req[<<c, "now">>]) ELSE client[c]]
  /\ UNCHANGED <<doc, gen, stamps, meta, beat, heard>>

\* The clock.  No request takes more than a tick, so that a listing is at most that old when it is used.
Aged(g) ==
  IF g = Nil THEN Nil
  ELSE [g EXCEPT !.members = [m \in Members(g) |->
          [@[m] EXCEPT !.contact = Older(@), !.told = IF @ = NoDeadline THEN @ ELSE Older(@)]]]
AgedStamps(f) == IF f = Nil THEN Nil ELSE [c \in Client |-> {Older(age) : age \in f[c]}]
AgedRequest(rq) ==
  [rq EXCEPT !.list = AgedStamps(@), !.next = Aged(@), !.since = IF rq.pc \in {"idle", "answer"} THEN @ ELSE Older(@),
             !.slow = IF rq.pc \in {"idle", "answer"} THEN @ ELSE @ + 1]
Tick ==
  /\ Spend("tick")
  /\ \A i \in Requests : req[i].slow = 0
  /\ doc' = Aged(doc)
  /\ stamps' = AgedStamps(stamps)
  /\ memo' = [r \in Replica |-> [memo[r] EXCEPT !.noted = [c \in Client |-> Older(@[c])]]]
  /\ req' = [i \in Requests |-> AgedRequest(req[i])]
  /\ heard' = [c \in Client |-> Older(heard[c])]
  /\ beat' = [c \in Client |-> Older(beat[c])]
  /\ UNCHANGED <<gen, meta, client>>

-----------------------------------------------------------------------------
Init ==
  \E s \in Scenarios :
    /\ doc = s.doc /\ gen = s.gen /\ meta = s.meta /\ client = s.client /\ budget = s.budget
    /\ stamps = s.stamps /\ heard = s.heard /\ beat = s.beat
    /\ memo = [r \in Replica |-> ColdMemo]
    /\ req = [i \in Requests |-> Idle]

Serve(i) ==
  /\ \/ /\ \/ req[i].pc = "begin" /\ Begin(i, req[i])
           \/ req[i].pc = "admit" /\ Admit(i, req[i])
           \/ req[i].pc = "route" /\ Route(i, req[i])
           \/ Read(i) \/ Write(i) \/ renew_consumer_member(i) \/ forget_stale_stamps(i)
           \/ AdmitView(i) \/ Mark(i) \/ complete_conversion(i) \/ converted(i) \/ CompleteWrite(i)
           \/ RouteLive(i) \/ RouteDoc(i) \/ TakeBack(i)
        /\ UNCHANGED beat
     \/ ClassicJoins(i) \/ ClassicWrite(i) \/ ClassicLeaves(i) \/ LeaveWrite(i)
     \/ ClassicBeats(i) \/ ClassicSyncs(i) \/ ClassicCreate(i) \/ ClassicFence(i)
  /\ UNCHANGED <<meta, client, budget>>

Consume(c) ==
  \/ Told(c) \/ LateAnswer(c) \/ Reconcile(c)
  \/ \E r \in budget.at : Heartbeat(c, r) \/ JoinGroup(c, r) \/ SyncGroup(c, r) \/ ClassicBeat(c, r)

Disturb ==
  \/ \E c \in Client : Crash(c) \/ Lapse(c) \/ AnswerLost(c) \/ TimesOut(c) \/ \E r \in budget.at : Leave(c, r)
  \/ \E c \in Client, S \in SUBSET Topic : Resubscribe(c, S)
  \/ \E t \in Topic, n \in 0..3 : ChangeTopic(t, n)
  \/ \E r \in Replica : Restart(r) \/ WindowEnds(r)
  \/ Tick

Next == (\E i \in Requests : Serve(i)) \/ (\E c \in Client : Consume(c)) \/ Disturb
Spec == Init /\ [][Next]_vars

\* Replicas serve what they are sent and consumers that run keep sending; a consumer does what
\* it is told, however often it heartbeats meanwhile; and a replica's memo runs out.  These are
\* weak fairness of a consumer's steps and its requests', strong fairness of Reconcile and weak
\* fairness of WindowEnds, with the enabling conditions written out.
Pending(c) == ~Free(c) \/ client[c].phase # "gone"
Moved(c) == req'[<<c, "now">>].pc # req[<<c, "now">>].pc
ToReconcile(c) == Free(c) /\ client[c].want # client[c].owned
Reconciled(c) == ToReconcile(c) /\ client'[c].owned = client[c].want
FairSpec ==
  /\ Spec
  /\ \A c \in Client : []<>~Pending(c) \/ []<><<Moved(c)>>_vars
  /\ \A c \in Client : <>[]~ToReconcile(c) \/ []<><<Reconciled(c)>>_vars
  /\ \A r \in Replica : []<>~memo[r].checked

-----------------------------------------------------------------------------
Partition == Topic \X (0..2)
Codes == {"None", "UnknownMemberId", "FencedMemberEpoch", "UnreleasedInstanceId", "GroupMaxSizeReached",
          "CoordinatorLoadInProgress", "GroupIdNotFound", "RebalanceInProgress", "IllegalGeneration"}
MemberType ==
  [epoch : {LeavingStatic} \cup Nat, previous : {-1} \cup Nat \cup {LeavingStatic},
   state : {"Stable", "UnrevokedPartitions", "UnreleasedPartitions"},
   instance : {Nil, 1}, subscribed : SUBSET Topic, assignor : {Nil, "range", "uniform"}, contact : 0..Old,
   told : {NoDeadline} \cup 0..Old, assigned : SUBSET Partition, pending : SUBSET Partition,
   target : SUBSET Partition, classic : BOOLEAN]
GroupOK(g) ==
  \/ g = Nil
  \/ /\ g.epoch \in Nat /\ g.classicGeneration \in Nat \cup {Nil}
     /\ DOMAIN g.topics \subseteq Topic /\ Members(g) \subseteq Client
     /\ \A m \in Members(g) : g.members[m] \in MemberType

\* The shape of every object and of every request under way.
TypeOK ==
  /\ GroupOK(doc)
  /\ gen.id \in Nat /\ gen.members \subseteq Client /\ gen.converted \in BOOLEAN
  /\ stamps \in [Client -> SUBSET (0..Old)]
  /\ heard \in [Client -> 0..Old]
  /\ beat \in [Client -> 0..Old]
  /\ \A i \in Requests :
       /\ GroupOK(req[i].next)
       /\ req[i].conflicts \in 0..MaxConflicts
       /\ req[i].answer = Nil \/ req[i].answer.code \in Codes
  /\ \A c \in Client : client[c].owned \subseteq Partition

\* No partition is ever owned by two members at once: what a consumer acts on is disjoint from
\* what every other member of its consumer group acts on, across rebalances, lost answers and a conversion.
OwnedOnce ==
  doc # Nil => \A c \in Members(doc) : \A d \in Members(doc) \ {c} : client[c].owned \cap client[d].owned = {}

\* A target assignment computed by the coordinator gives every partition somebody subscribes to
\* to exactly one of its subscribers, and no move would even the loads out.
TargetsBalanced ==
  \A i \in Requests : req[i].pc = "write" =>
    LET g == req[i].next
        subscribers(t) == {m \in Members(g) : t \in g.members[m].subscribed}
        load(m) == Cardinality(g.members[m].target)
    IN g.epoch # (IF doc = Nil THEN 0 ELSE doc.epoch) =>
       /\ \A p \in PartitionsOf(g.topics) : subscribers(p[1]) # {} =>
            \E m \in subscribers(p[1]) :
              /\ p \in g.members[m].target
              /\ \A k \in Members(g) \ {m} : p \notin g.members[k].target
              /\ preferred_assignor(g) = "uniform" => \A k \in subscribers(p[1]) : load(m) <= load(k) + 1
       /\ \A m \in Members(g) : g.members[m].target \subseteq PartitionsOf(g.topics)

\* A member is dropped only after a whole session of silence, counted when the request that
\* dropped it listed the stamps, or after its rebalance timeout with partitions to give up.
\* A classic member's silence goes on through its conversion: what its classic requests left in
\* its document before the group was marked counts, what one in flight then leaves does not.
\* A member that took the group back to the classic protocol is no member of this document.
SweptIsSilent ==
  [][\A i \in Requests :
       req[i].pc = "write" /\ req'[i].pc # "write" /\ doc # Nil /\ doc' # doc =>
         \A m \in Members(doc) \ (Members(doc') \cup {req[i].member}) :
           \/ m \in req[i].silent
           \/ is_revocation_overdue(doc.members[m])
           \/ doc.members[m].epoch = LeavingStatic
           \/ m \in gen.members /\ ~gen.converted]_vars

\* Once nothing changes any more, every partition somebody subscribes to is consumed, by the
\* members the target names, unless a member nobody hears from still holds some.
Serving == {c \in Client : client[c].phase # "gone"}
Settled ==
  (doc # Nil /\ Members(doc) = Serving /\ Serving # {}) =>
    /\ \A c \in Serving : client[c].owned = doc.members[c].target
    /\ \A t \in Topic : (\E c \in Serving : t \in client[c].subscribed) =>
         {t} \X (0..(meta[t] - 1)) \subseteq UNION {client[c].owned : c \in Serving}
Converges == <>[]Settled
=============================================================================
