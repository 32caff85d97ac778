---------------------------- MODULE ClassicGroup ----------------------------
(***************************************************************************)
(* The classic consumer group of coordinator/group/administrator.rs.  A    *)
(* group is three kinds of object: generation.json (written under CAS),    *)
(* members/{id}.json (the member's subscription and its last contact) and  *)
(* assignment/{generation} (create-only).  Replicas keep nothing: every    *)
(* request reads the objects, decides, and writes.  A step is one access   *)
(* to the store with the computation that follows it.  A document that is  *)
(* read and then written under CAS is one step: the write lands only if    *)
(* the document is as it was read, and a lost write changes nothing.       *)
(***************************************************************************)
EXTENDS Integers

CONSTANTS
    Members,            \* member ids, as numbers: admission compares them
    Requests,           \* requests that can be in flight
    Owner,              \* [Requests -> Members]: who sends it
    Topics,             \* the sets of topics a member may subscribe to
    First,              \* [Members -> Topics]: its first subscription
    Budgets             \* how often each of Events may happen

Events == {"sweep", "lapse", "change", "lose", "fail", "leave", "commit"}

ASSUME GroupAssumption ==
    /\ Members \subseteq Nat \ {0}
    /\ Owner \in [Requests -> Members]
    /\ First \in [Members -> Topics]
    /\ Budgets \subseteq [Events -> Nat]
    /\ 0 \notin Requests

VARIABLES
    gen,                \* generation.json; seq = 0 when there is none
    doc,                \* member documents, by id
    asg,                \* assignments, by generation
    req,                \* [Requests -> where the request is and what it read]
    client,             \* [Members -> what the client was told]
    want,               \* [Members -> the topics the client subscribes to]
    top,                \* history: the last generation a member was given an assignment of
    budget

vars == <<gen, doc, asg, req, client, want, top, budget>>

Nobody == 0
Empty == [x \in {} |-> x]
Maps == UNION {[S -> Topics] : S \in SUBSET Members}
With(f, x, v) == [y \in DOMAIN f \cup {x} |-> IF y = x THEN v ELSE f[y]]
Without(f, S) == [y \in DOMAIN f \ S |-> f[y]]

\* generation.json.  A group that does not exist reads as the default document,
\* and a new one is born one below its first generation.
NoGroup == [seq |-> 0, id |-> -1, leader |-> Nobody, members |-> {}]

GenerationDoc == [seq : Nat, id : Int, leader : Members \cup {Nobody},
                  members : SUBSET Members]

\* live: the last contact is recent enough for is_expired to say no.
MemberDoc == [subs : Topics, live : BOOLEAN]

ControlPoints ==
    {"idle", "read", "claim", "verdict", "evict", "drop", "member", "admit", "cas",
     "decide", "list", "once", "create", "fence", "beat", "leave", "commit"}

Kinds == {"join", "sync", "heartbeat", "leave", "commit"}

Idle(r) == [pc |-> "idle", op |-> "join", gen |-> -1, subs |-> First[Owner[r]],
            map |-> Empty, view |-> NoGroup, changed |-> FALSE, ids |-> {}, seen |-> -1]

\* gen, subs, map: what the request says.  view: generation.json as read.  changed:
\* membership_changed.  ids: whom a sweep evicts, a join admits, a leave removes.
\* seen: top when the request was sent.
Request == [pc : ControlPoints, op : Kinds, gen : Int, subs : Topics, map : Maps,
            view : GenerationDoc, changed : BOOLEAN, ids : SUBSET Members, seen : Int]

\* A client has to join, has joined, is assigned, or is done.  map: what the leader
\* assigns over after a join, the assignment after a sync.  on: the request it awaits.
Client == [st : {"out", "joined", "stable", "gone"}, gen : Int, map : Maps,
           on : Requests \cup {Nobody}]

TypeOK ==
    /\ gen \in GenerationDoc
    /\ DOMAIN doc \subseteq Members /\ \A m \in DOMAIN doc : doc[m] \in MemberDoc
    /\ DOMAIN asg \subseteq Nat /\ \A g \in DOMAIN asg : asg[g] \in Maps
    /\ req \in [Requests -> Request]
    /\ client \in [Members -> Client]
    /\ want \in [Members -> Topics]
    /\ top \in Int
    /\ budget \in [Events -> Nat]

Init ==
    /\ gen = NoGroup /\ doc = Empty /\ asg = Empty
    /\ req = [r \in Requests |-> Idle(r)]
    /\ client = [m \in Members |-> [st |-> "out", gen |-> -1, map |-> Empty, on |-> Nobody]]
    /\ want = First
    /\ top = -1
    /\ budget \in Budgets

Spend(e) == budget[e] > 0 /\ budget' = [budget EXCEPT ![e] = @ - 1]

-----------------------------------------------------------------------------
(* Clients (external): a consumer joins, syncs, heartbeats, and commits.   *)

Send(m, r, op, topics, map) ==
    /\ client[m].on = Nobody /\ Owner[r] = m /\ req[r].pc = "idle"
    /\ req' = [req EXCEPT ![r] = [@ EXCEPT !.pc = "read", !.op = op, !.gen = client[m].gen,
                                           !.subs = topics, !.map = map, !.seen = top]]
    /\ client' = [client EXCEPT ![m].on = r]
    /\ UNCHANGED <<gen, doc, asg, want, top>>

SendJoin(m, r) ==
    /\ client[m].st = "out"
    /\ Send(m, r, "join", want[m], Empty)
    /\ UNCHANGED budget

\* The leader sends the assignment it made of the list that its join returned.
SendSync(m, r) ==
    /\ client[m].st = "joined"
    /\ Send(m, r, "sync", First[m], client[m].map)
    /\ UNCHANGED budget

SendHeartbeat(m, r) ==
    /\ client[m].st = "stable"
    /\ Send(m, r, "heartbeat", First[m], Empty)
    /\ UNCHANGED budget

\* Also from the revoke callback, before the next join.
SendCommit(m, r) ==
    /\ client[m].st \in {"stable", "out"} /\ client[m].gen >= 0
    /\ Spend("commit")
    /\ Send(m, r, "commit", First[m], Empty)

SendLeave(m, r) ==
    /\ client[m].st # "gone"
    /\ Spend("leave")
    /\ Send(m, r, "leave", First[m], Empty)

\* A client that changes its subscription joins again.
Resubscribe(m) ==
    /\ client[m].st # "gone" /\ client[m].on = Nobody
    /\ Spend("change")
    /\ want' \in {[want EXCEPT ![m] = s] : s \in Topics \ {want[m]}}
    /\ client' = [client EXCEPT ![m].st = "out", ![m].map = Empty]
    /\ UNCHANGED <<gen, doc, asg, req, top>>

\* No answer: a join or a sync starts over, a heartbeat or a commit is sent again.
Interrupted(m, op) ==
    LET c == [client[m] EXCEPT !.on = Nobody]
    IN  CASE op \in {"join", "sync"} -> [c EXCEPT !.st = "out", !.map = Empty]
          [] op = "leave" -> [c EXCEPT !.st = "gone", !.map = Empty]
          [] OTHER -> c

\* The connection breaks: the request runs on, and nobody hears its answer.
LoseAnswer(m) ==
    /\ client[m].on # Nobody
    /\ Spend("lose")
    /\ client' = [client EXCEPT ![m] = Interrupted(m, req[client[m].on].op)]
    /\ UNCHANGED <<gen, doc, asg, req, want, top>>

\* A member is silent for longer than its session and the renewal window.
Lapse(m) ==
    /\ m \in DOMAIN doc /\ doc[m].live
    /\ Spend("lapse")
    /\ doc' = [doc EXCEPT ![m].live = FALSE]
    /\ UNCHANGED <<gen, asg, req, client, want, top>>

-----------------------------------------------------------------------------
(* What every request does.                                                *)

Goto(r, l) == req' = [req EXCEPT ![r].pc = l]

See(r, g, l) == req' = [req EXCEPT ![r].view = g, ![r].pc = l]

Handler(op) == CASE op = "join" -> "member"
                 [] op = "sync" -> "once"
                 [] op = "heartbeat" -> "beat"
                 [] op = "leave" -> "leave"
                 [] op = "commit" -> "commit"

Answer(r, c) ==
    /\ req' = [req EXCEPT ![r] = Idle(r)]
    /\ client' = IF client[Owner[r]].on = r THEN [client EXCEPT ![Owner[r]] = c] ELSE client

\* None of a heartbeat or a commit; RebalanceInProgress and IllegalGeneration;
\* UnknownMemberId, after which a client takes a new id.
Proceed(m) == [client[m] EXCEPT !.on = Nobody]
Rejoin(m) == [client[m] EXCEPT !.st = "out", !.map = Empty, !.on = Nobody]
Unknown(m) == [client[m] EXCEPT !.st = "gone", !.map = Empty, !.on = Nobody]

\* renew_member: a document that is there gets a fresh stamp.
Renew(m) == doc' = IF m \in DOMAIN doc THEN [doc EXCEPT ![m].live = TRUE] ELSE doc

\* Mutant: an earlier generation's assignment is taken for the group's.
InForceAnyGeneration(g) ==
    IF g.leader = Nobody THEN {} ELSE {asg[h] : h \in {h \in DOMAIN asg : h <= g.id}}

\* The assignment in force is the generation's own, if its leader has written it: the
\* second read of read_view, done when a handler asks for it.
InForce(g) ==
    IF g.leader # Nobody /\ g.id \in DOMAIN asg THEN {asg[g.id]} ELSE {}

Formed(g) == InForce(g) # {}

Rebalanced(g) == [g EXCEPT !.id = @ + 1]

Bumped(g) == [g EXCEPT !.seq = @ + 1]

\* update_group_generation: the version that was read is still there.
Current(r) == gen.seq = req[r].view.seq

\* read_view.  Join, sync and heartbeat then sweep, if session/2 has gone by since
\* the last one.
ReadView(r) ==
    /\ req[r].pc = "read"
    /\ \/ See(r, gen, Handler(req[r].op))
       \/ /\ req[r].op \in {"join", "sync", "heartbeat"} /\ gen.members # {}
          /\ budget["sweep"] > 0
          /\ See(r, gen, "claim")
    /\ UNCHANGED <<gen, doc, asg, client, want, top, budget>>

\* A request that dies with its replica, or on an error of the store.
Fail(r) ==
    /\ req[r].pc # "idle"
    /\ Spend("fail")
    /\ Answer(r, Interrupted(Owner[r], req[r].op))
    /\ UNCHANGED <<gen, doc, asg, want, top>>

-----------------------------------------------------------------------------
(* sweep                                                                   *)

\* The sweep is claimed by the CAS that stamps swept_at_ms.  Whoever loses it goes
\* on with the generation as it is now.
SweepClaim(r) ==
    /\ req[r].pc = "claim"
    /\ Spend("sweep")
    /\ IF Current(r)
       THEN gen' = Bumped(gen) /\ See(r, gen', "verdict")
       ELSE See(r, gen, Handler(req[r].op)) /\ UNCHANGED gen
    /\ UNCHANGED <<doc, asg, client, want, top>>

\* The verdict on every member the generation names: no document, one that cannot be
\* read, or a lapsed one.
SweepVerdict(r) ==
    /\ req[r].pc = "verdict"
    /\ \E unread \in SUBSET req[r].view.members :
          LET lapsed == {m \in req[r].view.members : m \in DOMAIN doc => ~ doc[m].live}
              expired == lapsed \cup unread
          IN  /\ IF unread = {} THEN UNCHANGED budget ELSE Spend("fail")
              /\ IF expired = {} THEN Goto(r, Handler(req[r].op))
                 ELSE req' = [req EXCEPT ![r].ids = expired, ![r].pc = "evict"]
    /\ UNCHANGED <<gen, doc, asg, client, want, top>>

Evicted(g, ids) ==
    Bumped(Rebalanced([g EXCEPT !.members = @ \ ids, !.leader = Nobody]))

SweepEvict(r) ==
    /\ req[r].pc = "evict"
    /\ IF Current(r)
       THEN gen' = Evicted(gen, req[r].ids) /\ See(r, gen', "drop")
       ELSE See(r, gen, Handler(req[r].op)) /\ UNCHANGED gen
    /\ UNCHANGED <<doc, asg, client, want, top, budget>>

\* The documents of the members that are out are deleted, each at best.
SweepDrop(r) ==
    /\ req[r].pc = "drop" /\ req[r].op # "leave"
    /\ doc' \in {Without(doc, S) : S \in SUBSET req[r].ids}
    /\ Goto(r, Handler(req[r].op))
    /\ UNCHANGED <<gen, asg, client, want, top, budget>>

-----------------------------------------------------------------------------
(* join                                                                    *)

\* The generation a join writes: itself and those it admits are members, and it
\* leads if nobody in the group does.
Joined(r) ==
    LET m == Owner[r]
        v == req[r].view
        n == IF req[r].changed
             THEN Rebalanced([v EXCEPT !.members = @ \cup {m} \cup req[r].ids])
             ELSE v
    IN  Bumped(IF n.leader \in n.members THEN n ELSE [n EXCEPT !.leader = m])

\* The member's document, which is written before the generation admits it.  A
\* rejoin changes the composition only if the topics are not those it holds.
JoinMember(r) ==
    /\ req[r].pc = "member"
    /\ LET m == Owner[r]
           v == req[r].view
           topicsChanged == m \in DOMAIN doc => doc[m].subs # req[r].subs
           changed == m \notin v.members \/ topicsChanged
       IN  /\ doc' = With(doc, m, [subs |-> req[r].subs, live |-> TRUE])
           /\ req' = [req EXCEPT ![r].changed = changed, ![r].ids = {},
                        ![r].pc = IF m \notin v.members THEN "admit"
                                  ELSE IF changed \/ v.leader \notin v.members THEN "cas"
                                  ELSE "decide"]
    /\ UNCHANGED <<gen, asg, client, want, top, budget>>

\* pending_admissions: recent documents that the generation does not name, as far as
\* the listing shows them.  The lowest id is to admit them all; the others wait for
\* it for a while (ADMISSION_DEFER).
JoinAdmit(r) ==
    /\ req[r].pc = "admit"
    /\ \E pending \in SUBSET {m \in DOMAIN doc \ (req[r].view.members \cup {Owner[r]}) :
                                  doc[m].live} :
          \/ (\E m \in pending : m < Owner[r]) /\ Goto(r, "read")
          \/ req' = [req EXCEPT ![r].ids = pending, ![r].pc = "cas"]
    /\ UNCHANGED <<gen, doc, asg, client, want, top, budget>>

JoinCas(r) ==
    /\ req[r].pc = "cas"
    /\ IF Current(r)
       THEN gen' = Joined(r) /\ See(r, gen', "decide")
       ELSE Goto(r, "read") /\ UNCHANGED gen
    /\ UNCHANGED <<doc, asg, client, want, top, budget>>

\* join_long_poll: a leader with an assignment, and a member that one names, are
\* answered at once; the others are answered when the membership is quiescent or
\* their time is up.
JoinWait(r) ==
    /\ req[r].pc = "decide"
    /\ \A a \in InForce(req[r].view) :
           Owner[r] # req[r].view.leader /\ Owner[r] \notin DOMAIN a
    /\ Goto(r, "read")
    /\ UNCHANGED <<gen, doc, asg, client, want, top, budget>>

JoinRespond(r) ==
    /\ req[r].pc = "decide"
    /\ IF req[r].view.leader = Owner[r] THEN Goto(r, "list") /\ UNCHANGED client
       ELSE Answer(r, [st |-> "joined", gen |-> req[r].view.id, map |-> Empty, on |-> Nobody])
    /\ UNCHANGED <<gen, doc, asg, want, top, budget>>

\* Mutant: a member with no document is left out of the leader's list.
JoinMembersPartial(r) ==
    /\ req[r].pc = "list"
    /\ Answer(r, [st |-> "joined", gen |-> req[r].view.id, on |-> Nobody,
                  map |-> [m \in req[r].view.members \cap DOMAIN doc |-> doc[m].subs]])
    /\ UNCHANGED <<gen, doc, asg, want, top, budget>>

\* join_members: the leader's list is complete, or the leader has to join again.
JoinMembers(r) ==
    /\ req[r].pc = "list"
    /\ IF req[r].view.members \subseteq DOMAIN doc
       THEN Answer(r, [st |-> "joined", gen |-> req[r].view.id, on |-> Nobody,
                       map |-> [m \in req[r].view.members |-> doc[m].subs]])
       ELSE Answer(r, Rejoin(Owner[r]))
    /\ UNCHANGED <<gen, doc, asg, want, top, budget>>

-----------------------------------------------------------------------------
(* sync                                                                    *)

Granted(r, map) ==
    /\ Answer(r, [st |-> "stable", gen |-> req[r].gen, map |-> map, on |-> Nobody])
    /\ top' = IF client[Owner[r]].on = r /\ req[r].gen > top THEN req[r].gen ELSE top

\* sync_long_poll when there is no assignment to hand out: told so at once when the
\* group is forming another generation, after a wait otherwise.  In a group that is
\* not forming, the wait ends in RebalanceInProgress whatever the answer was.
Held(r, g, c) ==
    /\ \/ (Formed(g) \/ g.id = req[r].gen) /\ Goto(r, "read") /\ UNCHANGED client
       \/ Answer(r, IF Formed(g) THEN Rejoin(Owner[r]) ELSE c)
    /\ UNCHANGED top

SyncOnce(r) ==
    /\ req[r].pc = "once"
    /\ LET m == Owner[r]
           v == req[r].view
       IN  \/ m \notin v.members /\ Held(r, v, Unknown(m))
           \/ m \in v.members /\ v.id # req[r].gen /\ Held(r, v, Rejoin(m))
           \/ /\ m \in v.members /\ v.id = req[r].gen
              /\ \E a \in InForce(v) :
                    IF m \in DOMAIN a THEN Granted(r, a) ELSE Held(r, v, Rejoin(m))
           \/ /\ m \in v.members /\ v.id = req[r].gen /\ ~ Formed(v)
              /\ IF v.leader = m /\ m \in DOMAIN req[r].map
                 THEN Goto(r, "create") /\ UNCHANGED <<client, top>>
                 ELSE Held(r, v, Rejoin(m))
    /\ Renew(Owner[r])
    /\ UNCHANGED <<gen, asg, want, budget>>

\* create_group_assignment: one key, one winner; the loser adopts what is there.
SyncCreate(r) ==
    /\ req[r].pc = "create"
    /\ LET g == req[r].view.id
       IN  /\ asg' = IF g \in DOMAIN asg THEN asg ELSE With(asg, g, req[r].map)
           /\ req' = [req EXCEPT ![r].map = asg'[g], ![r].pc = "fence"]
    /\ UNCHANGED <<gen, doc, client, want, top, budget>>

\* The generation is read again: if the group has left it, nobody will honour the
\* assignment.  Otherwise older ones are deleted, at best.
SyncFence(r) ==
    /\ req[r].pc = "fence"
    /\ IF gen.id = req[r].view.id
       THEN /\ Granted(r, req[r].map)
            /\ asg' \in {asg, Without(asg, {g \in DOMAIN asg : g < gen.id - 1})}
       ELSE Held(r, gen, Rejoin(Owner[r])) /\ UNCHANGED asg
    /\ Renew(Owner[r])
    /\ UNCHANGED <<gen, want, budget>>

-----------------------------------------------------------------------------
(* heartbeat, leave, offset_commit                                         *)

\* Mutant: a heartbeat of an earlier generation is answered None.
HeartbeatAnyGeneration(r) ==
    /\ req[r].pc = "beat"
    /\ IF Owner[r] \notin req[r].view.members
       THEN Answer(r, Unknown(Owner[r])) /\ UNCHANGED doc
       ELSE Renew(Owner[r]) /\ Answer(r, Proceed(Owner[r]))
    /\ UNCHANGED <<gen, asg, want, top, budget>>

Heartbeat(r) ==
    /\ req[r].pc = "beat"
    /\ IF Owner[r] \notin req[r].view.members
       THEN Answer(r, Unknown(Owner[r])) /\ UNCHANGED doc
       ELSE /\ Renew(Owner[r])
            /\ Answer(r, IF req[r].gen = req[r].view.id THEN Proceed(Owner[r])
                         ELSE Rejoin(Owner[r]))
    /\ UNCHANGED <<gen, asg, want, top, budget>>

Left(g, m) ==
    Bumped(Rebalanced([g EXCEPT !.members = @ \ {m},
                                !.leader = IF @ = m THEN Nobody ELSE @]))

Leave(r) ==
    /\ req[r].pc = "leave"
    /\ LET m == Owner[r]
       IN  IF m \notin req[r].view.members THEN Answer(r, Unknown(m)) /\ UNCHANGED gen
           ELSE /\ UNCHANGED client
                /\ IF Current(r)
                   THEN /\ gen' = Left(gen, m)
                        /\ req' = [req EXCEPT ![r].ids = {m}, ![r].pc = "drop"]
                   ELSE Goto(r, "read") /\ UNCHANGED gen
    /\ UNCHANGED <<doc, asg, want, top, budget>>

LeaveDrop(r) ==
    /\ req[r].pc = "drop" /\ req[r].op = "leave"
    /\ doc' \in {Without(doc, S) : S \in SUBSET req[r].ids}
    /\ Answer(r, Unknown(Owner[r]))
    /\ UNCHANGED <<gen, asg, want, top, budget>>

\* Mutant: one generation behind is accepted, assignment or not.
StaleCommitAcceptedLoose(r) == req[r].view.id - 1 = req[r].gen

\* stale_commit_verdict: exactly one generation behind, and before the current one
\* has an assignment.
StaleCommitAccepted(r) ==
    req[r].view.id - 1 = req[r].gen /\ req[r].view.id \notin DOMAIN asg

CommitAccepted(r) ==
    /\ req[r].pc = "commit" /\ Owner[r] \in req[r].view.members
    /\ req[r].gen = req[r].view.id \/ StaleCommitAccepted(r)
    /\ Renew(Owner[r])
    /\ Answer(r, Proceed(Owner[r]))
    /\ UNCHANGED <<gen, asg, want, top, budget>>

CommitRefused(r) ==
    /\ req[r].pc = "commit"
    /\ IF Owner[r] \in req[r].view.members
       THEN /\ ~ (req[r].gen = req[r].view.id \/ StaleCommitAccepted(r))
            /\ Renew(Owner[r])
            /\ Answer(r, Rejoin(Owner[r]))
       ELSE Answer(r, Unknown(Owner[r])) /\ UNCHANGED doc
    /\ UNCHANGED <<gen, asg, want, top, budget>>

-----------------------------------------------------------------------------

Serve(r) ==
    \/ ReadView(r) \/ SweepClaim(r) \/ SweepVerdict(r) \/ SweepEvict(r) \/ SweepDrop(r)
    \/ JoinMember(r) \/ JoinAdmit(r) \/ JoinCas(r) \/ JoinWait(r) \/ JoinRespond(r)
    \/ JoinMembers(r) \/ SyncOnce(r) \/ SyncCreate(r) \/ SyncFence(r) \/ Heartbeat(r)
    \/ Leave(r) \/ LeaveDrop(r) \/ CommitAccepted(r) \/ CommitRefused(r)

Next ==
    \/ \E m \in Members, r \in Requests :
          SendJoin(m, r) \/ SendSync(m, r) \/ SendHeartbeat(m, r) \/ SendCommit(m, r)
             \/ SendLeave(m, r)
    \/ \E m \in Members : Resubscribe(m) \/ LoseAnswer(m) \/ Lapse(m)
    \/ \E r \in Requests : Serve(r) \/ Fail(r)

Spec == Init /\ [][Next]_vars

\* A client goes on with what it has to do, and a request with its next step.  A
\* poll that waits is answered in the end: its wait is bounded by the session.
Sends(m) ==
    \E r \in Requests : SendJoin(m, r) \/ SendSync(m, r) \/ SendHeartbeat(m, r)

FairSpec ==
    /\ Spec
    /\ \A m \in Members : WF_vars(Sends(m))
    /\ \A r \in Requests :
          /\ WF_vars(Serve(r))
          /\ SF_vars(JoinAdmit(r) /\ req'[r].pc = "cas")
          /\ SF_vars(JoinRespond(r))
          /\ SF_vars(SyncOnce(r) /\ req'[r].pc # "read")
          /\ SF_vars(SyncFence(r) /\ req'[r].pc # "read")

-----------------------------------------------------------------------------
(* Properties.                                                             *)

\* A generation never regresses and is never reused: whatever changes the members
\* moves it on, and within one the leader, once elected, stays.
GenerationsNeverReused ==
    [][/\ gen'.id >= gen.id
       /\ gen'.members # gen.members => gen'.id > gen.id
       /\ gen'.id = gen.id /\ gen.leader # Nobody => gen'.leader = gen.leader]_vars

\* The leader is a member: nobody else would ever assign, and every follower's sync
\* would be refused (#240).
LeaderIsMember == gen.leader = Nobody \/ gen.leader \in gen.members

\* The group's assignment covers its members, all and only: a member that it left
\* out would be told to join again and again into a generation that does not move.
AssignmentCovers == gen.id \in DOMAIN asg => DOMAIN asg[gen.id] = gen.members

\* Members that act on the group's generation, or on the one before it, act on the same
\* assignment, the one that is stored (older ones may be deleted, and written again by
\* a leader that is late).
AssignmentAgreed ==
    \A m \in Members :
        client[m].st = "stable" /\ client[m].gen >= gen.id - 1
            => client[m].gen \in DOMAIN asg /\ client[m].map = asg[client[m].gen]

\* A commit is refused if a later generation's assignment was handed out before it was
\* sent: it would overwrite what the partitions' new owner commits.  Unless the group
\* leaves the commit two generations behind between its two reads: the assignment it
\* would be refused for may be deleted by then.
CommitFenced ==
    [][\A r \in Requests : CommitAccepted(r) =>
          req[r].seen <= req[r].gen \/ gen.id > req[r].view.id + 1]_vars

\* What a member is assigned was computed from what it subscribes to: a changed topic
\* set must rebalance.
SubscriptionAssigned ==
    \A m \in Members : client[m].st = "stable" => client[m].map[m] = want[m]

\* The group converges: in the end every client that is still there has the assignment
\* of the current generation.
Converges ==
    <>[](\A m \in Members :
            client[m].st = "gone" \/ (client[m].st = "stable" /\ client[m].gen = gen.id))
=============================================================================
