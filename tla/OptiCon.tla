------------------------------ MODULE OptiCon ------------------------------
(***************************************************************************)
(* The optimistic-concurrency cell of dynostore/opticon.rs: a replica      *)
(* caches the value and the version (etag) of one object, and all its      *)
(* tasks share that cache.  A modification is computed from the cache and  *)
(* written if the version is still current; a conflict re-reads and tries  *)
(* again.  Each request is two steps, the store's and the receipt of its   *)
(* answer, so that answers reach a replica in any order.                   *)
(***************************************************************************)
EXTENDS Naturals

CONSTANTS
    Replicas, Tasks,
    Host,               \* [Tasks -> Replicas]
    Values, Absent, Default, Kind, Outcomes, Modify(_, _), Outcome(_, _), Fresh(_)

ASSUME OptiConAssumption ==
    /\ Host \in [Tasks -> Replicas]
    /\ Kind \in [Tasks -> {"mut", "create", "remove", "read"}]
    /\ Absent \notin Values /\ Default \in Values
    /\ \A t \in Tasks : Fresh(t) \in Values
    /\ \A t \in Tasks, v \in Values : Modify(t, v) \in Values
    /\ \A t \in Tasks, v \in Values : Outcome(t, v) \in Outcomes
    /\ {<<"created">>, <<"removed">>} \subseteq Outcomes /\ <<>> \notin Outcomes

VARIABLES
    obj,                \* the object: [ver, val], val = Absent when there is none
    clock,              \* versions the store has handed out
    cache,              \* [Replicas -> DataVersion], None when val = Absent
    pc,                 \* [Tasks -> control point]
    req,                \* [Tasks -> the request]
    resp,               \* [Tasks -> what the store answered]
    late,               \* tasks whose PUT may still land although it failed
    past, owed, reply   \* history: values, outcomes of effects, answers

\* Before an effect, or an answer.
NoAnswer == <<>>

vars == <<obj, clock, cache, pc, req, resp, late, past, owed, reply>>

Versioned == [ver : Nat, val : Values \cup {Absent}]

None == [ver |-> 0, val |-> Absent]

\* A request: the version it is conditional on, the value it writes, and what the
\* call returns if it lands.
Requests == [ver : Nat, val : Values \cup {Absent}, out : Outcomes]

ControlPoints == {"call", "put", "replace", "conflict", "get", "got", "eval",
                  "delete", "clear", "done"}

TypeOK ==
    /\ obj \in Versioned /\ clock \in Nat
    /\ cache \in [Replicas -> Versioned]
    /\ pc \in [Tasks -> ControlPoints]
    /\ req \in [Tasks -> Requests]
    /\ resp \in [Tasks -> Versioned]
    /\ late \subseteq Tasks
    /\ past \subseteq Values \cup {Absent}
    /\ owed \in [Tasks -> Outcomes \cup {NoAnswer}]
    /\ DOMAIN reply = Tasks
   

Init ==
    /\ \E v \in {Absent, Default} : obj = [ver |-> IF v = Absent THEN 0 ELSE 1, val |-> v]
    /\ clock = 1
    /\ cache = [r \in Replicas |-> None]
    /\ pc = [t \in Tasks |-> "call"]
    /\ req = [t \in Tasks |-> [ver |-> 0, val |-> Absent, out |-> <<"removed">>]]
    /\ resp = [t \in Tasks |-> None]
    /\ late = {}
    /\ past = {obj.val}
    /\ owed = [t \in Tasks |-> NoAnswer]
    /\ reply = [t \in Tasks |-> NoAnswer]

Cached(t) == cache[Host[t]]

ValueOf(dv) == IF dv.val = Absent THEN Default ELSE dv.val

Goto(t, l) == pc' = [pc EXCEPT ![t] = l]

Install(t, dv) == cache' = [cache EXCEPT ![Host[t]] = dv]

Answer(t, a) ==
    /\ Goto(t, "done")
    /\ reply' = [reply EXCEPT ![t] = a]

-----------------------------------------------------------------------------
(* Calls: what is read from the cache before the first await.              *)

Request(t, ver, val, out) ==
    req' = [req EXCEPT ![t] = [ver |-> ver, val |-> val, out |-> out]]

\* The loop of with_mut: the closure runs on a copy of the cached value, and the
\* PUT is conditional on the cached version (0: PutMode::Create).
CallMut(t) ==
    /\ pc[t] = "call" /\ Kind[t] = "mut"
    /\ Request(t, Cached(t).ver, Modify(t, ValueOf(Cached(t))),
                  Outcome(t, ValueOf(Cached(t))))
    /\ Goto(t, "put")
    /\ UNCHANGED <<obj, clock, cache, resp, late, past, owed, reply>>

CallCreate(t) ==
    /\ pc[t] = "call" /\ Kind[t] = "create"
    /\ Request(t, 0, Fresh(t), <<"created">>)
    /\ Goto(t, "put")
    /\ UNCHANGED <<obj, clock, cache, resp, late, past, owed, reply>>

\* refresh: the GET is conditional on the cached version.
CallRead(t) ==
    /\ pc[t] = "call" /\ Kind[t] = "read"
    /\ Request(t, Cached(t).ver, Absent, req[t].out)
    /\ Goto(t, "get")
    /\ UNCHANGED <<obj, clock, cache, resp, late, past, owed, reply>>

CallRemove(t) ==
    /\ pc[t] = "call" /\ Kind[t] = "remove"
    /\ Goto(t, "delete")
    /\ UNCHANGED <<obj, clock, cache, req, resp, late, past, owed, reply>>

\* Mutant: a conflict is retried from the cache as it is.
RereadNot(t) ==
    /\ pc[t] = "conflict"
    /\ Goto(t, "call")
    /\ UNCHANGED <<obj, clock, cache, req, resp, late, past, owed, reply>>

\* After a conflict, with_mut reads without a condition and create refreshes.
Reread(t) ==
    /\ pc[t] = "conflict"
    /\ Request(t, IF Kind[t] = "mut" THEN 0 ELSE Cached(t).ver, Absent, req[t].out)
    /\ Goto(t, "get")
    /\ UNCHANGED <<obj, clock, cache, resp, late, past, owed, reply>>

-----------------------------------------------------------------------------
(* The store: conditional PUT, conditional GET, DELETE.                    *)

\* Mutant: a PUT over an object ignores the version.
MatchesLoose(t) == (req[t].ver = 0) = (obj.val = Absent)

Matches(t) ==
    \/ req[t].ver = 0 /\ obj.val = Absent
    \/ req[t].ver = obj.ver /\ obj.val # Absent

Effect(t, v, outcome) ==
    /\ obj' = [ver |-> clock + 1, val |-> v]
    /\ clock' = clock + 1
    /\ past' = past \cup {v}
    /\ owed' = [owed EXCEPT ![t] = outcome]

PutLands(t) ==
    /\ pc[t] = "put" /\ Matches(t)
    /\ Effect(t, req[t].val, req[t].out)
    /\ resp' = [resp EXCEPT ![t] = [ver |-> clock + 1, val |-> req[t].val]]
    /\ Goto(t, "replace")
    /\ UNCHANGED <<cache, req, late, reply>>

PutConflicts(t) ==
    /\ pc[t] = "put" /\ ~ Matches(t)
    /\ Goto(t, "conflict")
    /\ UNCHANGED <<obj, clock, cache, req, resp, late, past, owed, reply>>

\* Any other error goes to the caller: the PUT was refused, or is still under way.
PutFails(t) ==
    /\ pc[t] = "put"
    /\ Answer(t, <<"error">>)
    /\ late' \in {late, late \cup {t}}
    /\ UNCHANGED <<obj, clock, cache, req, resp, past, owed>>

LateLands(t) ==
    /\ t \in late /\ Matches(t)
    /\ Effect(t, req[t].val, req[t].out)
    /\ late' = late \ {t}
    /\ UNCHANGED <<cache, pc, req, resp, reply>>

\* The object as it is; NotFound is None.  When the version is the one the
\* request carries, this stands for NotModified.
GetServed(t) ==
    /\ pc[t] = "get"
    /\ resp' = [resp EXCEPT ![t] = IF obj.val = Absent THEN None ELSE obj]
    /\ Goto(t, "got")
    /\ UNCHANGED <<obj, clock, cache, req, late, past, owed, reply>>

DeleteServed(t) ==
    /\ pc[t] = "delete"
    /\ Effect(t, Absent, <<"removed">>)
    /\ Goto(t, "clear")
    /\ UNCHANGED <<cache, req, resp, late, reply>>

\* A GET or a DELETE fails, or the answer to a PUT or a DELETE that took effect
\* is lost.
RequestFails(t) ==
    /\ pc[t] \in {"get", "delete", "replace", "clear"}
    /\ Answer(t, <<"error">>)
    /\ UNCHANGED <<obj, clock, cache, req, resp, late, past, owed>>

-----------------------------------------------------------------------------
(* Receipts: the cache is replaced under its lock.                         *)

\* The PUT's answer: the cache takes what was written.
Replace(t) ==
    /\ pc[t] = "replace"
    /\ Install(t, resp[t])
    /\ Answer(t, req[t].out)
    /\ UNCHANGED <<obj, clock, req, resp, late, past, owed>>

Clear(t) ==
    /\ pc[t] = "clear"
    /\ Install(t, None)
    /\ Answer(t, <<"removed">>)
    /\ UNCHANGED <<obj, clock, req, resp, late, past, owed>>

NotModified(t) == resp[t].val # Absent /\ resp[t].ver = req[t].ver

\* Mutant: the cache takes the version and keeps its value.
GotVersionOnly(t) ==
    /\ pc[t] = "got"
    /\ IF NotModified(t) \/ Cached(t).val = Absent THEN Install(t, resp[t])
       ELSE Install(t, [ver |-> resp[t].ver, val |-> Cached(t).val])
    /\ \/ Kind[t] = "mut" /\ Goto(t, "call") /\ UNCHANGED reply
       \/ Kind[t] = "create" /\ Answer(t, <<"exists">>)
       \/ Kind[t] = "read" /\ Goto(t, "eval") /\ UNCHANGED reply
    /\ UNCHANGED <<obj, clock, req, resp, late, past, owed>>

\* The GET's answer: the cache takes it unless NotModified.  A modification then
\* loops, a create reports that the object exists, a read goes on to evaluate.
Got(t) ==
    /\ pc[t] = "got"
    /\ IF NotModified(t) THEN UNCHANGED cache ELSE Install(t, resp[t])
    /\ \/ Kind[t] = "mut" /\ Goto(t, "call") /\ UNCHANGED reply
       \/ Kind[t] = "create" /\ Answer(t, <<"exists">>)
       \/ Kind[t] = "read" /\ Goto(t, "eval") /\ UNCHANGED reply
    /\ UNCHANGED <<obj, clock, req, resp, late, past, owed>>

\* The read evaluates the cache under a lock of its own, taken after refresh.
Eval(t) ==
    /\ pc[t] = "eval"
    /\ Answer(t, <<"read", Cached(t).val>>)
    /\ UNCHANGED <<obj, clock, cache, req, resp, late, past, owed>>

Progress(t) ==
    \/ CallMut(t) \/ CallCreate(t) \/ CallRead(t) \/ CallRemove(t) \/ Reread(t)
    \/ PutLands(t) \/ PutConflicts(t) \/ GetServed(t) \/ DeleteServed(t)
    \/ Replace(t) \/ Clear(t) \/ Got(t) \/ Eval(t)

Next == \E t \in Tasks : Progress(t) \/ PutFails(t) \/ LateLands(t) \/ RequestFails(t)

Spec == Init /\ [][Next]_vars

-----------------------------------------------------------------------------
(* Properties.                                                             *)

Object == INSTANCE AtomicObject WITH val <- obj.val

\* The cell implements the atomic object: with_mut, create and remove take effect
\* at most once and at one instant, whatever the replicas' caches hold, and what
\* the caller is told is what happened to the value it happened to.
Implements == Object!Spec

\* A cached value is the value its version has: a cache that holds the current
\* version holds the current value (what makes the conditional PUT sound).
CacheCoherent ==
    \A r \in Replicas : cache[r].val # Absent /\ cache[r].ver = obj.ver
                            => cache[r].val = obj.val
=============================================================================
