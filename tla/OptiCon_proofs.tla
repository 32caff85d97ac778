--------------------------- MODULE OptiCon_proofs ---------------------------
(***************************************************************************)
(* OptiCon implements AtomicObject, for any number of replicas and calls   *)
(* and any closures: the caches may be stale, answers may arrive out of    *)
(* order, and requests may fail, be lost or land late.                     *)
(***************************************************************************)
EXTENDS OptiCon, TLAPS

\* A value with its version, when the object is o and c versions were handed out:
\* a version stands for one value, and only for an object that exists.
SoundAt(dv, o, c) ==
    /\ dv \in Versioned /\ dv.ver <= c
    /\ dv.val = Absent <=> dv.ver = 0
    /\ dv.ver = o.ver /\ dv.ver # 0 => dv.val = o.val

Sound(dv) == SoundAt(dv, obj, clock)

\* A PUT that may still land was computed from the value its version stands for.
ComputedAt(t, q, o, c) ==
    \/ /\ Kind[t] = "create"
       /\ q.ver = 0 /\ q.val = Fresh(t) /\ q.out = <<"created">>
    \/ /\ Kind[t] = "mut"
       /\ q.ver <= c
       /\ \E b \in Values :
             /\ q.ver = 0 => b = Default
             /\ q.ver = o.ver /\ q.ver # 0 => b = o.val
             /\ q.val = Modify(t, b) /\ q.out = Outcome(t, b)

Computed(t) == ComputedAt(t, req[t], obj, clock)

ObjInv ==
    /\ obj.ver <= clock
    /\ obj.val # Absent => obj.ver # 0
    /\ obj.val \in past

\* A cache that is not empty was filled with a value the object has had.
ReplicaInv(r) ==
    /\ Sound(cache[r])
    /\ cache[r].ver # 0 => cache[r].val \in past

\* Of each call: an answer under way is sound, a PUT that may land is computed, an
\* effect happened exactly where the control says so, the call is answered when
\* it is done, and a read is about to evaluate a value the object has had (its
\* cache was filled, by itself or before it sent a condition).
TaskInv(t) ==
    /\ pc[t] \in {"replace", "got"} => Sound(resp[t]) /\ resp[t].val \in past
    /\ pc[t] = "put" \/ t \in late => Computed(t)
    /\ pc[t] \notin {"replace", "clear", "done"} => owed[t] = NoAnswer
    /\ t \in late => pc[t] = "done" /\ owed[t] = NoAnswer
    /\ pc[t] = "replace" => owed[t] = req[t].out
    /\ pc[t] = "clear" => owed[t] = <<"removed">> /\ Absent \in past
    /\ pc[t] # "done" => reply[t] = NoAnswer
    /\ pc[t] = "delete" => Kind[t] = "remove"
    /\ pc[t] = "eval" => Kind[t] = "read"
    /\ pc[t] = "eval" \/ (pc[t] \in {"get", "got"} /\ req[t].ver # 0)
           => Cached(t).val \in past

IInv ==
    /\ TypeOK /\ ObjInv
    /\ \A r \in Replicas : ReplicaInv(r)
    /\ \A t \in Tasks : TaskInv(t)

-----------------------------------------------------------------------------
(* Versions.                                                               *)

\* The empty cache is sound.
LEMMA NoneSound ==
    ASSUME NEW o, NEW c \in Nat
    PROVE  None \in Versioned /\ None.ver = 0 /\ None.val = Absent /\ SoundAt(None, o, c)
  BY DEF None, SoundAt, Versioned

\* What a GET of an existing object returns is sound.
LEMMA ObjectSound ==
    ASSUME NEW o \in Versioned, NEW c \in Nat, o.ver <= c, o.val # Absent, o.ver # 0
    PROVE  SoundAt(o, o, c)
  BY DEF SoundAt

\* What a PUT wrote is sound.
LEMMA WrittenSound ==
    ASSUME OptiConAssumption, NEW v \in Values, NEW c \in Nat,
           NEW dv, dv = [ver |-> c + 1, val |-> v]
    PROVE  dv \in Versioned /\ dv.val = v /\ dv.ver = c + 1 /\ SoundAt(dv, dv, c + 1)
  BY DEF SoundAt, Versioned, OptiConAssumption

\* A new version takes nothing from what was sound.
LEMMA SoundStep ==
    ASSUME NEW o, NEW c \in Nat, NEW o2, o2.ver = c + 1, NEW dv, SoundAt(dv, o, c)
    PROVE  SoundAt(dv, o2, c + 1)
  <1>1. dv.ver \in Nat
    BY DEF SoundAt, Versioned
  <1>2. dv.ver <= c
    BY Zenon DEF SoundAt
  <1>3. dv.ver <= c + 1 /\ dv.ver # c + 1
    BY <1>1, <1>2
  <1> QED BY <1>3, Zenon DEF SoundAt

\* What is computed from a sound cache may be put.
LEMMA ComputedNew ==
    ASSUME OptiConAssumption, NEW t \in Tasks, Kind[t] = "mut", NEW o, NEW c \in Nat,
           NEW dv, SoundAt(dv, o, c),
           NEW q, q.ver = dv.ver, q.val = Modify(t, ValueOf(dv)),
           q.out = Outcome(t, ValueOf(dv))
    PROVE  ComputedAt(t, q, o, c) /\ ValueOf(dv) \in Values
  <1>1. dv.val \in Values \cup {Absent} /\ dv.ver <= c
    BY DEF SoundAt, Versioned
  <1>2. ValueOf(dv) \in Values
    BY <1>1, Zenon DEF ValueOf, OptiConAssumption
  <1>3. q.ver = 0 => ValueOf(dv) = Default
    BY Zenon DEF SoundAt, ValueOf
  <1>4. q.ver = o.ver /\ q.ver # 0 => ValueOf(dv) = o.val
    BY Zenon DEF SoundAt, ValueOf
  <1> QED BY <1>1, <1>2, <1>3, <1>4, Zenon DEF ComputedAt

\* A new version leaves a pending PUT computed as it was (it will conflict).
LEMMA ComputedStep ==
    ASSUME NEW t \in Tasks, NEW o, NEW c \in Nat, NEW o2, o2.ver = c + 1,
           NEW q, q.ver \in Nat, ComputedAt(t, q, o, c)
    PROVE  ComputedAt(t, q, o2, c + 1)
  <1>1. CASE Kind[t] = "create" /\ q.ver = 0 /\ q.val = Fresh(t) /\ q.out = <<"created">>
    BY <1>1, Zenon DEF ComputedAt
  <1>2. CASE /\ Kind[t] = "mut" /\ q.ver <= c
             /\ \E b \in Values :
                   /\ q.ver = 0 => b = Default
                   /\ q.ver = o.ver /\ q.ver # 0 => b = o.val
                   /\ q.val = Modify(t, b) /\ q.out = Outcome(t, b)
    <2>1. q.ver <= c + 1 /\ q.ver # c + 1
      BY <1>2
    <2> QED BY <1>2, <2>1, Zenon DEF ComputedAt
  <1> QED BY <1>1, <1>2, Zenon DEF ComputedAt

\* A PUT that matches applies the closure to the object as it is.
LEMMA ComputedLands ==
    ASSUME OptiConAssumption, NEW t \in Tasks, NEW o, NEW c, NEW q,
           ComputedAt(t, q, o, c),
           (q.ver = 0 /\ o.val = Absent) \/ (q.ver = o.ver /\ o.val # Absent /\ o.ver # 0)
    PROVE  LET cur == IF o.val = Absent THEN Default ELSE o.val
           IN  \/ /\ Kind[t] = "create" /\ q.val = Fresh(t) /\ q.out = <<"created">>
                  /\ o.val = Absent /\ q.val \in Values
               \/ /\ Kind[t] = "mut" /\ q.val = Modify(t, cur) /\ q.out = Outcome(t, cur)
                  /\ q.val \in Values
  <1>1. CASE Kind[t] = "create" /\ q.ver = 0 /\ q.val = Fresh(t) /\ q.out = <<"created">>
    <2>1. o.val = Absent
      BY <1>1, Zenon
    <2> QED BY <1>1, <2>1, Zenon DEF OptiConAssumption
  <1>2. CASE Kind[t] = "mut"
    <2>1. PICK b \in Values :
                   /\ q.ver = 0 => b = Default
                   /\ q.ver = o.ver /\ q.ver # 0 => b = o.val
                   /\ q.val = Modify(t, b) /\ q.out = Outcome(t, b)
      BY <1>2, Zenon DEF ComputedAt
    <2>2. b = IF o.val = Absent THEN Default ELSE o.val
      BY <2>1, Zenon
    <2> QED BY <1>2, <2>1, <2>2, Zenon DEF OptiConAssumption
  <1> QED BY <1>1, <1>2, Zenon DEF ComputedAt

-----------------------------------------------------------------------------
(* What a step of one call leaves of the others.                           *)

Same(u) ==
    /\ pc'[u] = pc[u] /\ req'[u] = req[u] /\ resp'[u] = resp[u]
    /\ reply'[u] = reply[u] /\ owed'[u] = owed[u]
    /\ u \in late' <=> u \in late

\* A step that does not touch the object, and fills a cache with a sound value the
\* object has had, if any.
LEMMA OthersQuiet ==
    ASSUME OptiConAssumption, IInv, NEW t \in Tasks, UNCHANGED <<obj, clock, past>>,
           \A u \in Tasks \ {t} : Same(u),
           \/ cache' = cache
           \/ \E dv : /\ Sound(dv) /\ dv.val \in past
                      /\ cache' = [cache EXCEPT ![Host[t]] = dv]
    PROVE  /\ ObjInv' /\ cache' \in [Replicas -> Versioned]
           /\ \A r \in Replicas : ReplicaInv(r)'
           /\ \A u \in Tasks \ {t} : TaskInv(u)'
  <1>1. ObjInv'
    BY Zenon DEF IInv, ObjInv
  <1>2. \A r \in Replicas : cache'[r] = cache[r] \/ (Sound(cache'[r]) /\ cache'[r].val \in past)
    BY Zenon DEF IInv, TypeOK
  <1>3. \A r \in Replicas : ReplicaInv(r)'
    BY <1>2, Zenon DEF IInv, ReplicaInv, Sound
  <1>4. ASSUME NEW u \in Tasks \ {t} PROVE TaskInv(u)'
    <2>1. TaskInv(u) /\ Same(u) /\ Host[u] \in Replicas
      BY Zenon DEF IInv, OptiConAssumption
    <2>2. Cached(u).val \in past => Cached(u)'.val \in past'
      BY <1>2, <2>1, Zenon DEF Cached
    <2> QED BY <2>1, <2>2, Zenon DEF TaskInv, Same, Sound, Computed
  <1>5. cache' \in [Replicas -> Versioned]
    <2>1. \A dv : Sound(dv) => dv \in Versioned
      BY Zenon DEF Sound, SoundAt
    <2> QED BY <2>1, Zenon DEF IInv, TypeOK
  <1> QED BY <1>1, <1>3, <1>4, <1>5, Zenon

\* A step that gives the object a new version.
LEMMA OthersEffect ==
    ASSUME OptiConAssumption, IInv, NEW t \in Tasks, NEW v \in Values \cup {Absent},
           obj' = [ver |-> clock + 1, val |-> v], clock' = clock + 1,
           past' = past \cup {v}, cache' = cache,
           \A u \in Tasks \ {t} : Same(u)
    PROVE  /\ ObjInv' /\ obj' \in Versioned /\ clock' \in Nat
           /\ past' \subseteq Values \cup {Absent}
           /\ \A r \in Replicas : ReplicaInv(r)'
           /\ \A u \in Tasks \ {t} : TaskInv(u)'
  <1>1. clock \in Nat /\ clock + 1 \in Nat /\ clock + 1 # 0 /\ clock + 1 <= clock + 1
    BY DEF IInv, TypeOK
  <1>2. obj'.ver = clock + 1 /\ obj'.val = v /\ obj' \in Versioned
    BY <1>1 DEF Versioned
  <1>3. ObjInv'
    BY <1>1, <1>2, Zenon DEF ObjInv
  <1>4. \A dv : Sound(dv) => SoundAt(dv, obj', clock')
    BY <1>1, <1>2, SoundStep, Zenon DEF Sound
  <1>5. \A r \in Replicas : ReplicaInv(r)'
    BY <1>4, Zenon DEF IInv, ReplicaInv, Sound
  <1>6. ASSUME NEW u \in Tasks \ {t} PROVE TaskInv(u)'
    <2>1. TaskInv(u) /\ Same(u) /\ req[u] \in Requests
      BY Zenon DEF IInv, TypeOK
    <2>2. req[u].ver \in Nat
      BY <2>1 DEF Requests
    <2>3. Computed(u) => ComputedAt(u, req[u], obj', clock')
      BY <1>1, <1>2, <2>2, ComputedStep, Zenon DEF Computed
    <2>4. Sound(resp[u]) => SoundAt(resp[u], obj', clock')
      BY <1>4, Zenon
    <2>5. Cached(u)' = Cached(u)
      BY Zenon DEF Cached
    <2> QED BY <2>1, <2>3, <2>4, <2>5, Zenon DEF TaskInv, Same, Sound, Computed
  <1>7. past' \subseteq Values \cup {Absent}
    BY Zenon DEF IInv, TypeOK
  <1> QED BY <1>1, <1>2, <1>3, <1>5, <1>6, <1>7, Zenon

-----------------------------------------------------------------------------
(* One lemma per action.                                                   *)

\* From a call of one task, with its types, to the invariant.
LEMMA QuietStep ==
    ASSUME OptiConAssumption, IInv, NEW t \in Tasks,
           UNCHANGED <<obj, clock, past, owed>>,
           \A u \in Tasks \ {t} : Same(u),
           \/ cache' = cache
           \/ \E dv : /\ Sound(dv) /\ dv.val \in past
                      /\ cache' = [cache EXCEPT ![Host[t]] = dv],
           pc' \in [Tasks -> ControlPoints], req' \in [Tasks -> Requests],
           resp' \in [Tasks -> Versioned], late' \subseteq Tasks,
           DOMAIN reply' = Tasks,
           TaskInv(t)'
    PROVE  IInv'
  <1>1. /\ ObjInv' /\ cache' \in [Replicas -> Versioned]
        /\ \A r \in Replicas : ReplicaInv(r)'
        /\ \A u \in Tasks \ {t} : TaskInv(u)'
    BY OthersQuiet, Zenon
  <1>2. TypeOK'
    BY <1>1, Zenon DEF IInv, TypeOK
  <1>3. \A u \in Tasks : TaskInv(u)'
    BY <1>1, Zenon
  <1> QED BY <1>1, <1>2, <1>3, Zenon DEF IInv

\* The types of a task's state, and its invariant.
LEMMA TaskFacts ==
    ASSUME OptiConAssumption, IInv, NEW t \in Tasks
    PROVE  /\ pc \in [Tasks -> ControlPoints] /\ req \in [Tasks -> Requests]
           /\ resp \in [Tasks -> Versioned] /\ late \subseteq Tasks
           /\ DOMAIN reply = Tasks
           /\ cache \in [Replicas -> Versioned] /\ obj \in Versioned /\ clock \in Nat
           /\ owed \in [Tasks -> Outcomes \cup {NoAnswer}]
           /\ Host[t] \in Replicas /\ TaskInv(t) /\ ReplicaInv(Host[t]) /\ ObjInv
  BY Zenon DEF IInv, TypeOK, OptiConAssumption

\* The loop of with_mut computes its PUT from the cache.
LEMMA CallMutStep ==
    ASSUME OptiConAssumption, IInv, NEW t \in Tasks, CallMut(t)
    PROVE  IInv'
  <1> DEFINE dv == Cached(t)
             q == [ver |-> dv.ver, val |-> Modify(t, ValueOf(dv)),
                   out |-> Outcome(t, ValueOf(dv))]
  <1>1. /\ pc \in [Tasks -> ControlPoints] /\ req \in [Tasks -> Requests]
        /\ resp \in [Tasks -> Versioned] /\ late \subseteq Tasks
        /\ DOMAIN reply = Tasks
        /\ clock \in Nat /\ TaskInv(t) /\ ReplicaInv(Host[t])
    BY TaskFacts, Zenon
  <1>2. /\ pc[t] = "call" /\ Kind[t] = "mut"
        /\ req' = [req EXCEPT ![t] = q]
        /\ pc' = [pc EXCEPT ![t] = "put"]
        /\ UNCHANGED <<obj, clock, cache, resp, late, past, owed, reply>>
    BY Zenon DEF CallMut, Request, Goto
  <1>3. dv \in Versioned /\ Sound(dv)
    BY <1>1, Zenon DEF ReplicaInv, Sound, SoundAt, Cached
  <1>4. q.ver = dv.ver /\ q.val = Modify(t, ValueOf(dv)) /\ q.out = Outcome(t, ValueOf(dv))
    OBVIOUS
  <1>5. ComputedAt(t, q, obj, clock) /\ ValueOf(dv) \in Values
    <2> HIDE DEF q, dv
    <2> QED BY <1>1, <1>2, <1>3, <1>4, ComputedNew, Zenon DEF Sound
  <1>6. dv.ver \in Nat
    BY <1>3 DEF Versioned
  <1>7. q \in Requests
    BY <1>5, <1>6 DEF Requests, OptiConAssumption
  <1> HIDE DEF q, dv
  <1>8. req' \in [Tasks -> Requests] /\ pc' \in [Tasks -> ControlPoints]
    BY <1>1, <1>2, <1>7, Zenon DEF ControlPoints
  <1>9. pc'[t] = "put" /\ req'[t] = q
    BY <1>1, <1>2, Zenon
  <1>10. \A u \in Tasks \ {t} : Same(u)
    BY <1>1, <1>2, Zenon DEF Same
  <1>11. TaskInv(t)'
    BY <1>1, <1>2, <1>5, <1>9, Zenon DEF TaskInv, Computed
  <1> QED BY <1>1, <1>2, <1>8, <1>10, <1>11, QuietStep, Zenon

\* A create computes its PUT.
LEMMA CallCreateStep ==
    ASSUME OptiConAssumption, IInv, NEW t \in Tasks, CallCreate(t)
    PROVE  IInv'
  <1> DEFINE q == [ver |-> 0, val |-> Fresh(t), out |-> <<"created">>]
  <1>1. /\ pc \in [Tasks -> ControlPoints] /\ req \in [Tasks -> Requests]
        /\ resp \in [Tasks -> Versioned] /\ late \subseteq Tasks
        /\ DOMAIN reply = Tasks
        /\ obj \in Versioned /\ clock \in Nat
        /\ TaskInv(t) /\ ReplicaInv(Host[t]) /\ ObjInv
    BY TaskFacts, Zenon
  <1>2. /\ pc[t] = "call" /\ Kind[t] = "create"
        /\ req' = [req EXCEPT ![t] = q]
        /\ pc' = [pc EXCEPT ![t] = "put"]
        /\ UNCHANGED <<obj, clock, cache, resp, late, past, owed, reply>>
    BY Zenon DEF CallCreate, Request, Goto
  <1>3. q.ver = 0 /\ q.val = Fresh(t) /\ q.out = <<"created">>
    OBVIOUS
  <1>4. q \in Requests
    BY DEF Requests, OptiConAssumption
  <1> HIDE DEF q
  <1>5. req' \in [Tasks -> Requests] /\ pc' \in [Tasks -> ControlPoints]
    BY <1>1, <1>2, <1>4, Zenon DEF ControlPoints
  <1>6. pc'[t] = "put" /\ req'[t] = q
    BY <1>1, <1>2, Zenon
  <1>7. \A u \in Tasks \ {t} : Same(u)
    BY <1>1, <1>2, Zenon DEF Same
  <1>8. TaskInv(t)'
    BY <1>1, <1>2, <1>3, <1>6, Zenon DEF TaskInv, Computed, ComputedAt
  <1> QED BY <1>1, <1>2, <1>5, <1>7, <1>8, QuietStep, Zenon

\* A read sends the cached version.
LEMMA CallReadStep ==
    ASSUME OptiConAssumption, IInv, NEW t \in Tasks, CallRead(t)
    PROVE  IInv'
  <1> DEFINE q == [ver |-> Cached(t).ver, val |-> Absent, out |-> req[t].out]
  <1>1. /\ pc \in [Tasks -> ControlPoints] /\ req \in [Tasks -> Requests]
        /\ resp \in [Tasks -> Versioned] /\ late \subseteq Tasks
        /\ DOMAIN reply = Tasks
        /\ obj \in Versioned /\ clock \in Nat
        /\ TaskInv(t) /\ ReplicaInv(Host[t]) /\ ObjInv
    BY TaskFacts, Zenon
  <1>2. /\ pc[t] = "call" /\ Kind[t] = "read"
        /\ req' = [req EXCEPT ![t] = q]
        /\ pc' = [pc EXCEPT ![t] = "get"]
        /\ UNCHANGED <<obj, clock, cache, resp, late, past, owed, reply>>
    BY Zenon DEF CallRead, Request, Goto
  <1>3. q.ver = cache[Host[t]].ver /\ Cached(t)' = cache[Host[t]]
    BY <1>2 DEF Cached
  <1>4. cache[Host[t]] \in Versioned
    BY <1>1, Zenon DEF ReplicaInv, Sound, SoundAt
  <1>5. q \in Requests /\ obj.ver \in Nat
    BY <1>1, <1>4 DEF Requests, Versioned, Cached
  <1> HIDE DEF q
  <1>6. /\ req' \in [Tasks -> Requests] /\ pc' \in [Tasks -> ControlPoints]
    BY <1>1, <1>2, <1>5, Zenon DEF ControlPoints
  <1>7. pc'[t] = "get" /\ req'[t] = q
    BY <1>1, <1>2, Zenon
  <1>8. \A u \in Tasks \ {t} : Same(u)
    BY <1>1, <1>2, Zenon DEF Same
  <1>9. TaskInv(t)'
    BY <1>1, <1>2, <1>3, <1>7, Zenon DEF TaskInv, ReplicaInv
  <1> QED BY <1>1, <1>2, <1>6, <1>8, <1>9, QuietStep, Zenon

\* After a conflict the object is read again.
LEMMA RereadStep ==
    ASSUME OptiConAssumption, IInv, NEW t \in Tasks, Reread(t)
    PROVE  IInv'
  <1> DEFINE ver == IF Kind[t] = "mut" THEN 0 ELSE Cached(t).ver
             q == [ver |-> ver, val |-> Absent, out |-> req[t].out]
  <1>1. /\ pc \in [Tasks -> ControlPoints] /\ req \in [Tasks -> Requests]
        /\ resp \in [Tasks -> Versioned] /\ late \subseteq Tasks
        /\ DOMAIN reply = Tasks
        /\ obj \in Versioned /\ clock \in Nat
        /\ TaskInv(t) /\ ReplicaInv(Host[t]) /\ ObjInv
    BY TaskFacts, Zenon
  <1>2. /\ pc[t] = "conflict"
        /\ req' = [req EXCEPT ![t] = q]
        /\ pc' = [pc EXCEPT ![t] = "get"]
        /\ UNCHANGED <<obj, clock, cache, resp, late, past, owed, reply>>
    BY Zenon DEF Reread, Request, Goto
  <1>3. /\ q.ver = 0 \/ q.ver = cache[Host[t]].ver
        /\ Cached(t)' = cache[Host[t]]
    BY <1>2 DEF Cached
  <1>4. cache[Host[t]] \in Versioned
    BY <1>1, Zenon DEF ReplicaInv, Sound, SoundAt
  <1>5. q \in Requests
    BY <1>1, <1>4 DEF Requests, Versioned, Cached
  <1> HIDE DEF q
  <1>6. req' \in [Tasks -> Requests] /\ pc' \in [Tasks -> ControlPoints]
    BY <1>1, <1>2, <1>5, Zenon DEF ControlPoints
  <1>7. pc'[t] = "get" /\ req'[t] = q
    BY <1>1, <1>2, Zenon
  <1>8. \A u \in Tasks \ {t} : Same(u)
    BY <1>1, <1>2, Zenon DEF Same
  <1>9. TaskInv(t)'
    BY <1>1, <1>2, <1>3, <1>7, Zenon DEF TaskInv, ReplicaInv
  <1> QED BY <1>1, <1>2, <1>6, <1>8, <1>9, QuietStep, Zenon

\* A remove sends its DELETE.
LEMMA CallRemoveStep ==
    ASSUME OptiConAssumption, IInv, NEW t \in Tasks, CallRemove(t)
    PROVE  IInv'
  <1>1. /\ pc \in [Tasks -> ControlPoints] /\ req \in [Tasks -> Requests]
        /\ resp \in [Tasks -> Versioned] /\ late \subseteq Tasks
        /\ DOMAIN reply = Tasks
        /\ obj \in Versioned /\ clock \in Nat
        /\ TaskInv(t) /\ ReplicaInv(Host[t]) /\ ObjInv
    BY TaskFacts, Zenon
  <1>2. /\ pc[t] = "call" /\ Kind[t] = "remove"
        /\ pc' = [pc EXCEPT ![t] = "delete"]
        /\ UNCHANGED <<obj, clock, cache, req, resp, late, past, owed, reply>>
    BY Zenon DEF CallRemove, Goto
  <1>3. pc' \in [Tasks -> ControlPoints] /\ pc'[t] = "delete"
    BY <1>1, <1>2, Zenon DEF ControlPoints
  <1>4. \A u \in Tasks \ {t} : Same(u)
    BY <1>1, <1>2, Zenon DEF Same
  <1>5. TaskInv(t)'
    BY <1>1, <1>2, <1>3, Zenon DEF TaskInv
  <1> QED BY <1>1, <1>2, <1>3, <1>4, <1>5, QuietStep, Zenon

\* A PUT is refused by its condition.
LEMMA PutConflictsStep ==
    ASSUME OptiConAssumption, IInv, NEW t \in Tasks, PutConflicts(t)
    PROVE  IInv'
  <1>1. /\ pc \in [Tasks -> ControlPoints] /\ req \in [Tasks -> Requests]
        /\ resp \in [Tasks -> Versioned] /\ late \subseteq Tasks
        /\ DOMAIN reply = Tasks
        /\ obj \in Versioned /\ clock \in Nat
        /\ TaskInv(t) /\ ReplicaInv(Host[t]) /\ ObjInv
    BY TaskFacts, Zenon
  <1>2. /\ pc[t] = "put"
        /\ pc' = [pc EXCEPT ![t] = "conflict"]
        /\ UNCHANGED <<obj, clock, cache, req, resp, late, past, owed, reply>>
    BY Zenon DEF PutConflicts, Goto
  <1>3. pc' \in [Tasks -> ControlPoints] /\ pc'[t] = "conflict"
    BY <1>1, <1>2, Zenon DEF ControlPoints
  <1>4. \A u \in Tasks \ {t} : Same(u)
    BY <1>1, <1>2, Zenon DEF Same
  <1>5. TaskInv(t)'
    BY <1>1, <1>2, <1>3, Zenon DEF TaskInv
  <1> QED BY <1>1, <1>2, <1>3, <1>4, <1>5, QuietStep, Zenon

\* A PUT fails, and may land later.
LEMMA PutFailsStep ==
    ASSUME OptiConAssumption, IInv, NEW t \in Tasks, PutFails(t)
    PROVE  IInv'
  <1>1. /\ pc \in [Tasks -> ControlPoints] /\ req \in [Tasks -> Requests]
        /\ resp \in [Tasks -> Versioned] /\ late \subseteq Tasks
        /\ DOMAIN reply = Tasks
        /\ obj \in Versioned /\ clock \in Nat
        /\ TaskInv(t) /\ ReplicaInv(Host[t]) /\ ObjInv
    BY TaskFacts, Zenon
  <1>2. /\ pc[t] = "put"
        /\ pc' = [pc EXCEPT ![t] = "done"] /\ reply' = [reply EXCEPT ![t] = <<"error">>]
        /\ late' = late \/ late' = late \cup {t}
        /\ UNCHANGED <<obj, clock, cache, req, resp, past, owed>>
    BY Zenon DEF PutFails, Answer, Goto
  <1>3. pc' \in [Tasks -> ControlPoints] /\ pc'[t] = "done"
    BY <1>1, <1>2, Zenon DEF ControlPoints
  <1>4. DOMAIN reply' = Tasks /\ late' \subseteq Tasks
    BY <1>1, <1>2, Zenon
  <1>5. \A u \in Tasks \ {t} : Same(u)
    BY <1>1, <1>2, Zenon DEF Same
  <1>6. owed[t] = NoAnswer /\ Computed(t)
    BY <1>1, <1>2, Zenon DEF TaskInv
  <1>7. TaskInv(t)'
    BY <1>2, <1>3, <1>6, Zenon DEF TaskInv, Computed
  <1> QED BY <1>1, <1>2, <1>3, <1>4, <1>5, <1>7, QuietStep, Zenon

\* The store answers a GET.
LEMMA GetServedStep ==
    ASSUME OptiConAssumption, IInv, NEW t \in Tasks, GetServed(t)
    PROVE  IInv'
  <1> DEFINE a == IF obj.val = Absent THEN None ELSE obj
  <1>1. /\ pc \in [Tasks -> ControlPoints] /\ req \in [Tasks -> Requests]
        /\ resp \in [Tasks -> Versioned] /\ late \subseteq Tasks
        /\ DOMAIN reply = Tasks
        /\ obj \in Versioned /\ clock \in Nat
        /\ TaskInv(t) /\ ReplicaInv(Host[t]) /\ ObjInv
    BY TaskFacts, Zenon
  <1>2. /\ pc[t] = "get"
        /\ resp' = [resp EXCEPT ![t] = a] /\ pc' = [pc EXCEPT ![t] = "got"]
        /\ UNCHANGED <<obj, clock, cache, req, late, past, owed, reply>>
    BY Zenon DEF GetServed, Goto
  <1>3. a \in Versioned /\ Sound(a) /\ a.val \in past
    <2>1. CASE obj.val = Absent
      BY <2>1, <1>1, NoneSound, Zenon DEF Sound, ObjInv
    <2>2. CASE obj.val # Absent
      BY <2>2, <1>1, ObjectSound, Zenon DEF Sound, ObjInv
    <2> QED BY <2>1, <2>2, Zenon
  <1> HIDE DEF a
  <1>4. resp' \in [Tasks -> Versioned] /\ pc' \in [Tasks -> ControlPoints]
    BY <1>1, <1>2, <1>3, Zenon DEF ControlPoints
  <1>5. pc'[t] = "got" /\ resp'[t] = a /\ Cached(t)' = Cached(t)
    BY <1>1, <1>2, Zenon DEF Cached
  <1>6. \A u \in Tasks \ {t} : Same(u)
    BY <1>1, <1>2, Zenon DEF Same
  <1>7. TaskInv(t)'
    BY <1>1, <1>2, <1>3, <1>5, Zenon DEF TaskInv, Sound
  <1> QED BY <1>1, <1>2, <1>4, <1>6, <1>7, QuietStep, Zenon

\* A request fails, or its answer is lost.
LEMMA RequestFailsStep ==
    ASSUME OptiConAssumption, IInv, NEW t \in Tasks, RequestFails(t)
    PROVE  IInv'
  <1>1. /\ pc \in [Tasks -> ControlPoints] /\ req \in [Tasks -> Requests]
        /\ resp \in [Tasks -> Versioned] /\ late \subseteq Tasks
        /\ DOMAIN reply = Tasks
        /\ obj \in Versioned /\ clock \in Nat
        /\ TaskInv(t) /\ ReplicaInv(Host[t]) /\ ObjInv
    BY TaskFacts, Zenon
  <1>2. /\ pc[t] \in {"get", "delete", "replace", "clear"}
        /\ pc' = [pc EXCEPT ![t] = "done"] /\ reply' = [reply EXCEPT ![t] = <<"error">>]
        /\ UNCHANGED <<obj, clock, cache, req, resp, late, past, owed>>
    BY Zenon DEF RequestFails, Answer, Goto
  <1>3. pc' \in [Tasks -> ControlPoints] /\ pc'[t] = "done" /\ DOMAIN reply' = Tasks
    BY <1>1, <1>2, Zenon DEF ControlPoints
  <1>4. t \notin late
    BY <1>1, <1>2, Zenon DEF TaskInv
  <1>5. \A u \in Tasks \ {t} : Same(u)
    BY <1>1, <1>2, Zenon DEF Same
  <1>6. TaskInv(t)'
    BY <1>2, <1>3, <1>4, Zenon DEF TaskInv
  <1> QED BY <1>1, <1>2, <1>3, <1>5, <1>6, QuietStep, Zenon

\* The cache takes what was written.
LEMMA ReplaceStep ==
    ASSUME OptiConAssumption, IInv, NEW t \in Tasks, Replace(t)
    PROVE  IInv'
  <1>1. /\ pc \in [Tasks -> ControlPoints] /\ req \in [Tasks -> Requests]
        /\ resp \in [Tasks -> Versioned] /\ late \subseteq Tasks
        /\ DOMAIN reply = Tasks
        /\ obj \in Versioned /\ clock \in Nat
        /\ TaskInv(t) /\ ReplicaInv(Host[t]) /\ ObjInv
    BY TaskFacts, Zenon
  <1>2. /\ pc[t] = "replace"
        /\ cache' = [cache EXCEPT ![Host[t]] = resp[t]]
        /\ pc' = [pc EXCEPT ![t] = "done"] /\ reply' = [reply EXCEPT ![t] = req[t].out]
        /\ UNCHANGED <<obj, clock, req, resp, late, past, owed>>
    BY Zenon DEF Replace, Answer, Goto, Install
  <1>3. Sound(resp[t]) /\ resp[t].val \in past
    BY <1>1, <1>2, Zenon DEF TaskInv
  <1>4. pc' \in [Tasks -> ControlPoints] /\ pc'[t] = "done" /\ DOMAIN reply' = Tasks
    BY <1>1, <1>2, Zenon DEF ControlPoints
  <1>5. t \notin late
    BY <1>1, <1>2, Zenon DEF TaskInv
  <1>6. \A u \in Tasks \ {t} : Same(u)
    BY <1>1, <1>2, Zenon DEF Same
  <1>7. TaskInv(t)'
    BY <1>2, <1>4, <1>5, Zenon DEF TaskInv
  <1>8. \E dv : Sound(dv) /\ dv.val \in past /\ cache' = [cache EXCEPT ![Host[t]] = dv]
    BY <1>2, <1>3, Zenon
  <1> QED BY <1>1, <1>2, <1>4, <1>6, <1>7, <1>8, QuietStep, Zenon

\* The cache is cleared after a DELETE.
LEMMA ClearStep ==
    ASSUME OptiConAssumption, IInv, NEW t \in Tasks, Clear(t)
    PROVE  IInv'
  <1>1. /\ pc \in [Tasks -> ControlPoints] /\ req \in [Tasks -> Requests]
        /\ resp \in [Tasks -> Versioned] /\ late \subseteq Tasks
        /\ DOMAIN reply = Tasks
        /\ obj \in Versioned /\ clock \in Nat
        /\ TaskInv(t) /\ ReplicaInv(Host[t]) /\ ObjInv
    BY TaskFacts, Zenon
  <1>2. /\ pc[t] = "clear"
        /\ cache' = [cache EXCEPT ![Host[t]] = None]
        /\ pc' = [pc EXCEPT ![t] = "done"] /\ reply' = [reply EXCEPT ![t] = <<"removed">>]
        /\ UNCHANGED <<obj, clock, req, resp, late, past, owed>>
    BY Zenon DEF Clear, Answer, Goto, Install
  <1>3. Sound(None) /\ None.val \in past
    BY <1>1, <1>2, NoneSound, Zenon DEF TaskInv, Sound
  <1>4. pc' \in [Tasks -> ControlPoints] /\ pc'[t] = "done" /\ DOMAIN reply' = Tasks
    BY <1>1, <1>2, Zenon DEF ControlPoints
  <1>5. t \notin late
    BY <1>1, <1>2, Zenon DEF TaskInv
  <1>6. \A u \in Tasks \ {t} : Same(u)
    BY <1>1, <1>2, Zenon DEF Same
  <1>7. TaskInv(t)'
    BY <1>2, <1>4, <1>5, Zenon DEF TaskInv
  <1>8. \E dv : Sound(dv) /\ dv.val \in past /\ cache' = [cache EXCEPT ![Host[t]] = dv]
    BY <1>2, <1>3, Zenon
  <1> QED BY <1>1, <1>2, <1>4, <1>6, <1>7, <1>8, QuietStep, Zenon

\* A read evaluates the cache.
LEMMA EvalStep ==
    ASSUME OptiConAssumption, IInv, NEW t \in Tasks, Eval(t)
    PROVE  IInv'
  <1>1. /\ pc \in [Tasks -> ControlPoints] /\ req \in [Tasks -> Requests]
        /\ resp \in [Tasks -> Versioned] /\ late \subseteq Tasks
        /\ DOMAIN reply = Tasks
        /\ obj \in Versioned /\ clock \in Nat
        /\ TaskInv(t) /\ ReplicaInv(Host[t]) /\ ObjInv
    BY TaskFacts, Zenon
  <1>2. /\ pc[t] = "eval"
        /\ pc' = [pc EXCEPT ![t] = "done"]
        /\ reply' = [reply EXCEPT ![t] = <<"read", Cached(t).val>>]
        /\ UNCHANGED <<obj, clock, cache, req, resp, late, past, owed>>
    BY Zenon DEF Eval, Answer, Goto
  <1>3. cache[Host[t]] \in Versioned
    BY <1>1, Zenon DEF ReplicaInv, Sound, SoundAt
  <1>4. Cached(t).ver \in Nat
    BY <1>3 DEF Versioned, Cached
  <1>5. /\ pc' \in [Tasks -> ControlPoints] /\ pc'[t] = "done" /\ DOMAIN reply' = Tasks
    BY <1>1, <1>2, <1>4, Zenon DEF ControlPoints
  <1>6. t \notin late
    BY <1>1, <1>2, Zenon DEF TaskInv
  <1>7. \A u \in Tasks \ {t} : Same(u)
    BY <1>1, <1>2, Zenon DEF Same
  <1>8. TaskInv(t)'
    BY <1>2, <1>5, <1>6, Zenon DEF TaskInv
  <1> QED BY <1>1, <1>2, <1>5, <1>7, <1>8, QuietStep, Zenon

\* A GET is received: the cache takes it unless it is NotModified.
LEMMA GotStep ==
    ASSUME OptiConAssumption, IInv, NEW t \in Tasks, Got(t)
    PROVE  IInv'
  <1>1. /\ pc \in [Tasks -> ControlPoints] /\ req \in [Tasks -> Requests]
        /\ resp \in [Tasks -> Versioned] /\ late \subseteq Tasks
        /\ DOMAIN reply = Tasks
        /\ obj \in Versioned /\ clock \in Nat
        /\ TaskInv(t) /\ ReplicaInv(Host[t]) /\ ObjInv
    BY TaskFacts, Zenon
  <1>2. /\ pc[t] = "got"
        /\ UNCHANGED <<obj, clock, req, resp, late, past, owed>>
    BY Zenon DEF Got
  <1>3. Sound(resp[t]) /\ resp[t].val \in past /\ owed[t] = NoAnswer /\ t \notin late
    BY <1>1, <1>2, Zenon DEF TaskInv
  <1>4. \/ cache' = cache /\ NotModified(t)
        \/ cache' = [cache EXCEPT ![Host[t]] = resp[t]]
    BY Zenon DEF Got, Install
  <1>5. \/ cache' = cache
        \/ \E dv : Sound(dv) /\ dv.val \in past /\ cache' = [cache EXCEPT ![Host[t]] = dv]
    BY <1>3, <1>4, Zenon
  <1>6. Cached(t)'.val \in past'
    <2>1. CASE cache' = cache /\ NotModified(t)
      <3>1. req[t].ver # 0
        BY <2>1, <1>3, Zenon DEF NotModified, Sound, SoundAt
      <3> QED BY <3>1, <2>1, <1>1, <1>2, Zenon DEF TaskInv, Cached
    <2>2. CASE cache' = [cache EXCEPT ![Host[t]] = resp[t]]
      <3>1. cache \in [Replicas -> Versioned] /\ Host[t] \in Replicas
        BY TaskFacts, Zenon
      <3> QED BY <3>1, <2>2, <1>2, <1>3, Zenon DEF Cached
    <2> QED BY <2>1, <2>2, <1>4, Zenon
  <1>7. CASE Kind[t] = "mut" /\ pc' = [pc EXCEPT ![t] = "call"] /\ reply' = reply
    <2>1. pc' \in [Tasks -> ControlPoints] /\ pc'[t] = "call" /\ DOMAIN reply' = Tasks
      BY <1>1, <1>7, Zenon DEF ControlPoints
    <2>2. \A u \in Tasks \ {t} : Same(u)
      BY <1>1, <1>2, <1>7, Zenon DEF Same
    <2>3. TaskInv(t)'
      BY <1>1, <1>2, <1>3, <1>7, <2>1, Zenon DEF TaskInv
    <2> QED BY <1>1, <1>2, <1>5, <2>1, <2>2, <2>3, QuietStep, Zenon
  <1>8. CASE /\ Kind[t] = "create" /\ pc' = [pc EXCEPT ![t] = "done"]
             /\ reply' = [reply EXCEPT ![t] = <<"exists">>]
    <2>1. pc' \in [Tasks -> ControlPoints] /\ pc'[t] = "done" /\ DOMAIN reply' = Tasks
      BY <1>1, <1>8, Zenon DEF ControlPoints
    <2>2. \A u \in Tasks \ {t} : Same(u)
      BY <1>1, <1>2, <1>8, Zenon DEF Same
    <2>3. TaskInv(t)'
      BY <1>2, <1>3, <2>1, Zenon DEF TaskInv
    <2> QED BY <1>1, <1>2, <1>5, <2>1, <2>2, <2>3, QuietStep, Zenon
  <1>9. CASE Kind[t] = "read" /\ pc' = [pc EXCEPT ![t] = "eval"] /\ reply' = reply
    <2>1. pc' \in [Tasks -> ControlPoints] /\ pc'[t] = "eval" /\ DOMAIN reply' = Tasks
      BY <1>1, <1>9, Zenon DEF ControlPoints
    <2>2. \A u \in Tasks \ {t} : Same(u)
      BY <1>1, <1>2, <1>9, Zenon DEF Same
    <2>3. TaskInv(t)'
      BY <1>1, <1>2, <1>3, <1>6, <1>9, <2>1, Zenon DEF TaskInv
    <2> QED BY <1>1, <1>2, <1>5, <2>1, <2>2, <2>3, QuietStep, Zenon
  <1> QED BY <1>7, <1>8, <1>9, Zenon DEF Got, Goto, Answer

\* A PUT that matches writes what the closure makes of the object, or creates it.
LEMMA MatchFacts ==
    ASSUME OptiConAssumption, IInv, NEW t \in Tasks, pc[t] = "put" \/ t \in late, Matches(t)
    PROVE  LET cur == IF obj.val = Absent THEN Default ELSE obj.val
           IN  /\ req[t].val \in Values /\ req[t].out \in Outcomes /\ owed[t] = NoAnswer
               /\ \/ /\ Kind[t] = "create" /\ req[t].val = Fresh(t)
                     /\ req[t].out = <<"created">> /\ obj.val = Absent
                  \/ /\ Kind[t] = "mut" /\ req[t].val = Modify(t, cur)
                     /\ req[t].out = Outcome(t, cur)
  <1>1. req[t] \in Requests /\ TaskInv(t) /\ ObjInv
    BY TaskFacts, Zenon
  <1>2. req[t].out \in Outcomes
    BY <1>1 DEF Requests
  <1>3. Computed(t) /\ owed[t] = NoAnswer
    BY <1>1, Zenon DEF TaskInv
  <1>4. \/ req[t].ver = 0 /\ obj.val = Absent
        \/ req[t].ver = obj.ver /\ obj.val # Absent /\ obj.ver # 0
    BY <1>1, Zenon DEF Matches, ObjInv
  <1>5. ComputedAt(t, req[t], obj, clock)
    BY <1>3, Zenon DEF Computed
  <1>6. LET cur == IF obj.val = Absent THEN Default ELSE obj.val
        IN  \/ /\ Kind[t] = "create" /\ req[t].val = Fresh(t) /\ req[t].out = <<"created">>
               /\ obj.val = Absent /\ req[t].val \in Values
            \/ /\ Kind[t] = "mut" /\ req[t].val = Modify(t, cur)
               /\ req[t].out = Outcome(t, cur) /\ req[t].val \in Values
    BY <1>4, <1>5, ComputedLands
  <1> QED BY <1>2, <1>3, <1>6, Zenon

\* The store applies a PUT.
LEMMA PutLandsStep ==
    ASSUME OptiConAssumption, IInv, NEW t \in Tasks, PutLands(t)
    PROVE  IInv'
  <1> DEFINE dv == [ver |-> clock + 1, val |-> req[t].val]
  <1>1. /\ pc \in [Tasks -> ControlPoints] /\ req \in [Tasks -> Requests]
        /\ resp \in [Tasks -> Versioned] /\ late \subseteq Tasks
        /\ DOMAIN reply = Tasks
        /\ obj \in Versioned /\ clock \in Nat /\ cache \in [Replicas -> Versioned]
        /\ owed \in [Tasks -> Outcomes \cup {NoAnswer}]
        /\ TaskInv(t) /\ ObjInv
    BY TaskFacts, Zenon
  <1>2. /\ pc[t] = "put" /\ Matches(t)
        /\ obj' = dv /\ clock' = clock + 1 /\ past' = past \cup {req[t].val}
        /\ owed' = [owed EXCEPT ![t] = req[t].out]
        /\ resp' = [resp EXCEPT ![t] = dv]
        /\ pc' = [pc EXCEPT ![t] = "replace"]
        /\ UNCHANGED <<cache, req, late, reply>>
    BY Zenon DEF PutLands, Effect, Goto
  <1>3. req[t].val \in Values /\ req[t].out \in Outcomes
    BY <1>2, MatchFacts, Zenon
  <1>4. \A u \in Tasks \ {t} : Same(u)
    BY <1>1, <1>2, Zenon DEF Same
  <1>5. dv \in Versioned /\ dv.val = req[t].val /\ SoundAt(dv, dv, clock + 1)
    BY <1>1, <1>3, WrittenSound
  <1>6. /\ ObjInv' /\ obj' \in Versioned /\ clock' \in Nat
        /\ past' \subseteq Values \cup {Absent}
        /\ \A r \in Replicas : ReplicaInv(r)'
        /\ \A u \in Tasks \ {t} : TaskInv(u)'
    BY <1>2, <1>3, <1>4, OthersEffect, Zenon
  <1> HIDE DEF dv
  <1>7. /\ pc' \in [Tasks -> ControlPoints] /\ pc'[t] = "replace"
        /\ resp' \in [Tasks -> Versioned] /\ resp'[t] = dv
        /\ owed' \in [Tasks -> Outcomes \cup {NoAnswer}] /\ owed'[t] = req[t].out
    BY <1>1, <1>2, <1>3, <1>5, Zenon DEF ControlPoints
  <1>8. t \notin late /\ reply[t] = NoAnswer
    BY <1>1, <1>2, Zenon DEF TaskInv
  <1>9. TaskInv(t)'
    BY <1>2, <1>5, <1>7, <1>8, Zenon DEF TaskInv, Sound
  <1>10. TypeOK'
    BY <1>1, <1>2, <1>6, <1>7, Zenon DEF TypeOK
  <1> QED BY <1>6, <1>9, <1>10, Zenon DEF IInv

\* The store applies a PUT whose sender was already answered with an error.
LEMMA LateLandsStep ==
    ASSUME OptiConAssumption, IInv, NEW t \in Tasks, LateLands(t)
    PROVE  IInv'
  <1>1. /\ pc \in [Tasks -> ControlPoints] /\ req \in [Tasks -> Requests]
        /\ resp \in [Tasks -> Versioned] /\ late \subseteq Tasks
        /\ DOMAIN reply = Tasks
        /\ obj \in Versioned /\ clock \in Nat /\ cache \in [Replicas -> Versioned]
        /\ owed \in [Tasks -> Outcomes \cup {NoAnswer}]
        /\ TaskInv(t) /\ ObjInv
    BY TaskFacts, Zenon
  <1>2. /\ t \in late /\ Matches(t)
        /\ obj' = [ver |-> clock + 1, val |-> req[t].val] /\ clock' = clock + 1
        /\ past' = past \cup {req[t].val}
        /\ owed' = [owed EXCEPT ![t] = req[t].out]
        /\ late' = late \ {t}
        /\ UNCHANGED <<cache, pc, req, resp, reply>>
    BY Zenon DEF LateLands, Effect
  <1>3. req[t].val \in Values /\ req[t].out \in Outcomes
    BY <1>2, MatchFacts, Zenon
  <1>4. \A u \in Tasks \ {t} : Same(u)
    BY <1>1, <1>2, Zenon DEF Same
  <1>5. /\ ObjInv' /\ obj' \in Versioned /\ clock' \in Nat
        /\ past' \subseteq Values \cup {Absent}
        /\ \A r \in Replicas : ReplicaInv(r)'
        /\ \A u \in Tasks \ {t} : TaskInv(u)'
    BY <1>2, <1>3, <1>4, OthersEffect, Zenon
  <1>6. owed' \in [Tasks -> Outcomes \cup {NoAnswer}] /\ late' \subseteq Tasks
    BY <1>1, <1>2, <1>3, Zenon
  <1>7. pc'[t] = "done" /\ t \notin late'
    BY <1>1, <1>2, Zenon DEF TaskInv
  <1>8. TaskInv(t)'
    BY <1>7, Zenon DEF TaskInv
  <1>9. TypeOK'
    BY <1>1, <1>2, <1>5, <1>6, Zenon DEF TypeOK
  <1> QED BY <1>5, <1>8, <1>9, Zenon DEF IInv

\* The store deletes the object.
LEMMA DeleteServedStep ==
    ASSUME OptiConAssumption, IInv, NEW t \in Tasks, DeleteServed(t)
    PROVE  IInv'
  <1>1. /\ pc \in [Tasks -> ControlPoints] /\ req \in [Tasks -> Requests]
        /\ resp \in [Tasks -> Versioned] /\ late \subseteq Tasks
        /\ DOMAIN reply = Tasks
        /\ obj \in Versioned /\ clock \in Nat /\ cache \in [Replicas -> Versioned]
        /\ owed \in [Tasks -> Outcomes \cup {NoAnswer}]
        /\ TaskInv(t) /\ ObjInv
    BY TaskFacts, Zenon
  <1>2. /\ pc[t] = "delete"
        /\ obj' = [ver |-> clock + 1, val |-> Absent] /\ clock' = clock + 1
        /\ past' = past \cup {Absent}
        /\ owed' = [owed EXCEPT ![t] = <<"removed">>]
        /\ pc' = [pc EXCEPT ![t] = "clear"]
        /\ UNCHANGED <<cache, req, resp, late, reply>>
    BY Zenon DEF DeleteServed, Effect, Goto
  <1>3. \A u \in Tasks \ {t} : Same(u)
    BY <1>1, <1>2, Zenon DEF Same
  <1>4. /\ ObjInv' /\ obj' \in Versioned /\ clock' \in Nat
        /\ past' \subseteq Values \cup {Absent}
        /\ \A r \in Replicas : ReplicaInv(r)'
        /\ \A u \in Tasks \ {t} : TaskInv(u)'
    BY <1>2, <1>3, OthersEffect, Zenon
  <1>5. /\ pc' \in [Tasks -> ControlPoints] /\ pc'[t] = "clear"
        /\ owed' \in [Tasks -> Outcomes \cup {NoAnswer}] /\ owed'[t] = <<"removed">>
    BY <1>1, <1>2, Zenon DEF ControlPoints, OptiConAssumption
  <1>6. t \notin late /\ reply[t] = NoAnswer
    BY <1>1, <1>2, Zenon DEF TaskInv
  <1>7. TaskInv(t)'
    BY <1>2, <1>5, <1>6, Zenon DEF TaskInv
  <1>8. TypeOK'
    BY <1>1, <1>2, <1>4, <1>5, Zenon DEF TypeOK
  <1> QED BY <1>4, <1>7, <1>8, Zenon DEF IInv

-----------------------------------------------------------------------------
(* The invariant.                                                          *)

\* Empty caches and an object that exists or not.
LEMMA InitHolds == OptiConAssumption /\ Init => IInv
  <1> SUFFICES ASSUME OptiConAssumption, Init PROVE IInv
    OBVIOUS
  <1>1. /\ clock = 1 /\ late = {} /\ past = {obj.val}
        /\ cache = [r \in Replicas |-> None] /\ pc = [t \in Tasks |-> "call"]
        /\ req = [t \in Tasks |-> [ver |-> 0, val |-> Absent, out |-> <<"removed">>]]
        /\ resp = [t \in Tasks |-> None]
        /\ owed = [t \in Tasks |-> NoAnswer] /\ reply = [t \in Tasks |-> NoAnswer]
    BY Zenon DEF Init
  <1>2. PICK v \in {Absent, Default} : obj = [ver |-> IF v = Absent THEN 0 ELSE 1, val |-> v]
    BY Zenon DEF Init
  <1>3. /\ obj \in Versioned /\ obj.ver \in Nat /\ obj.ver <= 1
        /\ obj.val # Absent => obj.ver # 0
    BY <1>2 DEF Versioned, OptiConAssumption
  <1>4. 1 \in Nat /\ 0 \in Nat
    OBVIOUS
  <1>5. None \in Versioned /\ None.ver = 0 /\ None.val = Absent /\ SoundAt(None, obj, 1)
    BY <1>4, NoneSound, Zenon
  <1>6. [ver |-> 0, val |-> Absent, out |-> <<"removed">>] \in Requests
    BY DEF Requests, OptiConAssumption
  <1>7. obj.val \in Values \cup {Absent}
    BY <1>3 DEF Versioned
  <1>8. req \in [Tasks -> Requests]
    BY <1>1, <1>6, Zenon
  <1>9. TypeOK
    BY <1>1, <1>3, <1>4, <1>5, <1>7, <1>8, Zenon DEF TypeOK, ControlPoints
  <1>10. ObjInv
    BY <1>1, <1>3, Zenon DEF ObjInv
  <1>11. \A r \in Replicas : ReplicaInv(r)
    BY <1>1, <1>5, Zenon DEF ReplicaInv, Sound
  <1>12. \A t \in Tasks : TaskInv(t)
    BY <1>1, Zenon DEF TaskInv
  <1> QED BY <1>9, <1>10, <1>11, <1>12, Zenon DEF IInv

\* Every step preserves the invariant.
LEMMA StepHolds ==
    ASSUME OptiConAssumption, IInv, [Next]_vars
    PROVE  IInv'
  <1>1. ASSUME NEW t \in Tasks, Progress(t) PROVE IInv'
    BY <1>1, CallMutStep, CallCreateStep, CallReadStep, CallRemoveStep, RereadStep,
       PutLandsStep, PutConflictsStep, GetServedStep, DeleteServedStep, ReplaceStep,
       ClearStep, GotStep, EvalStep, Zenon DEF Progress
  <1>2. ASSUME NEW t \in Tasks, PutFails(t) \/ LateLands(t) \/ RequestFails(t) PROVE IInv'
    BY <1>2, PutFailsStep, LateLandsStep, RequestFailsStep, Zenon
  <1>3. CASE UNCHANGED vars
    BY <1>3, Zenon DEF vars, IInv, TypeOK, ObjInv, ReplicaInv, TaskInv, Sound, Computed,
       Cached
  <1> QED BY <1>1, <1>2, <1>3, Zenon DEF Next

\* The invariant: versions stand for values, pending PUTs are computed from them, and
\* effects and answers follow the control of each call.
THEOREM CellConsistent == Spec => []IInv
  <1>1. Init => IInv
    BY InitHolds, OptiConAssumption
  <1>2. IInv /\ [Next]_vars => IInv'
    BY StepHolds, OptiConAssumption
  <1> QED BY <1>1, <1>2, PTL DEF Spec

\* Every variable of the cell keeps its type, for any closures.
THEOREM CellTypeCorrect == Spec => []TypeOK
  <1>1. IInv => TypeOK
    BY Zenon DEF IInv
  <1> QED BY <1>1, CellConsistent, PTL

\* A cache that holds the current version holds the current value: no order of
\* answers makes a replica pair an etag with a value of another version.
THEOREM CachesCoherent == Spec => []CacheCoherent
  <1>1. IInv => CacheCoherent
    BY Zenon DEF IInv, ReplicaInv, Sound, SoundAt, CacheCoherent
  <1> QED BY <1>1, CellConsistent, PTL

-----------------------------------------------------------------------------
(* The refinement: val is the object's value, the histories are shared.    *)

\* A PUT that lands is one modification or creation of the atomic object.
LEMMA LandsRefines ==
    ASSUME OptiConAssumption, IInv, NEW t \in Tasks, pc[t] = "put" \/ t \in late, Matches(t),
           Effect(t, req[t].val, req[t].out), UNCHANGED reply
    PROVE  Object!Next
  <1>1. obj'.val = req[t].val
    BY DEF Effect
  <1>2. CASE /\ Kind[t] = "create" /\ req[t].val = Fresh(t)
             /\ req[t].out = <<"created">> /\ obj.val = Absent
    <2>1. Object!Creates(t)
      BY <1>1, <1>2, MatchFacts, Zenon
         DEF Object!Creates, Object!TakesEffect, Object!NoAnswer, NoAnswer, Effect
    <2> QED BY <2>1, Zenon DEF Object!Next
  <1>3. CASE LET cur == IF obj.val = Absent THEN Default ELSE obj.val
             IN  /\ Kind[t] = "mut" /\ req[t].val = Modify(t, cur)
                 /\ req[t].out = Outcome(t, cur)
    <2>1. Object!Mutates(t)
      BY <1>1, <1>3, MatchFacts, Zenon
         DEF Object!Mutates, Object!TakesEffect, Object!NoAnswer, Object!Current, NoAnswer,
             Effect
    <2> QED BY <2>1, Zenon DEF Object!Next
  <1> QED BY <1>2, <1>3, MatchFacts, Zenon

\* An answer is one the atomic object may give.
LEMMA AnswerRefines ==
    ASSUME OptiConAssumption, IInv, NEW t \in Tasks, pc[t] # "done", NEW a,
           Answer(t, a), UNCHANGED <<obj, past, owed>>,
           \/ a = <<"error">>
           \/ a = owed[t] /\ owed[t] # NoAnswer
           \/ a = <<"exists">> /\ Kind[t] = "create" /\ owed[t] = NoAnswer
           \/ Kind[t] = "read" /\ \E v \in past : a = <<"read", v>>
    PROVE  Object!Next
  <1>1. reply[t] = NoAnswer
    BY TaskFacts, Zenon DEF TaskInv
  <1>2. Object!Answers(t, a)
    BY <1>1, Zenon DEF Object!Answers, Object!NoAnswer, NoAnswer, Answer
  <1>3. Object!Fails(t) \/ Object!Answered(t) \/ Object!Exists(t) \/ Object!Reads(t)
    BY <1>2, Zenon DEF Object!Fails, Object!Answered, Object!Exists, Object!Reads,
       Object!NoAnswer, NoAnswer
  <1> QED BY <1>3, Zenon DEF Object!Next

\* Every step of the cell is a step of the atomic object, or leaves it as it is.
LEMMA StepRefines ==
    ASSUME OptiConAssumption, IInv, [Next]_vars
    PROVE  [Object!Next]_(Object!vars)
  <1>1. ASSUME NEW t \in Tasks,
               \/ CallMut(t) \/ CallCreate(t) \/ CallRead(t) \/ CallRemove(t) \/ Reread(t)
               \/ PutConflicts(t) \/ GetServed(t)
        PROVE  UNCHANGED <<obj, past, owed, reply>>
    BY <1>1, Zenon DEF CallMut, CallCreate, CallRead, CallRemove, Reread, PutConflicts,
       GetServed
  <1>2. ASSUME NEW t \in Tasks, PutLands(t) \/ LateLands(t) PROVE Object!Next
    BY <1>2, LandsRefines, Zenon DEF PutLands, LateLands
  <1>3. ASSUME NEW t \in Tasks, DeleteServed(t) PROVE Object!Next
    <2>1. pc[t] = "delete" /\ Effect(t, Absent, <<"removed">>) /\ UNCHANGED reply
      BY <1>3, Zenon DEF DeleteServed
    <2>2. Kind[t] = "remove" /\ owed[t] = NoAnswer
      BY <2>1, TaskFacts, Zenon DEF TaskInv
    <2>3. obj'.val = Absent
      BY <2>1 DEF Effect
    <2>4. Object!Removes(t)
      BY <2>1, <2>2, <2>3, Zenon
         DEF Object!Removes, Object!TakesEffect, Object!NoAnswer, NoAnswer, Effect
    <2> QED BY <2>4, Zenon DEF Object!Next
  <1>4. ASSUME NEW t \in Tasks, PutFails(t) \/ RequestFails(t) PROVE Object!Next
    <2>1. pc[t] # "done" /\ Answer(t, <<"error">>) /\ UNCHANGED <<obj, past, owed>>
      BY <1>4, Zenon DEF PutFails, RequestFails
    <2> QED BY <2>1, AnswerRefines, Zenon
  <1>5. ASSUME NEW t \in Tasks, Replace(t) PROVE Object!Next
    <2>1. pc[t] = "replace" /\ Answer(t, req[t].out) /\ UNCHANGED <<obj, past, owed>>
      BY <1>5, Zenon DEF Replace
    <2>2. owed[t] = req[t].out /\ req[t] \in Requests
      BY <2>1, TaskFacts, Zenon DEF TaskInv
    <2>3. owed[t] # NoAnswer
      BY <2>2 DEF Requests, NoAnswer, OptiConAssumption
    <2> QED BY <2>1, <2>2, <2>3, AnswerRefines, Zenon
  <1>6. ASSUME NEW t \in Tasks, Clear(t) PROVE Object!Next
    <2>1. pc[t] = "clear" /\ Answer(t, <<"removed">>) /\ UNCHANGED <<obj, past, owed>>
      BY <1>6, Zenon DEF Clear
    <2>2. owed[t] = <<"removed">>
      BY <2>1, TaskFacts, Zenon DEF TaskInv
    <2>3. owed[t] # NoAnswer
      BY <2>2, Zenon DEF NoAnswer, OptiConAssumption
    <2> QED BY <2>1, <2>2, <2>3, AnswerRefines, Zenon
  <1>7. ASSUME NEW t \in Tasks, Got(t)
        PROVE  Object!Next \/ UNCHANGED <<obj, past, owed, reply>>
    <2>1. pc[t] = "got" /\ UNCHANGED <<obj, past, owed>>
      BY <1>7, Zenon DEF Got
    <2>2. UNCHANGED reply \/ (Kind[t] = "create" /\ Answer(t, <<"exists">>))
      BY <1>7, Zenon DEF Got
    <2>3. owed[t] = NoAnswer
      BY <2>1, TaskFacts, Zenon DEF TaskInv
    <2> QED BY <2>1, <2>2, <2>3, AnswerRefines, Zenon
  <1>8. ASSUME NEW t \in Tasks, Eval(t) PROVE Object!Next
    <2>1. pc[t] = "eval" /\ Answer(t, <<"read", Cached(t).val>>)
          /\ UNCHANGED <<obj, past, owed>>
      BY <1>8, Zenon DEF Eval
    <2>2. Kind[t] = "read" /\ Cached(t).val \in past
      BY <2>1, TaskFacts, Zenon DEF TaskInv
    <2> QED BY <2>1, <2>2, AnswerRefines, Zenon
  <1>9. Object!Next \/ UNCHANGED <<obj, past, owed, reply>>
    BY <1>1, <1>2, <1>3, <1>4, <1>5, <1>6, <1>7, <1>8, Zenon DEF Next, Progress, vars
  <1> QED BY <1>9, Zenon DEF Object!vars

\* The cell implements the atomic object, for any number of replicas and calls and
\* any closures: a with_mut, create or remove takes effect at most once, at one
\* instant, on the value of that instant, and answers what it did there.
THEOREM ImplementsAtomicObject == Spec => Implements
  <1>1. Init => Object!Init
    <2> SUFFICES ASSUME Init PROVE Object!Init
      OBVIOUS
    <2>1. PICK v \in {Absent, Default} :
             obj = [ver |-> IF v = Absent THEN 0 ELSE 1, val |-> v]
      BY Zenon DEF Init
    <2>2. obj.val \in Values \cup {Absent}
      BY <2>1, OptiConAssumption DEF OptiConAssumption
    <2> QED BY <2>2, Zenon DEF Init, Object!Init, Object!NoAnswer, NoAnswer
  <1>2. IInv /\ [Next]_vars => [Object!Next]_(Object!vars)
    BY StepRefines, OptiConAssumption
  <1> QED BY <1>1, <1>2, CellConsistent, PTL DEF Spec, Implements, Object!Spec
=============================================================================
