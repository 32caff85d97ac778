---------------------------- MODULE AtomicObject ----------------------------
(***************************************************************************)
(* What the CAS objects of the store (topic records, watermarks, group     *)
(* state, transaction state, the sequence floor) promise their callers: a  *)
(* call that modifies the object takes effect at most once, at one         *)
(* instant, on the value the object has at that instant; a call that is    *)
(* answered with an outcome took effect; a call that is answered with an   *)
(* error may have, or may still.  Reads return a value the object has had. *)
(***************************************************************************)
CONSTANTS
    Tasks,              \* calls
    Values,             \* values of the object
    Absent,             \* there is no object
    Default,            \* what a modification of no object starts from
    Kind,               \* [Tasks -> {"mut", "create", "remove", "read"}]
    Modify(_, _),       \* the closure of a with_mut: its effect
    Outcome(_, _),      \* and what it returns
    Fresh(_)            \* the value a create writes

VARIABLES
    val,                \* the object
    past,               \* values it has had
    owed,               \* [Tasks -> outcome of the effect, empty before it]
    reply               \* [Tasks -> answer, empty before it]

\* Before an effect, or an answer.
NoAnswer == <<>>

vars == <<val, past, owed, reply>>

Current == IF val = Absent THEN Default ELSE val

Init ==
    /\ val \in Values \cup {Absent}
    /\ past = {val}
    /\ owed = [t \in Tasks |-> NoAnswer]
    /\ reply = [t \in Tasks |-> NoAnswer]

TakesEffect(t, v, outcome) ==
    /\ owed[t] = NoAnswer
    /\ val' = v
    /\ past' = past \cup {v}
    /\ owed' = [owed EXCEPT ![t] = outcome]
    /\ UNCHANGED reply

Mutates(t) == Kind[t] = "mut" /\ TakesEffect(t, Modify(t, Current), Outcome(t, Current))

Creates(t) == Kind[t] = "create" /\ val = Absent /\ TakesEffect(t, Fresh(t), <<"created">>)

Removes(t) == Kind[t] = "remove" /\ TakesEffect(t, Absent, <<"removed">>)

Answers(t, answer) ==
    /\ reply[t] = NoAnswer
    /\ reply' = [reply EXCEPT ![t] = answer]
    /\ UNCHANGED <<val, past, owed>>

Answered(t) == owed[t] # NoAnswer /\ Answers(t, owed[t])

Fails(t) == Answers(t, <<"error">>)

Exists(t) == Kind[t] = "create" /\ owed[t] = NoAnswer /\ Answers(t, <<"exists">>)

Reads(t) == Kind[t] = "read" /\ \E v \in past : Answers(t, <<"read", v>>)

Next == \E t \in Tasks :
    Mutates(t) \/ Creates(t) \/ Removes(t) \/ Answered(t) \/ Fails(t) \/ Exists(t) \/ Reads(t)

Spec == Init /\ [][Next]_vars
=============================================================================
