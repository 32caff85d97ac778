------------------------------ MODULE MCOptiCon ------------------------------
(* Instances of OptiCon: the value is the sequence of the modifications    *)
(* that were applied to it; a modification returns the length it found.    *)
EXTENDS OptiCon, Sequences, FiniteSets, TLC

CONSTANTS r1, r2, m1, m2, m3, c1, d1, g1

MaxLen == 3

MCModify(t, v) == IF Len(v) < MaxLen THEN Append(v, t) ELSE v
MCOutcome(t, v) == <<"found", Len(v)>>
MCDefault == <<>>
MCFresh(t) == <<t>>
MCValues == UNION {[1 .. n -> Tasks] : n \in 0 .. MaxLen}
MCOutcomes == {<<"found", n>> : n \in 0 .. MaxLen} \cup {<<"created">>, <<"removed">>}

MCTasks == {m1, m2, m3, c1, d1, g1}
MCHost == [t \in MCTasks |-> IF t \in {m3, c1, d1} THEN r2 ELSE r1]
MCKind == (c1 :> "create") @@ (d1 :> "remove") @@ (g1 :> "read")
              @@ [t \in {m1, m2, m3} |-> "mut"]

\* The calls that are made: modifications that share r1's cache against a create
\* or a remove of r2, a modification against both, or a read among modifications.
VARIABLE calls

MCScenarios == {{m1, m2, c1}, {m1, m2, d1}, {m1, c1, d1}, {m1, m3, g1}}

MCInit == Init /\ calls \in MCScenarios

MCNext ==
    /\ \E t \in calls : Progress(t) \/ PutFails(t) \/ LateLands(t) \/ RequestFails(t)
    /\ UNCHANGED calls

\* Every request is answered in the end, with an error at the worst.
MCSpec ==
    /\ MCInit /\ [][MCNext]_<<vars, calls>>
    /\ \A t \in MCTasks : WF_<<vars, calls>>(t \in calls /\ Progress(t) /\ UNCHANGED calls)

\* Every call is answered: a conflict is lost to a modification that landed, and
\* there are finitely many of those.
CallsReturn == \A t \in MCTasks : t \in calls ~> reply[t] # NoAnswer
=============================================================================
