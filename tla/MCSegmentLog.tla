---------------------------- MODULE MCSegmentLog ----------------------------
(* Small instances of SegmentLog for TLC. *)
EXTENDS SegmentLog, TLC, FiniteSets

CONSTANTS r1, r2, x, y, f1, f2, f3, f4

\* Each flush carries one record of each sub-stream.
MCCount1 == [f \in Flush |-> [s \in Substream |-> 1]]

\* The windows some replica has taken up.
Taken == {f \in Flush : \/ \E r \in Replica : cur[r] = f
                        \/ \E o \in made : o.by = f
                        \/ \E q \in net : q.obj.by = f}

\* A second pass begins with both windows written, no create in doubt and no
\* sequence hint left.
SecondPass ==
    passes = 2 =>
      /\ Taken = {f1, f2} /\ net = {}
      /\ \A r \in Replica : wpc[r] = "idle" /\ seq[r] = 0

\* The third window is r1's, flushed into a log of two that r2 is merging without having restarted.
ThirdWindow ==
    f3 \in Taken =>
      /\ Taken = {f1, f2, f3}
      /\ passes = 1 /\ kind[r2] = "merge" /\ mpc[r2] # "idle" /\ wpc[r2] = "idle"
      /\ net = {} /\ wpc[r1] # "probe"

\* While a pass runs, one create at a time is under way or in doubt.
UnderPass ==
    mpc[r2] # "idle" => Cardinality(net) + Cardinality({r \in Replica : wpc[r] # "idle"}) <= 1

FewAtOnce == UnderPass /\ SecondPass /\ ThirdWindow

Symmetry == Permutations({f1, f2}) \cup Permutations({x, y})
=============================================================================
