--------------------------- MODULE MCClassicGroup ---------------------------
(* Instances of ClassicGroup: two members, of which the first may have a   *)
(* second request under way when it has given up on one.                   *)
EXTENDS ClassicGroup, TLC

CONSTANTS a1, a2, b1, s, t

MCOwner == [r \in Requests |-> IF r = b1 THEN 2 ELSE 1]
MCFirst == [m \in Members |-> s]

\* Each of these events happens at most once.
Once(events) == [e \in Events |-> IF e \in events THEN 1 ELSE 0]

MCBudgets == {Once({"lapse", "sweep"}), Once({"change", "sweep"}), Once({"leave", "sweep"}),
              Once({"commit", "change"}), Once({"lose"}),
              Once({"fail", "sweep"})}

\* What does not need another sweep to be put right.
MCCalm == {Once({"change"}), Once({"fail"})}

MCResubscribed == {Once({"change", "sweep"})}

Symmetry == Permutations({a1, a2})
=============================================================================
