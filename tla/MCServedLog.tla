---------------------------- MODULE MCServedLog ----------------------------
(* Small instances of ServedLog for TLC. *)
EXTENDS ServedLog, TLC

CONSTANTS r1, r2, sx, sy, c1, c2, m1

Quiet == [append |-> 0, truncate |-> 0, age |-> 0, poll |-> 2, lapse |-> 0, reconcile |-> 0, restart |-> 0,
          abandon |-> 0, deadline |-> 0, expire |-> 0, merge |-> 0, rewrite |-> 0, certify |-> 0]
NoMark == [q \in Substream |-> [high |-> 0, end |-> 0, at |-> -1, trunc |-> 0]]

\* Segment i carries one record of each sub-stream of carried[i].
LogOf(carried) ==
  LET before(i, q) == Cardinality({j \in 1..(i - 1) : q \in carried[j]}) IN
  [i \in DOMAIN carried |->
     [ent |-> [q \in Substream |-> IF q \in carried[i] THEN [lo |-> before(i, q), hi |-> before(i, q) + 1] ELSE NoSpan],
      of |-> {i}]]
Only(n) == [i \in 1..n |-> {sx}]
Start0(carried, b) ==
  [obj |-> LogOf(carried), wm |-> NoMark, pos |-> 0, aged |-> {}, warm |-> TRUE, budget |-> b]

MCReads == [p \in Fetcher |-> sx]

\* Merges and per-key rewrites under a reader, warm and cold.
Merging == {[Start0(Only(3), [Quiet EXCEPT !.merge = 1, !.lapse = 1]) EXCEPT !.pos = 1],
            [Start0(Only(3), [Quiet EXCEPT !.merge = 1, !.poll = 1]) EXCEPT !.pos = 1, !.warm = FALSE],
            [Start0(Only(3), [Quiet EXCEPT !.merge = 2, !.poll = 1]) EXCEPT !.pos = 1],
            Start0(Only(2), [Quiet EXCEPT !.rewrite = 1, !.merge = 1, !.poll = 1])}
\* The head of the log expires or is truncated under a reader and a writer.
Expiring == {[Start0(Only(2), [Quiet EXCEPT !.age = 1, !.expire = 1, !.lapse = 1]) EXCEPT !.aged = {1}],
             [Start0(Only(2), [Quiet EXCEPT !.expire = 1, !.append = 1, !.lapse = 1]) EXCEPT !.aged = {1}],
             [Start0(Only(3), [Quiet EXCEPT !.merge = 1, !.poll = 0, !.expire = 1]) EXCEPT !.pos = -1, !.aged = {1}],
             Start0(Only(2), [Quiet EXCEPT !.truncate = 1, !.expire = 1, !.lapse = 1]),
             Start0(<<{sx, sy}, {sy}, {sx, sy}>>, [Quiet EXCEPT !.age = 2, !.merge = 1, !.expire = 1, !.poll = 0])}
\* A certification, of a gap an older version left and against a broker that has not seen the tail.
Certifying == {[Start0(Only(1), [Quiet EXCEPT !.certify = 1, !.append = 1, !.poll = 1]) EXCEPT !.pos = 1, !.wm[sx].high = 2],
               [Start0(Only(2), [Quiet EXCEPT !.certify = 1, !.expire = 1, !.append = 1, !.poll = 0]) EXCEPT !.aged = {1}]}
\* A consumer that has read at one broker what another has not seen.
Lagging == {[Start0(Only(1), [Quiet EXCEPT !.append = 2]) EXCEPT !.pos = 1]}
\* One fault during a merge.
Failing == {[Start0(Only(3), [Quiet EXCEPT !.merge = 1, ![e] = 1]) EXCEPT !.pos = 1] :
              e \in {"restart", "abandon", "deadline", "reconcile"}}
MCScenarios == Merging \cup Expiring \cup Certifying \cup Lagging \cup Failing

\* A gap an older version left above the one segment that survives it.
MCGap == {[Start0(Only(1), [Quiet EXCEPT !.certify = 1]) EXCEPT !.wm[sx].high = 2]}
\* Two consumers of one broker, to be run with Preempt = TRUE.
MCRace == {[Start0(Only(3), [Quiet EXCEPT !.merge = 1]) EXCEPT !.pos = 1]}
\* The log drains under a reset while a flush lands.
MCDrained == {[Start0(Only(2), [Quiet EXCEPT !.age = 1, !.expire = 1, !.lapse = 1, !.append = 1]) EXCEPT !.aged = {1}]}
\* The log drains under a consumer that has read all of it.
MCCaughtUp == {[Start0(Only(1), [Quiet EXCEPT !.expire = 1, !.lapse = 2]) EXCEPT !.pos = 1, !.aged = {1}, !.warm = FALSE]}

Symmetry == Permutations(Replica)
=============================================================================
