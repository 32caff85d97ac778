---------------------------- MODULE MCFlushQueue ----------------------------
(* Instances of FlushQueue: plain batches, a marker and one of backfill    *)
(* class; a window closes on two batches, on three if it holds the         *)
(* backfill one.                                                           *)
EXTENDS FlushQueue

CONSTANTS b1, b2, b3, b4

MCBatches == {b1, b2, b3, b4}
MCControl == {b4}
MCBackfill == {b3}
MCSize == [b \in MCBatches |-> 1]

\* Every batch fills a window by itself.
MCLarge == [b \in MCBatches |-> 2]
=============================================================================
