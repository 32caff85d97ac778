SPECIFICATION FairSpec
CONSTANTS
    Conns = {c1, c2}
    b1 = b1
    b2 = b2
    b3 = b3
    b4 = b4
    Batches <- MCBatches
    Control <- MCControl
    Backfill <- MCBackfill
    Size <- MCSize
    TightSize = 2
    RelaxedSize = 3
    Depth = 1
INVARIANTS
    AdmissionOrder
    OneWorker
    NoWindowCutShort
PROPERTIES
    EveryBatchAnswered
    AdmissionNeverStuck
CHECK_DEADLOCK FALSE
