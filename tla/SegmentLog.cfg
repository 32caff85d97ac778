CONSTANTS
    r1 = r1
    r2 = r2
    x = x
    y = y
    f1 = f1
    f2 = f2
    f3 = f3
    f4 = f4
    Nil = Nil
    Replica = {r1, r2}
    Flusher = {r1, r2}
    Maintainer = {r2}
    Substream = {x, y}
    Flush = {f1, f2, f3}
    Count <- MCCount1
    MaxPasses = 2
    BoundedPause = TRUE
    WatermarkGetFails = FALSE
    WatermarkPutFails = FALSE
    FoldBelowFails = FALSE
SPECIFICATION Spec
CONSTRAINT FewAtOnce
SYMMETRY Symmetry
INVARIANTS
    NameNeverReused
    OffsetsUnique
    Gapless
    AckedRetained
    FlushedOnce
    EndRecoverable
    FloorAhead
