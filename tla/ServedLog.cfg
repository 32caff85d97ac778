CONSTANTS
    r1 = r1
    r2 = r2
    sx = sx
    sy = sy
    c1 = c1
    c2 = c2
    m1 = m1
    Nil = Nil
    Replica = {r1, r2}
    Substream = {sx, sy}
    Fetcher = {c1}
    Maintainer = {m1}
    Reads <- MCReads
    Scenarios <- MCScenarios
    ProbeWindow = 2
    PageSize = 2
    MaxRelists = 2
    MaxAttempts = 2
    Preempt = FALSE
SPECIFICATION Spec
SYMMETRY Symmetry
CHECK_DEADLOCK FALSE
INVARIANTS TypeOK NoSkip RefusedIsGone EarliestHonest Retained CertifiedIsDead

