SPECIFICATION MCSpec
CONSTANTS
    r1 = r1
    r2 = r2
    m1 = m1
    m2 = m2
    m3 = m3
    c1 = c1
    d1 = d1
    g1 = g1
    Replicas = {r1, r2}
    Tasks <- MCTasks
    Host <- MCHost
    Kind <- MCKind
    Values <- MCValues
    Outcomes <- MCOutcomes
    Absent = Absent
    Default <- MCDefault
    Modify <- MCModify
    Outcome <- MCOutcome
    Fresh <- MCFresh
INVARIANTS
    CacheCoherent
PROPERTIES
    Implements
    CallsReturn
CHECK_DEADLOCK FALSE
