CONSTANTS
    a1 = a1
    a2 = a2
    b1 = b1
    s = s
    t = t
    Members = {1, 2}
    Requests = {a1, a2, b1}
    Owner <- MCOwner
    Topics = {s, t}
    First <- MCFirst
    Budgets <- MCBudgets
SPECIFICATION Spec
SYMMETRY Symmetry
CHECK_DEADLOCK FALSE
INVARIANTS
    AssignmentCovers
    AssignmentAgreed
PROPERTIES
    CommitFenced
