CONSTANTS
    a1 = a1
    a2 = a2
    b1 = b1
    s = s
    t = t
    Members = {1, 2}
    Requests = {a1, b1}
    Owner <- MCOwner
    Topics = {s, t}
    First <- MCFirst
    Budgets <- MCCalm
SPECIFICATION FairSpec
PROPERTY Converges
