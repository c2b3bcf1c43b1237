CONSTANTS
    q1 = q1
    q2 = q2
    la = la
    lb = lb
    ga = ga
    None = None
    GroupOf <- MCGroupOf
    TTL = 2
    MaxTime = 3
    MaxVersion = 1
    Requests = {q1, q2}
    Leaves = {la, lb}
SYMMETRY MCSymmetry
SPECIFICATION Spec
INVARIANTS
    ReportedListWasUsed
    FreshDenialIsFinal
CHECK_DEADLOCK FALSE
