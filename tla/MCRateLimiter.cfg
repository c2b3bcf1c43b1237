CONSTANTS
    q1 = q1
    q2 = q2
    q3 = q3
    c1 = c1
    b1 = b1
    b2 = b2
    b3 = b3
    b4 = b4
    Absent = Absent
    Handlers = {q1, q2, q3}
    Clients = {c1}
    Buckets = {b1, b2, b3, b4}
    Rate = 1
    Burst = 1
    MaxAge = 1
SPECIFICATION LimiterSpec
INVARIANTS
    ClientsAreLimited
