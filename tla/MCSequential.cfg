CONSTANTS
    MaxFailures = 1
    ResetTimeout = 0
    FailureBound = 2
    ra = ra
    rb = rb
    na = na
    nb = nb
    q1 = q1
    q2 = q2
    None = None
    Registries = {ra, rb}
    Names = {na, nb}
    NameOf <- MCNameOf
    IdsOf <- MCIdsOf
    RegistrationOrder <- MCOrder
    Requests = {q1, q2}
SPECIFICATION SequentialFairSpec
INVARIANTS
    PreferenceRespected
PROPERTIES
    ImplementsContract
CHECK_DEADLOCK FALSE
