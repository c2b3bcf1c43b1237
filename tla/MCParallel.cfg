CONSTANTS
    MaxFailures = 1
    ResetTimeout = 0
    FailureBound = 2
    ra = ra
    rb = rb
    rc = rc
    na = na
    nb = nb
    q1 = q1
    q2 = q2
    None = None
    Registries = {ra, rb, rc}
    Names = {na, nb}
    NameOf <- MCNameOf
    IdsOf <- MCIdsOf
    Requests = {q1}
    Strategies = {"first_match", "all", "best_match"}
    Flaky = {ra, rb, rc}
SPECIFICATION FairSpec
INVARIANTS
    VerdictIsBacked
    PromotionFollowsVotes
    SendNeverBlocks
PROPERTIES
    NoGoroutineLeak
    ImplementsContract
CHECK_DEADLOCK FALSE
