CONSTANTS
    national = national
    federal = federal
    issuers = issuers
    partners = partners
    eaa = eaa
    alice = alice
    bob = bob
    k = k
    c = c
    q1 = q1
    None = None
    Lists = {issuers, partners, eaa}
    LoTLs = {federal, national}
    Sources <- MCSources
    LoTLSources <- MCLoTLSources
    Pointers <- MCPointers
    MaxDepth = 0
    Types = {"pid", "custom", "eaa", "empty"}
    TypeOf <- MCTypeOf
    Standard = {"pid", "eaa", "empty"}
    PubEAA = {"eaa"}
    RoleTypes <- MCRoleTypes
    RequireRole = TRUE
    Subjects = {alice, bob}
    Keys = {k, c}
    Certificates = {c}
    Services <- MCServices
    Requests = {q1}
    Changing = {national, partners}
    Failing = {national}
    MaxRevision = 1
    MaxTime = 2
SPECIFICATION FairSpec
INVARIANTS
    NoLapsedListUsed
    RefreshIsComplete
PROPERTIES
    ExpiryNeverGrants
    UpdatesArrive
