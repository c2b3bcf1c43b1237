CONSTANTS
    q1 = q1
    q2 = q2
    web = web
    lote = lote
    forged = forged
    None = None
    Requests = {q1, q2}
    ClientRequests <- MCClientRequests
    Policies = {"issue", "present"}
    PolicyOf <- MCPolicyOf
    OtherActions = {"other", "more"}
    Registries = {web, lote}
    SupportedTypes <- MCSupportedTypes
    Resolvers = {web, lote}
    ClientKeys = {"query", "credential_types"}
    ControlKeys = {"allowed_domains", "allowed_attributes"}
    ClientValues = {forged}
    Segments = {"x509_san_dns", "x509_san_uri", "https", "h"}
    MaxWarned = 1
SYMMETRY RequestSymmetry
SPECIFICATION Spec
INVARIANTS
    ControlsAreThePolicys
    IdentityIsTheOneSent
    PolicyIsEnforced
