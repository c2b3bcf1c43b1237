CONSTANTS
    eu = eu
    se = se
    de = de
    fi = fi
    ca1 = ca1
    ca2 = ca2
    ca3 = ca3
    k1 = k1
    k2 = k2
    k3 = k3
    stranger = stranger
    p1 = p1
    p2 = p2
    stray = stray
    q1 = q1
    None = None
    Files = Files
    Locations = {eu, se, de, fi}
    Sources <- MCSources
    Following = {eu}
    Refs <- MCRefs
    MaxRefDepth = 2
    Certificates = {ca1, ca2, ca3}
    Bundle = {ca3}
    Services <- MCServices
    Keys = {k1, k2, k3, stranger}
    LOTLSigners = {k1}
    SignerOf <- MCSignerOf
    RequireSignature = TRUE
    FollowPivots = TRUE
    Pivots = {p1, p2, stray}
    PivotURLs <- MCPivotURLs
    PivotSigner <- MCPivotSigner
    PointerSigners <- MCPointerSigners
    Statuses = {"granted", "withdrawn"}
    ServiceTypes = {"pid", "eaa"}
    Requests = {q1}
    Failing = {p1}
    FirstDates <- MCFirstDates
    LastRevision <- MCLastRevision
    MaxTime = 2
SPECIFICATION FairSpec
INVARIANTS
    ApprovalsAreCurrent
    LiveListsStay
    OnlyTrustedSigners
PROPERTIES
    UpdatesArrive
