\* The registries beside ETSI, whitelist and LoTE, each a case of its own.
CONSTANTS
    None = None
    Placeholder = Placeholder
    Zero = Zero
    KeyLength = 1
    OnCurve <- MCOnCurve
    Methods = {"webvh", "web", "local", "jwks", "oidfed", "emrtd", "mds3", "lists"}
    Requests <- MCRequests
    Now = 3
    MaxLog = 3
    DID <- MCDID
    Genesis <- MCGenesis
    EntryChoices <- MCEntryChoices
    Documents <- MCDocuments
    JWKSChoices <- MCJWKSChoices
    URIs = {u1, u2}
    SecureURIs = {u1}
    Registered = {"key", "jwk"}
    Callers = {c1, c2}
    FedRequests <- MCFedRequests
    Chains <- MCChains
    RequiredTrustMarks = {}
    EntityTypes = {}
    MaxChainDepth = 3
    KnownTypes = {"op", "rp"}
    CredentialMarks <- MCCredentialMarks
    CacheTTL = 2
    MaxSize = 2
    MaxTime = 2
    NoChain = NoChain
    Countries <- MCCountries
    NoCountry = NoCountry
    Trees <- MCTrees
    FirstTree <- MCFirstTree
    DERequests <- MCDERequests
    MaxEdits = 3
    MaxLocations = 1
    Bad = Bad
    Nothing = Nothing
    Models = {"m1", "m2"}
    Acceptable <- MCAcceptable
    MaxBlob = 2
    Lists = {"v", "r", "i"}
    KindOf <- MCKindOf
    RootOf <- MCRootOf
    IssuerAllowlist = {"i"}
    Offers <- MCOffers
    Presented <- MCPresented
    DocTypes = {"mdl"}
    AllowLists = {{}, {"j"}}
    NoDocument = NoDocument
    NoList = NoList
    NoEntry = NoEntry
    c1 = c1
    c2 = c2
    k1 = k1
    k2 = k2
    f1 = f1
    f2 = f2
    u1 = u1
    u2 = u2
SPECIFICATION FairSpec
INVARIANTS
    SameVersionSameHistory
    ApprovedLogsAreTheHolders
    
    Base58Inverse
    ConstraintsRespected
    CacheIsSound
    SignersAreVouchedFor
    ServesOnceLoaded
    ListedAnchorsDecide
PROPERTIES
    SnapshotNeverGoesBack
    DiskIsLoaded
