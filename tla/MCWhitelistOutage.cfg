CONSTANTS
    host = host
    other = other
    k0 = k0
    k1 = k1
    hostEntry = hostEntry
    hostTwin = hostTwin
    any = any
    Torn = Torn
    None = None
    Entities = {host, other}
    Entries = {hostEntry, hostTwin, any}
    Wildcards = {any}
    Covers <- MCCovers
    Endpoints <- MCEndpoints
    Roles = {"issuer", "verifier"}
    FileConfigs <- MCOneConfig
    Keys = {k0, k1}
    KeysOf <- MCKeysOf
    MaxVersion = 1
SPECIFICATION Spec
PROPERTIES
    OutagePreservesKeys
