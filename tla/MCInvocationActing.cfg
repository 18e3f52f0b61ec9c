\* A config save, possibly as another user, through the pipeline, three changes anywhere.
SPECIFICATION FairSpec
CONSTANTS
    Calls = {c1}
    Bearer = {b1}
    Command = {"save"}
    Handler = {h1, h2}
    None = None
    Unknown = "unknown"
    Capability <- MCCapability
    Impersonation = "impersonation"
    Policies <- MCPolicies
    SafeQueries <- MCSafeQueries
    Required <- MCRequired
    Alternatives <- MCAlternatives
    Preflight <- MCPreflight
    Categories <- MCCategories
    SecretWrite = "secret"
    Impersonable = {"save"}
    Audited = {"save"}
    MaxChanges = 3
PROPERTIES MonitorSpec EveryCallSettles
CHECK_DEADLOCK FALSE
