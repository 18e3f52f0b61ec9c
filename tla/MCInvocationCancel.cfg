\* A cancelled execution leaves no audit record.
SPECIFICATION Spec
CONSTANTS
    Calls = {c1}
    Bearer = {b1}
    Command = {"submit"}
    Handler = {h1, h2}
    None = None
    Unknown = "unknown"
    Capability <- MCCapability
    Impersonation = "impersonation"
    Policies <- MCPolicies
    SafeQueries <- MCSafeQueries
    Required <- MCRequired
    Alternatives <- MCAlternatives
    Preflight <- MCPreflight
    Categories <- MCCategories
    SecretWrite = "secret"
    Impersonable = {}
    Audited = {"submit"}
    MaxChanges = 0
INVARIANT CancelledExecutionAudited
CHECK_DEADLOCK FALSE
