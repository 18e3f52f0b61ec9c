\* Bridge, log scan and pages, discovery, command policy, preflights and envelopes.
SPECIFICATION FairSpec
CONSTANTS
    Parts = {"bridge", "scan", "log", "discovery", "policy", "preflight", "envelope"}
    MaxChunks = 2
    Byte = {"x", "y"}
    Newline = "n"
    Texts <- MCTexts
    BlockSize = 2
    MaxScan = 5
    MaxBytes = 6
    Line <- MCLine
    Logs <- MCLogs
    Limit = 2
    Budget = 3
    ScanCap = 5
    MaxLines = 4
    Walk = {"w1"}
    Command = {"a", "b", "c", "z"}
    HardDenied = {"z"}
    Before <- MCBefore
    Policies <- MCPolicies
    Registries <- MCRegistries
    Relevance <- MCRelevance
    NoSnapshot = NoSnapshot
    PageLimit = 1
    MaxEdits = 2
    Registered <- MCRegistered
    Scopes <- MCScopes
    Overrides = {"none", "read", "write"}
    Exact <- MCExact
    Cases <- MCCases
    ItemSize = 2
    CountSize = 2
    FieldsSize = 3
INVARIANTS TypeOK
    BodyWholeOrCut SilenceExplained
    ScanFaithful PagesFaithful PagesJoin
    ReadNeverMutates MemberDecides
    ClassHolds CutFairly
PROPERTIES AnswersEnd
CHECK_DEADLOCK FALSE
