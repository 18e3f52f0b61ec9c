\* All saves, binds and failures, routes of every group contested.
SPECIFICATION RegimeSpec
CONSTANTS
    r1 = r1
    r2 = r2
    t1 = t1
    Runtime = {r1, r2}
    None = None
    PolicyValue = {"open", "guarded"}
    Surface = {"full", "bare"}
    MountPath = {"a", "b"}
    Token = {t1}
    Default = Default
    Watched <- MCWatched
    Contested <- MCContested
    MaxTaken = 1
INVARIANTS TypeOK EndpointBacked OneLifespan NoOrphanRoutes
    ResolverLagsOnlyAfterMixedSave MountFresh RetentionFollows
PROPERTY OperationEnds
CHECK_DEADLOCK FALSE
