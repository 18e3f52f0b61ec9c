\* A save of both kinds of keys leaves the old policy in force.
SPECIFICATION Spec
CONSTANTS
    r1 = r1
    r2 = r2
    t1 = t1
    Runtime = {r1, r2}
    None = None
    PolicyValue = {"open", "guarded"}
    Surface = {"full", "bare"}
    MountPath = {"a"}
    Token = {t1}
    Default = Default
    Watched <- MCWatched
    Contested <- MCEndpoint
    MaxTaken = 1
INVARIANT ResolverFresh
CHECK_DEADLOCK FALSE
