\* Taken routes leave a lifespan running and a document registered.
SPECIFICATION Spec
CONSTANTS
    r1 = r1
    r2 = r2
    t1 = t1
    Runtime = {r1, r2}
    None = None
    PolicyValue = {"open", "guarded"}
    Surface = {"full", "bare"}
    MountPath = {"a"}
    Token = {t1}
    Default = Default
    Watched <- MCWatched
    Contested <- MCSharedRoutes
    MaxTaken = 1
INVARIANT CleanSlate
CHECK_DEADLOCK FALSE
