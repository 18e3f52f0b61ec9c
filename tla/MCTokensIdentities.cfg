SPECIFICATION FairSpec
CONSTANTS
    Request = {q1, q2}
    Token = {t1, t2}
    User = {alice, bob}
    Guest = {bob}
    Client = {c1}
    Capacity = 1
    ListLimit = 4
    Traffic = {"login", "mint", "request"}
    NoUser = NoUser
    NoToken = NoToken
INVARIANTS BindingsTrue ResolverKnowsBound
PROPERTIES RequestsEnd
