SPECIFICATION Spec
CONSTANTS
    Request = {q1, q2}
    Token = {t1, t2, t3}
    User = {alice}
    Guest = {}
    Client = {c1}
    Capacity = 2
    ListLimit = 3
    Traffic = {"open", "exchange", "mint"}
    NoUser = NoUser
    NoToken = NoToken
SYMMETRY MCSymmetry
INVARIANTS TypeOK SpentOnce Rotated
