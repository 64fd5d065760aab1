SPECIFICATION Spec
CONSTANTS
    None = None
    User = {u1, u2}
    Email = {e1, e2}
    Password = {p1, p2}
    Team = {t1, t2}
    Slot = {s1, s2}
    AccessTTL = 1
SYMMETRY Symmetry
INVARIANTS
    OneAccountPerMailbox
    RegisteredCanLogin
    TokensDoNotOverstate
    LoginCatchesUp
