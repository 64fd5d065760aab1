SPECIFICATION Spec
CONSTANTS
    None = None
    User = {u1}
    Email = {e1}
    Password = {p1}
    Team = {t1}
    Slot = {s1}
    AccessTTL = 1
INVARIANTS
    ManagersMayInvite
