SPECIFICATION FairSpec
CONSTANTS
    Slot = {s1, s2}
    User = {alice}
    Address = {home}
    NoUser = NoUser
    Limit = 2
    MaxResends = 1
    Period = 2
INVARIANTS
    TypeOK
    ServedByOpenClients
    PassesWithinLimit
PROPERTIES
    RefusedForCause
    LimitedForAWhile
    StopsWhenTold
