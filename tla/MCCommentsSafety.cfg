SPECIFICATION Spec
CONSTANTS
    None = None
    DefaultPer = 2
    MaxPer = 3
    User = {ann, eve}
    Team = {team}
    Task = {k1, k2}
    Comment = {c1, c2}
    Body = {b1}
    Slot = {s1, s2}
    Asked <- OnePage
    MaxClock = 1
SYMMETRY Symmetry
INVARIANTS
    DeletedForGood
    OkReplyIsTrue
    UndisturbedListIsExact
PROPERTIES
    AuthorsWrite
