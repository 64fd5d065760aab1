SPECIFICATION Spec
CONSTANTS
    None = None
    DefaultPer = 1
    MaxPer = 3
    ann = ann
    eve = eve
    team = team
    User <- Users
    Team = {team}
    Task = {k1, k2}
    Status = {"todo"}
    Slot = {s1, s2}
    Asked <- Lists
    TTL = 1
    Span = 0
    MaxWrites = 2
SYMMETRY Symmetry
INVARIANTS
    RepliesMatchRequests
