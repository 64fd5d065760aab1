SPECIFICATION FairSpec
CONSTANTS
    None = None
    DefaultPer = 2
    MaxPer = 3
    ann = ann
    eve = eve
    team = team
    User = {ann}
    Team = {team}
    Task = {k1}
    Status = {"todo", "done"}
    Slot = {s1, s2}
    Asked <- OneList
    TTL = 2
    Span = 1
    MaxWrites = 2
INVARIANTS
    BoundedStaleness
PROPERTIES
    ListsConverge
