SPECIFICATION Spec
CONSTANTS
    User = {ann, bob, cid}
    Team = {blue, red}
    Task = {k1, k2, k3}
    None = None
    TopN = 2
    Window = 1
    MonthDays = 2
    MaxDay = 2
    MaxAssigned = 1
    MaxDone = 2
SYMMETRY Symmetry
INVARIANTS
    OnlyRowsByHandAreInvalid
PROPERTIES
    SummaryIsExact
    CreatorsAreTheBusiest
