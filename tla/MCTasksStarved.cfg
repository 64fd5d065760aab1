SPECIFICATION TimeoutSpec
CONSTANTS
    None = None
    ann = ann
    bob = bob
    titleA = titleA
    titleB = titleB
    User <- Users
    Team = {team}
    Task = {t1, t2}
    Slot = {s1, s2}
    Draft <- PlainDraft
    Patch <- AssignPatch
    MaxOpen = 2
    Window = 1
    MaxClock = 0
    MaxEdits = 2
PROPERTIES
    EveryRequestIsAnswered
