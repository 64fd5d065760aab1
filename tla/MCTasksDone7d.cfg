SPECIFICATION Spec
CONSTANTS
    None = None
    ann = ann
    bob = bob
    titleA = titleA
    titleB = titleB
    User <- Users
    Team = {team}
    Task = {t1}
    Slot = {s1}
    Draft <- PlainDraft
    Patch <- ClosePatches
    MaxOpen = 3
    Window = 1
    MaxClock = 2
    MaxEdits = 2
SYMMETRY Symmetry
INVARIANTS
    DoneInWindowBecameDoneInWindow
