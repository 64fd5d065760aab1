SPECIFICATION FairSpec
CONSTANTS
    None = None
    ann = ann
    bob = bob
    titleA = titleA
    titleB = titleB
    User <- Users
    Team = {team}
    Task = {t1}
    Slot = {s1, s2}
    Draft <- Drafts
    Patch <- Patches
    MaxOpen = 3
    Window = 1
    MaxClock = 1
    MaxEdits = 2
INVARIANTS
    HistoryReplaysToRow
    OkReplyIsTrue
    NoInvalidAssignees
    DoneIsDated
    HistoryIsToldInOrder
PROPERTIES
    ImplementsTaskStore
    EveryRequestIsAnswered
