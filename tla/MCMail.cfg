SPECIFICATION FairSpec
CONSTANTS
    Sender = {a, b}
    MaxRequests = 2
    MinRequests = 3
    Interval = 2
    Timeout = 1
    MaxMails = 4
INVARIANTS
    CountsMatchMails
    ProbesDecide
PROPERTIES
    TripsForCause
    RefusedForCause
    MailFlowsAgain
