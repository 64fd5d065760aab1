SPECIFICATION FairSpec
CONSTANTS
    None = None
    User = {admin, bob, eve}
    Seed = admin
    Email = {e_admin, e_bob, e_eve}
    SeedEmail = e_admin
    Team = {t1, t2}
    Code = {c1}
    Slot = {s1, s2}
INVARIANTS
    TypeOK
    OneGrantPerCode
    MembersWereInvited
    EveryTeamHasItsOwner
    OkReplyIsTrue
    SpentCodeMadeMember
PROPERTIES
    ImplementsMembership
    EveryRequestIsAnswered
