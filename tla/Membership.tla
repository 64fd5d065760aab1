----------------------------- MODULE Membership -----------------------------
(***************************************************************************)
(* What the teams service promises, with no handlers, transactions or      *)
(* locks: four atomic deeds on the committed tables.  Teams implements it. *)
(***************************************************************************)
EXTENDS Naturals

CONSTANTS User, Email, Team, Code, None, Seed, SeedEmail

VARIABLES
    account,   \* the mailbox of each user, None while not registered
    teams,     \* rows [team, creator]
    members,   \* rows [team, user, role]
    open,      \* invitations not yet spent
    spent      \* codes that have admitted somebody

state == <<account, teams, members, open, spent>>

InTeam(t, u) == \E m \in members : m.team = t /\ m.user = u
Runs(t, u)   == \E m \in members : m.team = t /\ m.user = u /\ m.role \in {"owner", "admin"}

\* An account gets a mailbox nobody else has.
Register(u, e) ==
    /\ account[u] = None
    /\ \A v \in User : account[v] # e
    /\ account' = [account EXCEPT ![u] = e]
    /\ UNCHANGED <<teams, members, open, spent>>

\* A team appears together with its owner.
Found(t, u) ==
    /\ account[u] # None
    /\ \A r \in teams : r.team # t
    /\ teams' = teams \cup {[team |-> t, creator |-> u]}
    /\ members' = members \cup {[team |-> t, user |-> u, role |-> "owner"]}
    /\ UNCHANGED <<account, open, spent>>

\* Whoever runs a team offers a place in it, under a code never used before.
Offer(t, u, e, c) ==
    /\ Runs(t, u)
    /\ c \notin spent
    /\ \A i \in open : i.code # c
    /\ open' = open \cup {[team |-> t, email |-> e, inviter |-> u, code |-> c]}
    /\ UNCHANGED <<account, teams, members, spent>>

\* The owner of the mailbox, not yet in the team, takes the place: the code is
\* spent and the membership exists from the same moment.
Join(i, u) ==
    /\ account[u] = i.email
    /\ ~InTeam(i.team, u)
    /\ members' = members \cup {[team |-> i.team, user |-> u, role |-> "member"]}
    /\ open' = open \ {i}
    /\ spent' = spent \cup {i.code}
    /\ UNCHANGED <<account, teams>>

Init ==
    /\ account = [u \in User |-> IF u = Seed THEN SeedEmail ELSE None]
    /\ teams = {} /\ members = {} /\ open = {} /\ spent = {}

Next ==
    \/ \E u \in User, e \in Email : Register(u, e)
    \/ \E t \in Team, u \in User : Found(t, u)
    \/ \E t \in Team, u \in User, e \in Email, c \in Code : Offer(t, u, e, c)
    \/ \E i \in open, u \in User : Join(i, u)

Spec == Init /\ [][Next]_state
=============================================================================
