------------------------------- MODULE Teams -------------------------------
(***************************************************************************)
(* Teams, memberships and invitations: the handlers of                     *)
(* internal/service/teams running concurrently over the MySQL tables       *)
(* users, teams, team_members and team_invites.                            *)
(*                                                                         *)
(* A slot is a goroutine serving one request at a time.  A handler takes   *)
(* one step per database or mailer call; its `pc' names the call it is     *)
(* about to make.  A statement outside a transaction reads and writes      *)
(* committed rows; the statements of a transaction collect in tx[s], hold  *)
(* the locks of the rows they wrote, and reach the tables at Commit.       *)
(***************************************************************************)
EXTENDS Naturals, FiniteSets

CONSTANTS
    User, Email,      \* accounts and mailboxes (addresses equal up to case are one mailbox)
    Team, Code,       \* the pools uuid.New() draws from: the bound on teams and invites
    Slot,             \* requests in flight at once
    None,             \* "no value"
    Seed, SeedEmail   \* the account the data migration inserts

ASSUME TeamsAssumption ==
    /\ Seed \in User /\ SeedEmail \in Email
    /\ None \notin User \cup Email \cup Team \cup Code

VARIABLES
    account,   \* users:        the email of each user, None while not registered
    teams,     \* teams:        rows [team, creator]
    members,   \* team_members: rows [team, user, role], primary key (team, user)
    invites,   \* team_invites: rows [team, email, inviter, code], unique code
    pc,        \* the call the handler in each slot makes next, "idle" without one
    req,       \* its request: operation, caller and arguments
    tx,        \* the uncommitted writes of each slot's transaction
    issued,    \* history: every invitation ever inserted
    uses,      \* history: how many committed accepts each code has had
    mailed     \* history: the codes the mailer was given

tables  == <<account, teams, members, invites>>
history == <<issued, uses, mailed>>
vars    == <<tables, pc, req, tx, history>>

Role      == {"owner", "admin", "member"}
TeamRow   == [team : Team, creator : User]
MemberRow == [team : Team, user : User, role : Role]
InviteRow == [team : Team, email : Email, inviter : User, code : Code]

\* The calls each handler makes, in the order it makes them.
CreateTeamCalls   == {"teams.Create", "members.Add", "tx.Commit", "reply"}
InviteCalls       == {"teams.Exists", "members.GetRole", "users.FindIDByEmail",
                      "members.IsMember", "invites.Create", "mailer.Send", "reply"}
AcceptInviteCalls == {"invites.GetByCode", "users.GetEmailByID", "members.IsMember",
                      "members.Add", "invites.DeleteByCode", "tx.Commit", "reply"}

Request == [op : {"none", "CreateTeam", "Invite", "AcceptInvite"}, user : User \cup {None},
            team : Team \cup {None}, email : Email \cup {None}, code : Code \cup {None}]
Writes  == [teams : SUBSET TeamRow, members : SUBSET MemberRow, spent : SUBSET Code]
NoReq == [op |-> "none", user |-> None, team |-> None, email |-> None, code |-> None]
NoTx  == [teams |-> {}, members |-> {}, spent |-> {}]

TypeOK ==
    /\ account \in [User -> Email \cup {None}]
    /\ teams \subseteq TeamRow
    /\ members \subseteq MemberRow
    /\ invites \subseteq InviteRow
    /\ pc \in [Slot -> {"idle"} \cup CreateTeamCalls \cup InviteCalls \cup AcceptInviteCalls]
    /\ req \in [Slot -> Request]
    /\ tx \in [Slot -> Writes]
    /\ issued \subseteq InviteRow
    /\ uses \in [Code -> Nat]
    /\ mailed \subseteq Code

-----------------------------------------------------------------------------
(* Queries, as the repositories answer them from committed rows.           *)

TeamExists(t)  == \E r \in teams : r.team = t
IsMember(t, u) == \E m \in members : m.team = t /\ m.user = u
HasRole(t, u, roles) == \E m \in members : m.team = t /\ m.user = u /\ m.role \in roles
Registered(e)  == \E u \in User : account[u] = e
ListTeams(u)   == {r \in teams : IsMember(r.team, u)}

\* A row another transaction has written and not yet committed is locked.
RowLocked(s, t, u) == \E o \in Slot \ {s} : \E m \in tx[o].members : m.team = t /\ m.user = u
CodeLocked(s, c)   == \E o \in Slot \ {s} : c \in tx[o].spent

-----------------------------------------------------------------------------
(* How a handler moves.                                                     *)

At(s, op, call) == req[s].op = op /\ pc[s] = call
Goto(s, call)   == pc' = [pc EXCEPT ![s] = call] /\ UNCHANGED req

\* A transaction's statement adds to its uncommitted writes.
Pend(s, t, m, c) ==
    tx' = [tx EXCEPT ![s] = [teams   |-> tx[s].teams \cup t,
                             members |-> tx[s].members \cup m,
                             spent   |-> tx[s].spent \cup c]]

\* Variant: the rollback is not deferred and an early return leaks its locks.
FinishWithoutRollback(s) ==
    /\ pc' = [pc EXCEPT ![s] = "idle"]
    /\ req' = [req EXCEPT ![s] = NoReq]
    /\ UNCHANGED tx

\* Every return, with or without an error, runs the deferred tx.Rollback().
Finish(s) ==
    /\ pc' = [pc EXCEPT ![s] = "idle"]
    /\ req' = [req EXCEPT ![s] = NoReq]
    /\ tx' = [tx EXCEPT ![s] = NoTx]

\* A query outside a transaction: on to the next call, or an error reply.
Check(s, ok, next) ==
    /\ IF ok THEN Goto(s, next) /\ UNCHANGED tx ELSE Finish(s)
    /\ UNCHANGED <<tables, history>>

Arrive(s, op, call, u, t, e, c) ==
    /\ pc[s] = "idle"
    /\ account[u] # None
    /\ pc' = [pc EXCEPT ![s] = call]
    /\ req' = [req EXCEPT ![s] = [op |-> op, user |-> u, team |-> t,
                                  email |-> e, code |-> c]]
    /\ UNCHANGED <<tables, tx, history>>

\* uuid.New() returns an id nothing in the system carries yet.  A pool that is
\* used up keeps further CreateTeam or Invite requests from arriving.
FreshTeam == Team \ ({r.team : r \in teams} \cup {req[s].team : s \in Slot})
FreshCode == Code \ ({i.code : i \in issued} \cup {req[s].code : s \in Slot})

-----------------------------------------------------------------------------
(* The statements of the transactions, and their commit.                    *)

\* Variant: a table without its primary key.
MembersAddAnyway(s) ==
    LET r     == req[s]
        owner == r.op = "CreateTeam"
    IN  /\ pc[s] = "members.Add"
        /\ Pend(s, {}, {[team |-> r.team, user |-> r.user,
                        role |-> IF owner THEN "owner" ELSE "member"]}, {})
        /\ Goto(s, IF owner THEN "tx.Commit" ELSE "invites.DeleteByCode")
        /\ UNCHANGED <<tables, history>>

\* INSERT INTO team_members: waits for a transaction that holds the same key,
\* fails on a committed row with that key.
MembersAdd(s) ==
    LET r    == req[s]
        role == IF r.op = "CreateTeam" THEN "owner" ELSE "member"
        next == IF r.op = "CreateTeam" THEN "tx.Commit" ELSE "invites.DeleteByCode"
    IN  /\ pc[s] = "members.Add"
        /\ ~RowLocked(s, r.team, r.user)
        /\ IF IsMember(r.team, r.user)
           THEN Finish(s)
           ELSE /\ Pend(s, {}, {[team |-> r.team, user |-> r.user, role |-> role]}, {})
                /\ Goto(s, next)
        /\ UNCHANGED <<tables, history>>

\* The effect of a commit on the tables.
Apply(s) ==
    /\ teams' = teams \cup tx[s].teams
    /\ members' = members \cup tx[s].members
    /\ invites' = {i \in invites : i.code \notin tx[s].spent}
    /\ uses' = IF req[s].op = "AcceptInvite"
               THEN [uses EXCEPT ![req[s].code] = @ + 1] ELSE uses
    /\ UNCHANGED <<account, issued, mailed>>

Commit(s) ==
    /\ pc[s] = "tx.Commit"
    /\ Apply(s)
    /\ tx' = [tx EXCEPT ![s] = NoTx]
    /\ Goto(s, "reply")

\* The server commits but the answer is lost: the handler returns an error.
CommitUnheard(s) ==
    /\ pc[s] = "tx.Commit"
    /\ Apply(s)
    /\ Finish(s)

-----------------------------------------------------------------------------
(* CreateTeam                                                               *)

CallCreateTeam(s, u) ==
    \E t \in FreshTeam : Arrive(s, "CreateTeam", "teams.Create", u, t, None, None)

\* Variant: the team is inserted with a nil executor, outside the transaction.
TeamsCreateAutocommit(s) ==
    /\ At(s, "CreateTeam", "teams.Create")
    /\ teams' = teams \cup {[team |-> req[s].team, creator |-> req[s].user]}
    /\ Goto(s, "members.Add")
    /\ UNCHANGED <<account, members, invites, tx, history>>

TeamsCreate(s) ==
    /\ At(s, "CreateTeam", "teams.Create")
    /\ Pend(s, {[team |-> req[s].team, creator |-> req[s].user]}, {}, {})
    /\ Goto(s, "members.Add")
    /\ UNCHANGED <<tables, history>>

-----------------------------------------------------------------------------
(* Invite                                                                   *)

\* The code is drawn here, where the pool's bound does no harm, and stays
\* unknown to everybody until InvitesCreate.
CallInvite(s, u, t, e) ==
    \E c \in FreshCode : Arrive(s, "Invite", "teams.Exists", u, t, e, c)

TeamsExists(s) ==
    /\ At(s, "Invite", "teams.Exists")
    /\ Check(s, TeamExists(req[s].team), "members.GetRole")

\* Variant: the inviter's role is not looked at.
GetRoleUnchecked(s) ==
    At(s, "Invite", "members.GetRole") /\ Check(s, TRUE, "users.FindIDByEmail")

GetRole(s) ==
    /\ At(s, "Invite", "members.GetRole")
    /\ Check(s, HasRole(req[s].team, req[s].user, {"owner", "admin"}),
             "users.FindIDByEmail")

FindIDByEmail(s) ==
    /\ At(s, "Invite", "users.FindIDByEmail")
    /\ Check(s, TRUE, IF Registered(req[s].email)
                      THEN "members.IsMember" ELSE "invites.Create")

InviteeIsMember(s) ==
    /\ At(s, "Invite", "members.IsMember")
    /\ Check(s, \A u \in User : account[u] = req[s].email => ~IsMember(req[s].team, u),
             "invites.Create")

\* INSERT INTO team_invites, committed on its own.
InsertInvite(s) ==
    LET row == [team |-> req[s].team, email |-> req[s].email,
                inviter |-> req[s].user, code |-> req[s].code]
    IN  /\ At(s, "Invite", "invites.Create")
        /\ invites' = invites \cup {row}
        /\ issued' = issued \cup {row}
        /\ UNCHANGED <<account, teams, members, uses, mailed>>

InvitesCreate(s) == InsertInvite(s) /\ Goto(s, "mailer.Send") /\ UNCHANGED tx

\* The row is written but the answer is lost: an error, and no mail.
InvitesCreateUnheard(s) == InsertInvite(s) /\ Finish(s)

MailerSend(s) ==
    /\ At(s, "Invite", "mailer.Send")
    /\ mailed' = mailed \cup {req[s].code}
    /\ Goto(s, "reply")
    /\ UNCHANGED <<tables, tx, issued, uses>>

\* The breaker refuses the call, or the mailer takes the message and then
\* reports an error.  The row stays; the handler returns the error.
MailerFails(s) ==
    /\ At(s, "Invite", "mailer.Send")
    /\ mailed' \in {mailed, mailed \cup {req[s].code}}
    /\ Finish(s)
    /\ UNCHANGED <<tables, issued, uses>>

-----------------------------------------------------------------------------
(* AcceptInvite                                                             *)

CallAcceptInvite(s, u, c) == Arrive(s, "AcceptInvite", "invites.GetByCode", u, None, None, c)

\* Variant: the row's team id is scanned and then not copied to the record.
GetByCodeNoTeam(s) ==
    /\ At(s, "AcceptInvite", "invites.GetByCode")
    /\ \E i \in invites :
         /\ i.code = req[s].code
         /\ pc' = [pc EXCEPT ![s] = "users.GetEmailByID"]
         /\ req' = [req EXCEPT ![s].email = i.email]
    /\ UNCHANGED <<tables, tx, history>>

GetByCode(s) ==
    /\ At(s, "AcceptInvite", "invites.GetByCode")
    /\ \/ \E i \in invites :
            /\ i.code = req[s].code
            /\ pc' = [pc EXCEPT ![s] = "users.GetEmailByID"]
            /\ req' = [req EXCEPT ![s] = [op |-> "AcceptInvite", user |-> req[s].user,
                                 team |-> i.team, email |-> i.email, code |-> i.code]]
            /\ UNCHANGED tx
       \/ /\ \A i \in invites : i.code # req[s].code
          /\ Finish(s)
    /\ UNCHANGED <<tables, history>>

\* Variant: whoever knows the code may use it.
GetEmailByIDUnchecked(s) ==
    At(s, "AcceptInvite", "users.GetEmailByID") /\ Check(s, TRUE, "members.IsMember")

GetEmailByID(s) ==
    /\ At(s, "AcceptInvite", "users.GetEmailByID")
    /\ Check(s, account[req[s].user] = req[s].email, "members.IsMember")

AccepterIsMember(s) ==
    /\ At(s, "AcceptInvite", "members.IsMember")
    /\ Check(s, ~IsMember(req[s].team, req[s].user), "members.Add")

\* Variant: the invitation is deleted with a nil executor, outside the transaction.
DeleteByCodeAutocommit(s) ==
    /\ At(s, "AcceptInvite", "invites.DeleteByCode")
    /\ invites' = {i \in invites : i.code # req[s].code}
    /\ Goto(s, "tx.Commit")
    /\ UNCHANGED <<account, teams, members, tx, history>>

\* DELETE FROM team_invites WHERE code = ?: no row to delete is no error.
DeleteByCode(s) ==
    /\ At(s, "AcceptInvite", "invites.DeleteByCode")
    /\ ~CodeLocked(s, req[s].code)
    /\ Pend(s, {}, {}, {req[s].code})
    /\ Goto(s, "tx.Commit")
    /\ UNCHANGED <<tables, history>>

-----------------------------------------------------------------------------
(* Replies, failures and the rest of the system.                            *)

Reply(s) ==
    /\ pc[s] = "reply"
    /\ Finish(s)
    /\ UNCHANGED <<tables, history>>

\* Variant: the error of tx.Commit() is dropped.
DatabaseFailsUnnoticed(s) ==
    /\ pc[s] = "tx.Commit"
    /\ tx' = [tx EXCEPT ![s] = NoTx]
    /\ Goto(s, "reply")
    /\ UNCHANGED <<tables, history>>

\* A statement, or the commit, fails and has no effect: the driver reports an
\* error, the client disconnected and its context is cancelled, a lock wait
\* timed out.
DatabaseFails(s) ==
    /\ pc[s] \notin {"idle", "reply", "mailer.Send"}
    /\ Finish(s)
    /\ UNCHANGED <<tables, history>>

\* The process dies: handlers are gone and open transactions roll back.
Crash ==
    /\ pc' = [s \in Slot |-> "idle"]
    /\ req' = [s \in Slot |-> NoReq]
    /\ tx' = [s \in Slot |-> NoTx]
    /\ UNCHANGED <<tables, history>>

\* INSERT INTO users by the auth service: the email must be free.
UsersCreate(u, e) ==
    /\ account[u] = None
    /\ ~Registered(e)
    /\ account' = [account EXCEPT ![u] = e]
    /\ UNCHANGED <<teams, members, invites, pc, req, tx, history>>

-----------------------------------------------------------------------------
Init ==
    /\ account = [u \in User |-> IF u = Seed THEN SeedEmail ELSE None]
    /\ teams = {} /\ members = {} /\ invites = {}
    /\ pc = [s \in Slot |-> "idle"]
    /\ req = [s \in Slot |-> NoReq]
    /\ tx = [s \in Slot |-> NoTx]
    /\ issued = {} /\ mailed = {}
    /\ uses = [c \in Code |-> 0]

Call(s) ==
    \E u \in User : \/ CallCreateTeam(s, u)
                    \/ \E t \in Team, e \in Email : CallInvite(s, u, t, e)
                    \/ \E c \in Code : CallAcceptInvite(s, u, c)

\* A call that waits for a lock, and every other call, when it succeeds.
Write(s) == MembersAdd(s) \/ DeleteByCode(s)
Step(s)  == \/ TeamsCreate(s)      \/ Commit(s)
            \/ TeamsExists(s)      \/ GetRole(s)       \/ FindIDByEmail(s)
            \/ InviteeIsMember(s)  \/ InvitesCreate(s) \/ MailerSend(s)
            \/ GetByCode(s)        \/ GetEmailByID(s)  \/ AccepterIsMember(s)
            \/ Reply(s)
Fault(s) == \/ CommitUnheard(s) \/ InvitesCreateUnheard(s)
            \/ MailerFails(s)   \/ DatabaseFails(s)

Next ==
    \/ \E s \in Slot : Call(s) \/ Write(s) \/ Step(s) \/ Fault(s)
    \/ \E u \in User, e \in Email : UsersCreate(u, e)
    \/ Crash

Spec == Init /\ [][Next]_vars

\* A statement the database can execute is executed, and InnoDB grants row
\* locks in arrival order, so a waiting write is not overtaken for ever.
\* Nothing is assumed of clients, faults or crashes.
FairSpec == Spec /\ \A s \in Slot : WF_vars(Step(s)) /\ SF_vars(Write(s))

-----------------------------------------------------------------------------
(* Properties.                                                              *)

Addressee(i, u) == account[u] = i.email

\* A code is a one-time grant: however many AcceptInvite handlers read it
\* before any of them writes, at most one accept of it is ever committed.
OneGrantPerCode == \A c \in Code : uses[c] <= 1

\* An invitation leaves team_invites only together with its addressee's entry
\* into the team: no crash, fault or interleaving of AcceptInvite burns a code.
SpentCodeMadeMember ==
    \A i \in issued \ invites :
        \E u \in User : Addressee(i, u) /\ IsMember(i.team, u)

\* Nobody but a founder is in a team without having spent an invitation to
\* that team, sent to their own mailbox by an owner or admin of it.
MembersWereInvited ==
    \A m \in members : m.role # "owner" =>
        \E i \in issued \ invites :
            /\ i.team = m.team /\ Addressee(i, m.user)
            /\ HasRole(i.team, i.inviter, {"owner", "admin"})

\* Every visible team has exactly one owner, its creator, and every
\* membership is of a visible team (CreateTeam is all or nothing).
EveryTeamHasItsOwner ==
    /\ \A r \in teams :
          {m \in members : m.team = r.team /\ m.role = "owner"}
            = {[team |-> r.team, user |-> r.creator, role |-> "owner"]}
    /\ \A m \in members : TeamExists(m.team)

\* A handler about to answer 2xx tells the truth about the committed tables:
\* the team is in its creator's list, the invitation is in the invitee's
\* mailbox, the accepted invitation is gone and the user is in the team.
OkReplyIsTrue ==
    \A s \in Slot : pc[s] = "reply" =>
        /\ req[s].op = "CreateTeam" =>
              [team |-> req[s].team, creator |-> req[s].user] \in ListTeams(req[s].user)
        /\ req[s].op = "Invite" =>
              \E i \in issued : i.code = req[s].code /\ i.code \in mailed
        /\ req[s].op = "AcceptInvite" =>
              /\ IsMember(req[s].team, req[s].user)
              /\ \A i \in invites : i.code # req[s].code

\* Every request is answered: no handler waits for ever for the row locks of
\* another, whatever failed in between.
EveryRequestIsAnswered == \A s \in Slot : pc[s] # "idle" ~> pc[s] = "idle"

-----------------------------------------------------------------------------
\* The committed tables, seen without the handlers, obey the atomic promise:
\* registering, founding, offering and joining are each one indivisible deed.
Promise == INSTANCE Membership WITH open <- invites, spent <- {c \in Code : uses[c] > 0}

ImplementsMembership == Promise!Spec
=============================================================================
