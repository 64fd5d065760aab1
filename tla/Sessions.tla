------------------------------ MODULE Sessions ------------------------------
(***************************************************************************)
(* Who a request is made for: registration and login in                    *)
(* internal/service/auth, and the JWT and RBAC middlewares in front of the *)
(* two operations the router gives to some roles only.                     *)
(*                                                                         *)
(* A token carries the highest role its user had in any team when it was   *)
(* signed, and is believed until it expires.  The services look the role   *)
(* in the team at hand up again.                                           *)
(***************************************************************************)
EXTENDS Naturals, FiniteSets, FiniteSetsExt

CONSTANTS
    User,        \* the pool uuid.New() draws from: the bound on accounts
    Email, Password, Team,
    Slot,        \* requests in flight at once
    None,        \* "no value"
    AccessTTL    \* the life of a token, in ticks

ASSUME SessionsAssumption ==
    /\ AccessTTL \in Nat \ {0}
    /\ None \notin User \cup Email \cup Password \cup Team

VARIABLES
    users,    \* users: the email and password of each id, None while there is no such row
    members,  \* team_members: rows [team, user, role], primary key (team, user)
    tokens,   \* the signed tokens that have not expired: [user, role, left]
    pc,       \* the call the handler in each slot makes next, "idle" without one
    req,      \* its request: operation, arguments, and what the middlewares put in its context
    led,      \* history variable: the account of this login managed a team when it began
    welcomed  \* history variable: how many registrations of each mailbox were answered 201

tables == <<users, members>>
local  == <<pc, req, led>>
vars   == <<tables, tokens, local, welcomed>>

Role      == {"owner", "admin", "member"}
Account   == [email : Email, password : Password]

ASSUME AccountAssumption == None \notin Account

MemberRow == [team : Team, user : User, role : Role]
Token     == [user : User, role : Role, left : 1..AccessTTL]

RegisterCalls == {"users.Create", "mailer.Send", "reply"}
LoginCalls    == {"users.GetByEmail", "members.GetHighestRole", "token.SignedString", "reply"}
GuardedCalls  == {"rbac", "members.GetRole", "members.IsMember", "admitted", "forbidden"}

Request == [op : {"none", "Register", "Login", "Invite", "CreateTask"},
            email : Email \cup {None}, password : Password \cup {None},
            user : User \cup {None}, role : Role \cup {None}, team : Team \cup {None}]
NoReq   == [op |-> "none", email |-> None, password |-> None,
            user |-> None, role |-> None, team |-> None]

TypeOK ==
    /\ users \in [User -> Account \cup {None}]
    /\ members \subseteq MemberRow
    /\ tokens \subseteq Token
    /\ pc \in [Slot -> {"idle"} \cup RegisterCalls \cup LoginCalls \cup GuardedCalls]
    /\ req \in [Slot -> Request]
    /\ led \in [Slot -> BOOLEAN] /\ welcomed \in [Email -> Nat]

-----------------------------------------------------------------------------
Registered(e)        == \E u \in User : users[u] # None /\ users[u].email = e
IsMember(t, u)       == \E m \in members : m.team = t /\ m.user = u
HasRole(t, u, roles) == \E m \in members : m.team = t /\ m.user = u /\ m.role \in roles
RolesOf(u)           == {m.role : m \in {m \in members : m.user = u}}

Manager == {"owner", "admin"}

\* The account of a mailbox owns or administers some team.
Leads(e) == \E u \in User : users[u] # None /\ users[u].email = e /\ RolesOf(u) \cap Manager # {}

\* Variant: ORDER BY role LIMIT 1, by the alphabet.
FirstRole(u) ==
    IF "admin" \in RolesOf(u) THEN "admin"
    ELSE IF RolesOf(u) = {"owner"} THEN "owner" ELSE "member"

\* ORDER BY FIELD(role, 'owner', 'admin', 'member') LIMIT 1, and defaultRole for
\* somebody who is in no team.
HighestRole(u) ==
    IF "owner" \in RolesOf(u) THEN "owner"
    ELSE IF "admin" \in RolesOf(u) THEN "admin" ELSE "member"

\* The roles the router lets through.
Allowed(op) == IF op = "Invite" THEN Manager ELSE Role

-----------------------------------------------------------------------------
At(s, op, call) == req[s].op = op /\ pc[s] = call
Goto(s, call)   == pc' = [pc EXCEPT ![s] = call] /\ UNCHANGED <<req, led>>

\* Every return and every abort.
Finish(s) ==
    /\ pc' = [pc EXCEPT ![s] = "idle"]
    /\ req' = [req EXCEPT ![s] = NoReq]
    /\ led' = [led EXCEPT ![s] = FALSE]

Check(s, ok, call) ==
    /\ \/ ok /\ Goto(s, call)
       \/ ~ok /\ Finish(s)
    /\ UNCHANGED <<tables, tokens, welcomed>>

-----------------------------------------------------------------------------
(* Register                                                                 *)

CallRegister(s, e, p) ==
    /\ pc[s] = "idle"
    /\ pc' = [pc EXCEPT ![s] = "users.Create"]
    /\ req' = [req EXCEPT ![s] = [NoReq EXCEPT !.op = "Register", !.email = e, !.password = p]]
    /\ UNCHANGED <<tables, tokens, led, welcomed>>

\* INSERT INTO users under a new id.
InsertUser(s) ==
    /\ \E u \in User :
          /\ users[u] = None
          /\ users' = [users EXCEPT ![u] =
                         [email |-> req[s].email, password |-> req[s].password]]
    /\ UNCHANGED <<members, tokens, welcomed>>

\* Variant: the table without uq_users_email.
UsersCreateAnyway(s) ==
    /\ At(s, "Register", "users.Create")
    /\ InsertUser(s) /\ Goto(s, "mailer.Send")

\* The email must be free.  The row stays when its answer is lost.
UsersCreate(s) ==
    /\ At(s, "Register", "users.Create")
    /\ \/ /\ ~Registered(req[s].email)
          /\ InsertUser(s)
          /\ Goto(s, "mailer.Send") \/ Finish(s)
       \/ Registered(req[s].email) /\ Finish(s) /\ UNCHANGED <<tables, tokens, welcomed>>

\* The welcome mail is sent or not; when it is not, or the breaker refuses, the
\* answer is an error and the account stays.
MailerSend(s) ==
    /\ At(s, "Register", "mailer.Send")
    /\ Goto(s, "reply") \/ Finish(s)
    /\ UNCHANGED <<tables, tokens, welcomed>>

-----------------------------------------------------------------------------
(* Login                                                                    *)

CallLogin(s, e, p) ==
    /\ pc[s] = "idle"
    /\ pc' = [pc EXCEPT ![s] = "users.GetByEmail"]
    /\ req' = [req EXCEPT ![s] = [NoReq EXCEPT !.op = "Login", !.email = e, !.password = p]]
    /\ led' = [led EXCEPT ![s] = Leads(e)]
    /\ UNCHANGED <<tables, tokens, welcomed>>

\* The account, if the password is its password.
GetByEmail(s) ==
    LET mine(u) == users[u] = [email |-> req[s].email, password |-> req[s].password]
    IN  /\ At(s, "Login", "users.GetByEmail")
        /\ \/ \E u \in User :
                 /\ mine(u)
                 /\ pc' = [pc EXCEPT ![s] = "members.GetHighestRole"]
                 /\ req' = [req EXCEPT ![s].user = u]
                 /\ UNCHANGED led
           \/ (\A u \in User : ~mine(u)) /\ Finish(s)
        /\ UNCHANGED <<tables, tokens, welcomed>>

\* Variant: the query does not name the user.
GetHighestRoleOfAll(s) ==
    /\ At(s, "Login", "members.GetHighestRole")
    /\ pc' = [pc EXCEPT ![s] = "token.SignedString"]
    /\ \E u \in User : req' = [req EXCEPT ![s].role = HighestRole(u)]
    /\ UNCHANGED <<tables, tokens, led, welcomed>>

GetHighestRole(s) ==
    /\ At(s, "Login", "members.GetHighestRole")
    /\ pc' = [pc EXCEPT ![s] = "token.SignedString"]
    /\ req' = [req EXCEPT ![s].role = HighestRole(req[s].user)]
    /\ UNCHANGED <<tables, tokens, led, welcomed>>

\* The token is the client's from here on.
SignToken(s) ==
    /\ At(s, "Login", "token.SignedString")
    /\ tokens' = tokens \cup {[user |-> req[s].user, role |-> req[s].role, left |-> AccessTTL]}
    /\ Goto(s, "reply")
    /\ UNCHANGED <<tables, welcomed>>

-----------------------------------------------------------------------------
(* The operations behind JWT and RBAC, up to where Teams and Tasks take over. *)

\* JWT: a token that is forged or has expired gets no further than this.
CallGuarded(s, op, token, t) ==
    /\ pc[s] = "idle"
    /\ pc' = [pc EXCEPT ![s] = "rbac"]
    /\ req' = [req EXCEPT ![s] = [NoReq EXCEPT !.op = op, !.user = token.user,
                                               !.role = token.role, !.team = t]]
    /\ UNCHANGED <<tables, tokens, led, welcomed>>

Rbac(s) ==
    /\ pc[s] = "rbac"
    /\ Goto(s, IF req[s].role \notin Allowed(req[s].op) THEN "forbidden"
               ELSE IF req[s].op = "Invite" THEN "members.GetRole" ELSE "members.IsMember")
    /\ UNCHANGED <<tables, tokens, welcomed>>

\* teams.Invite: owner or admin of this team?
GetRole(s) ==
    /\ pc[s] = "members.GetRole"
    /\ Check(s, HasRole(req[s].team, req[s].user, Manager), "admitted")

\* tasks.Create: a member of this team?
CallerIsMember(s) ==
    /\ pc[s] = "members.IsMember"
    /\ Check(s, IsMember(req[s].team, req[s].user), "admitted")

-----------------------------------------------------------------------------
Reply(s) ==
    /\ pc[s] \in {"reply", "admitted", "forbidden"}
    /\ Finish(s)
    /\ welcomed' = IF At(s, "Register", "reply")
                   THEN [welcomed EXCEPT ![req[s].email] = @ + 1] ELSE welcomed
    /\ UNCHANGED <<tables, tokens>>

\* Variant: the error of users.Create is dropped.
DatabaseFailsUnnoticed(s) ==
    /\ At(s, "Register", "users.Create")
    /\ Goto(s, "mailer.Send")
    /\ UNCHANGED <<tables, tokens, welcomed>>

\* A statement fails, or the client disconnected and its context is cancelled.
DatabaseFails(s) ==
    /\ pc[s] \in {"users.Create", "users.GetByEmail", "members.GetHighestRole",
                  "members.GetRole", "members.IsMember"}
    /\ Finish(s)
    /\ UNCHANGED <<tables, tokens, welcomed>>

\* The process dies.  Tokens are the clients' and survive.
Crash ==
    /\ pc' = [s \in Slot |-> "idle"]
    /\ req' = [s \in Slot |-> NoReq]
    /\ led' = [s \in Slot |-> FALSE]
    /\ UNCHANGED <<tables, tokens, welcomed>>

Tick ==
    /\ tokens # {}
    /\ tokens' = {[k EXCEPT !.left = @ - 1] : k \in {k \in tokens : k.left > 1}}
    /\ UNCHANGED <<tables, local, welcomed>>

\* CreateTeam and AcceptInvite, as Teams commits them; the caller's token may
\* have expired since the request arrived.
Found(t, u) ==
    /\ users[u] # None
    /\ \A m \in members : m.team # t
    /\ members' = members \cup {[team |-> t, user |-> u, role |-> "owner"]}
    /\ UNCHANGED <<users, tokens, local, welcomed>>

Join(t, u) ==
    /\ users[u] # None
    /\ \E m \in members : m.team = t
    /\ ~IsMember(t, u)
    /\ members' = members \cup {[team |-> t, user |-> u, role |-> "member"]}
    /\ UNCHANGED <<users, tokens, local, welcomed>>

-----------------------------------------------------------------------------
Init ==
    /\ users = [u \in User |-> None] /\ members = {} /\ tokens = {}
    /\ pc = [s \in Slot |-> "idle"]
    /\ req = [s \in Slot |-> NoReq]
    /\ led = [s \in Slot |-> FALSE] /\ welcomed = [e \in Email |-> 0]

Call(s) ==
    \/ \E e \in Email, p \in Password : CallRegister(s, e, p) \/ CallLogin(s, e, p)
    \/ \E k \in tokens, t \in Team, op \in {"Invite", "CreateTask"} : CallGuarded(s, op, k, t)

Step(s) ==
    \/ UsersCreate(s) \/ MailerSend(s)
    \/ GetByEmail(s) \/ GetHighestRole(s) \/ SignToken(s)
    \/ Rbac(s) \/ GetRole(s) \/ CallerIsMember(s)
    \/ Reply(s) \/ DatabaseFails(s)

Next ==
    \/ \E s \in Slot : Call(s) \/ Step(s)
    \/ \E t \in Team, u \in User : Found(t, u) \/ Join(t, u)
    \/ Crash \/ Tick

Spec == Init /\ [][Next]_vars

-----------------------------------------------------------------------------
(* Properties.                                                              *)

\* However many registrations of a mailbox race, one account comes of them and
\* at most one of them is answered 201 (and the state stays well typed).
OneAccountPerMailbox ==
    /\ TypeOK
    /\ \A u, v \in User : users[u] # None /\ users[v] # None /\ users[u].email = users[v].email
          => u = v
    /\ \A e \in Email : welcomed[e] <= 1

\* A registration about to be answered 201 can log in with its password: the
\* answer neither precedes the account nor belongs to a racing registration.
RegisteredCanLogin ==
    \A s \in Slot : At(s, "Register", "reply") =>
        \E u \in User : users[u] = [email |-> req[s].email, password |-> req[s].password]

\* A token never says more than its user is: whoever a token calls owner or
\* admin is that in some team, however long ago it was signed.
TokensDoNotOverstate ==
    \A k \in tokens : k.role # "member" => k.role \in RolesOf(k.user)

\* A token catches up when its user logs in again: a login that reaches the
\* service after its account came to manage a team gets a role that opens the
\* managers' route, whatever other teams the account has joined besides and
\* whichever requests run along with it.
LoginCatchesUp ==
    \A s \in Slot : led[s] /\ pc[s] \in {"token.SignedString", "reply"} => req[s].role \in Manager

\* An owner or admin of a team is not forbidden to invite into it.
ManagersMayInvite ==
    \A s \in Slot : At(s, "Invite", "forbidden") =>
        ~HasRole(req[s].team, req[s].user, Manager)
=============================================================================
