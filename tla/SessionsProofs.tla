--------------------------- MODULE SessionsProofs ---------------------------
(***************************************************************************)
(* Theorems about Sessions, for every set of users, mailboxes, passwords,  *)
(* teams and concurrent requests, and every life of a token.               *)
(***************************************************************************)
EXTENDS Sessions, TLAPS

Label == {"idle"} \cup RegisterCalls \cup LoginCalls \cup GuardedCalls

-----------------------------------------------------------------------------
(* The inductive invariant.                                                 *)

\* A handler makes the calls of its operation, with the arguments it has.
Arguments(s) ==
    \/ req[s].op = "none" /\ pc[s] = "idle"
    \/ /\ req[s].op = "Register" /\ pc[s] \in RegisterCalls
       /\ req[s].email \in Email /\ req[s].password \in Password
    \/ /\ req[s].op = "Login" /\ pc[s] \in LoginCalls
       /\ req[s].email \in Email /\ req[s].password \in Password
       /\ pc[s] # "users.GetByEmail" => req[s].user \in User
       /\ pc[s] \in {"token.SignedString", "reply"} => req[s].role \in Role
    \/ /\ req[s].op = "Invite" /\ pc[s] \in GuardedCalls \ {"members.IsMember"}
       /\ req[s].user \in User /\ req[s].team \in Team /\ req[s].role \in Role
    \/ /\ req[s].op = "CreateTask" /\ pc[s] \in GuardedCalls \ {"members.GetRole"}
       /\ req[s].user \in User /\ req[s].team \in Team /\ req[s].role \in Role

Serving == \A s \in Slot : Arguments(s)

\* A registration that has stored its account and not answered yet.
Welcoming(s) == req[s].op = "Register" /\ pc[s] \in {"mailer.Send", "reply"}

\* The account of a registration past its INSERT is the one it was asked for,
\* and no other request is or was answered for that mailbox.
Welcome ==
    \A s \in Slot : Welcoming(s) =>
        /\ \E u \in User : users[u] = [email |-> req[s].email, password |-> req[s].password]
        /\ welcomed[req[s].email] = 0
        /\ \A o \in Slot \ {s} : Welcoming(o) => req[o].email # req[s].email

\* A mailbox that was welcomed has its account, and was welcomed once.
WelcomedOnce ==
    \A e \in Email : welcomed[e] = 0 \/ (welcomed[e] = 1 /\ Registered(e))

UniqueMailboxes ==
    \A u, v \in User :
        users[u] # None /\ users[v] # None /\ users[u].email = users[v].email => u = v

\* A login about to sign a token has a role its user really has.
SignsTrueRoles ==
    \A s \in Slot : At(s, "Login", "token.SignedString") /\ req[s].role # "member" =>
        req[s].role \in RolesOf(req[s].user)

\* What a login whose account managed a team when it began has found so far.
Refreshed(call, r) ==
    /\ r.op = "Login"
    /\ call = "users.GetByEmail" => Leads(r.email)
    /\ call = "members.GetHighestRole" => RolesOf(r.user) \cap Manager # {}
    /\ call \in {"token.SignedString", "reply"} => r.role \in Manager

Refreshing == \A s \in Slot : led[s] => Refreshed(pc[s], req[s])

IInv ==
    /\ TypeOK /\ Serving
    /\ UniqueMailboxes /\ Welcome /\ WelcomedOnce
    /\ SignsTrueRoles /\ TokensDoNotOverstate /\ Refreshing

-----------------------------------------------------------------------------
(* A step of one handler that leaves the tables and the tokens alone.       *)

LEMMA RestTyped == NoReq \in Request
BY DEF NoReq, Request

\* Such a step keeps the invariant if the handler has its arguments, does not
\* become a registration that has stored its account, and has reason to sign
\* the role it signs.
LEMMA SlotStep ==
    ASSUME IInv, NEW s \in Slot, NEW call \in Label, NEW r \in Request, NEW b \in BOOLEAN,
           pc' = [pc EXCEPT ![s] = call], req' = [req EXCEPT ![s] = r],
           led' = [led EXCEPT ![s] = b],
           UNCHANGED <<tables, tokens, welcomed>>,
           Arguments(s)',
           r.op = "Register" /\ call \in {"mailer.Send", "reply"} =>
               Welcoming(s) /\ r.email = req[s].email /\ r.password = req[s].password,
           r.op = "Login" /\ call = "token.SignedString" /\ r.role # "member" =>
               r.role \in RolesOf(r.user),
           b => Refreshed(call, r)
    PROVE  IInv'
<1>1. TypeOK'
  BY DEF IInv, TypeOK, tables, Label
<1>2. /\ pc'[s] = call /\ req'[s] = r /\ led'[s] = b
      /\ \A o \in Slot \ {s} : pc'[o] = pc[o] /\ req'[o] = req[o] /\ led'[o] = led[o]
  BY DEF IInv, TypeOK
<1>3. Serving'
  BY <1>2 DEF IInv, Serving, Arguments
<1>4. UniqueMailboxes' /\ WelcomedOnce' /\ TokensDoNotOverstate'
  BY DEF IInv, UniqueMailboxes, WelcomedOnce, TokensDoNotOverstate, Registered, RolesOf, tables
<1>5. Welcome'
  <2>1. ASSUME NEW o \in Slot, Welcoming(o)'
        PROVE  Welcoming(o) /\ req'[o].email = req[o].email /\ req'[o].password = req[o].password
    BY <1>2, <2>1 DEF Welcoming
  <2> QED
    BY <2>1 DEF IInv, Welcome, tables
<1>6. SignsTrueRoles'
  BY <1>2 DEF IInv, SignsTrueRoles, At, RolesOf, tables
<1>7. Refreshing'
  BY <1>2 DEF IInv, Refreshing, Refreshed, Leads, RolesOf, tables
<1> QED
  BY <1>1, <1>3, <1>4, <1>5, <1>6, <1>7 DEF IInv

\* A handler returns.
LEMMA FinishKeeps ==
    ASSUME IInv, NEW s \in Slot, Finish(s), UNCHANGED <<tables, tokens, welcomed>>
    PROVE  IInv'
<1>1. Arguments(s)'
  BY DEF Finish, Arguments, NoReq, IInv, TypeOK
<1> QED
  BY <1>1, RestTyped, SlotStep DEF Finish, Label, NoReq

\* A handler goes on to another call of its operation.
LEMMA GotoKeeps ==
    ASSUME IInv, NEW s \in Slot, NEW call, Goto(s, call),
           UNCHANGED <<tables, tokens, welcomed>>,
           \/ req[s].op = "Register" /\ Welcoming(s) /\ call = "reply"
           \/ req[s].op = "Invite" /\ call \in GuardedCalls \ {"members.IsMember"}
           \/ req[s].op = "CreateTask" /\ call \in GuardedCalls \ {"members.GetRole"}
    PROVE  IInv'
<1>1. req[s] \in Request /\ call \in Label /\ req' = [req EXCEPT ![s] = req[s]]
  BY DEF IInv, TypeOK, Goto, Label, RegisterCalls
<1>2. pc' = [pc EXCEPT ![s] = call] /\ pc'[s] = call /\ req'[s] = req[s]
  BY DEF Goto, IInv, TypeOK
<1>3. Arguments(s)'
  BY <1>2 DEF IInv, Serving, Arguments, RegisterCalls
<1>4. led' = [led EXCEPT ![s] = FALSE]
  BY DEF Goto, IInv, TypeOK, Refreshing, Refreshed
<1> QED
  BY <1>1, <1>2, <1>3, <1>4, SlotStep DEF Welcoming

-----------------------------------------------------------------------------
(* Registration.                                                            *)

\* An INSERT under a new id keeps mailboxes unique and accounts in place.
LEMMA InsertKeeps ==
    ASSUME IInv, NEW s \in Slot, req[s].email \in Email, req[s].password \in Password,
           ~Registered(req[s].email), InsertUser(s)
    PROVE  /\ users' \in [User -> Account \cup {None}]
           /\ UniqueMailboxes'
           /\ \A u \in User : users[u] # None => users'[u] = users[u]
           /\ \E u \in User : users'[u] = [email |-> req[s].email, password |-> req[s].password]
           /\ \A e \in Email : Registered(e) => Registered(e)'
<1> DEFINE row == [email |-> req[s].email, password |-> req[s].password]
<1>1. PICK n \in User : users[n] = None /\ users' = [users EXCEPT ![n] = row]
  BY DEF InsertUser
<1>2. row \in Account /\ row # None
  BY AccountAssumption DEF Account
<1>3. users \in [User -> Account \cup {None}]
  BY DEF IInv, TypeOK
<1>4. UniqueMailboxes'
  <2> SUFFICES ASSUME NEW u \in User, NEW v \in User, users'[u] # None, users'[v] # None,
                      users'[u].email = users'[v].email
               PROVE  u = v
    BY DEF UniqueMailboxes
  <2>1. ASSUME NEW w \in User, w # n, users[w] # None
        PROVE  users[w].email # row.email
    BY <2>1 DEF Registered
  <2> QED
    BY <1>1, <1>3, <2>1 DEF IInv, UniqueMailboxes
<1> HIDE DEF row
<1> QED
  BY <1>1, <1>2, <1>3, <1>4 DEF Registered, row

\* An account, once stored, stays; and no registration was answered for the
\* mailbox of a new one.
LEMMA UsersCreateKeeps ==
    ASSUME IInv, NEW s \in Slot, UsersCreate(s)
    PROVE  IInv'
<1>1. /\ req[s].op = "Register" /\ pc[s] = "users.Create"
      /\ req[s].email \in Email /\ req[s].password \in Password
  BY DEF UsersCreate, At, IInv, Serving, Arguments
<1>2. CASE Registered(req[s].email)
  BY <1>2, FinishKeeps DEF UsersCreate
<1>3. CASE ~Registered(req[s].email)
  <2>1. InsertUser(s) /\ (Goto(s, "mailer.Send") \/ Finish(s))
    BY <1>3 DEF UsersCreate
  <2>2. UNCHANGED <<members, tokens, welcomed>>
    BY <2>1 DEF InsertUser
  <2>3. /\ \A o \in Slot \ {s} : pc'[o] = pc[o] /\ req'[o] = req[o]
        /\ \/ pc'[s] = "mailer.Send" /\ req'[s] = req[s]
           \/ pc'[s] = "idle" /\ req'[s] = NoReq
    BY <2>1 DEF Goto, Finish, IInv, TypeOK
  <2>4. TypeOK'
    BY <1>1, <1>3, <2>1, <2>2, InsertKeeps, RestTyped
       DEF Goto, Finish, IInv, TypeOK, RegisterCalls
  <2>5. Serving'
    BY <1>1, <2>3 DEF IInv, Serving, Arguments, RegisterCalls, NoReq
  <2>6. Welcome'
    <3> SUFFICES ASSUME NEW o \in Slot, Welcoming(o)'
                 PROVE  /\ \E u \in User : users'[u] = [email |-> req'[o].email,
                                                       password |-> req'[o].password]
                        /\ welcomed'[req'[o].email] = 0
                        /\ \A q \in Slot \ {o} : Welcoming(q)' => req'[q].email # req'[o].email
      BY DEF Welcome
    <3>1. ASSUME NEW q \in Slot, q # s, Welcoming(q)'
          PROVE  /\ Welcoming(q) /\ req'[q] = req[q]
                 /\ Registered(req[q].email) /\ req[q].email # req[s].email
                 /\ \E u \in User : users'[u] = [email |-> req[q].email,
                                                password |-> req[q].password]
      <4>1. Welcoming(q) /\ req'[q] = req[q]
        BY <2>3, <3>1 DEF Welcoming
      <4>2. PICK u \in User : users[u] = [email |-> req[q].email, password |-> req[q].password]
        BY <4>1 DEF IInv, Welcome
      <4>3. users[u] # None /\ users[u].email = req[q].email
        <5>1. req[q].email \in Email /\ req[q].password \in Password
          BY <4>1 DEF IInv, Serving, Arguments, Welcoming
        <5> QED
          BY <4>2, <5>1, AccountAssumption DEF Account
      <4> QED
        BY <1>1, <1>3, <2>1, <4>1, <4>2, <4>3, InsertKeeps DEF Registered
    <3>2. CASE o = s
      <4>1. req'[s] = req[s]
        BY <2>3, <3>2 DEF Welcoming
      <4>2. welcomed[req[s].email] = 0
        BY <1>1, <1>3 DEF IInv, WelcomedOnce
      <4> QED
        BY <1>1, <1>3, <2>1, <2>2, <3>1, <3>2, <4>1, <4>2, InsertKeeps
    <3>3. CASE o # s
      <4>1. welcomed[req[o].email] = 0
        BY <3>1, <3>3 DEF IInv, Welcome
      <4>2. ASSUME NEW q \in Slot \ {o}, Welcoming(q)'
            PROVE  req'[q].email # req'[o].email
        <5>1. CASE q = s
          <6>1. req'[s] = req[s]
            BY <2>3, <4>2, <5>1 DEF Welcoming
          <6> QED
            BY <3>1, <3>3, <5>1, <6>1
        <5>2. CASE q # s
          BY <3>1, <3>3, <4>2, <5>2 DEF IInv, Welcome
        <5> QED
          BY <5>1, <5>2
      <4> QED
        BY <2>2, <3>1, <3>3, <4>1, <4>2
    <3> QED
      BY <3>2, <3>3
  <2>7. WelcomedOnce'
    BY <1>1, <1>3, <2>1, <2>2, InsertKeeps DEF IInv, WelcomedOnce
  <2>8. SignsTrueRoles' /\ TokensDoNotOverstate'
    BY <2>2, <2>3 DEF IInv, SignsTrueRoles, TokensDoNotOverstate, At, RolesOf, NoReq
  <2>9. Refreshing'
    <3> SUFFICES ASSUME NEW o \in Slot, led'[o]
                 PROVE  Refreshed(pc[o], req[o])'
      BY DEF Refreshing
    <3>1. o # s /\ led[o]
      BY <1>1, <2>1 DEF Goto, Finish, IInv, TypeOK, Refreshing, Refreshed
    <3>2. pc'[o] = pc[o] /\ req'[o] = req[o] /\ Refreshed(pc[o], req[o])
      BY <2>3, <3>1 DEF IInv, Refreshing
    <3>3. ASSUME NEW e, Leads(e) PROVE Leads(e)'
      BY <1>1, <1>3, <2>1, <2>2, <3>3, InsertKeeps DEF Leads, RolesOf
    <3>4. RolesOf(req[o].user)' = RolesOf(req[o].user)
      BY <2>2, <3>2 DEF RolesOf
    <3>5. pc[o] = "users.GetByEmail" => Leads(req[o].email)'
      BY <3>2, <3>3 DEF Refreshed
    <3> QED
      BY <3>2, <3>4, <3>5 DEF Refreshed
  <2> QED
    BY <1>1, <1>3, <2>1, <2>4, <2>5, <2>6, <2>7, <2>8, <2>9, InsertKeeps DEF IInv
<1> QED
  BY <1>2, <1>3

\* The answer of a registration is its mailbox's first.
LEMMA ReplyKeeps ==
    ASSUME IInv, NEW s \in Slot, Reply(s)
    PROVE  IInv'
<1>1. CASE ~At(s, "Register", "reply")
  BY <1>1, FinishKeeps DEF Reply
<1>2. CASE At(s, "Register", "reply")
  <2> DEFINE e == req[s].email
  <2>1. /\ Finish(s) /\ UNCHANGED <<tables, tokens>>
        /\ welcomed' = [welcomed EXCEPT ![e] = @ + 1]
        /\ Welcoming(s) /\ e \in Email /\ welcomed[e] = 0
    BY <1>2 DEF Reply, At, Welcoming, IInv, Welcome, Serving, Arguments
  <2>2. /\ pc'[s] = "idle" /\ req'[s] = NoReq /\ led'[s] = FALSE
        /\ \A o \in Slot \ {s} : pc'[o] = pc[o] /\ req'[o] = req[o] /\ led'[o] = led[o]
    BY <2>1 DEF Finish, IInv, TypeOK
  <2>3. TypeOK'
    BY <2>1, RestTyped DEF Finish, IInv, TypeOK, tables
  <2>4. Serving'
    BY <2>2 DEF IInv, Serving, Arguments, NoReq
  <2>5. welcomed'[e] = 1 /\ \A f \in Email \ {e} : welcomed'[f] = welcomed[f]
    BY <2>1 DEF IInv, TypeOK
  <2>6. Welcome'
    <3> SUFFICES ASSUME NEW o \in Slot, Welcoming(o)'
                 PROVE  /\ Welcoming(o) /\ o # s /\ req'[o] = req[o]
                        /\ req[o].email \in Email \ {e}
      BY <2>1, <2>5 DEF Welcome, IInv, tables
    <3>1. o # s /\ Welcoming(o) /\ req'[o] = req[o]
      BY <2>2 DEF Welcoming, NoReq
    <3> QED
      BY <2>1, <3>1 DEF IInv, Welcome, Welcoming, Serving, Arguments
  <2>7. WelcomedOnce'
    <3>1. Registered(e)
      <4>1. PICK u \in User : users[u] = [email |-> e, password |-> req[s].password]
        BY <2>1 DEF IInv, Welcome
      <4>2. req[s].password \in Password
        BY <2>1 DEF IInv, Serving, Arguments, Welcoming
      <4> QED
        BY <2>1, <4>1, <4>2, AccountAssumption DEF Registered, Account
    <3> QED
      BY <2>1, <2>5, <3>1 DEF IInv, WelcomedOnce, Registered, tables
  <2>8. /\ UniqueMailboxes' /\ SignsTrueRoles' /\ TokensDoNotOverstate' /\ Refreshing'
    BY <2>1, <2>2 DEF IInv, UniqueMailboxes, SignsTrueRoles, TokensDoNotOverstate,
                      Refreshing, Refreshed, Leads, At, RolesOf, NoReq, tables
  <2> QED
    BY <2>3, <2>4, <2>6, <2>7, <2>8 DEF IInv
<1> QED
  BY <1>1, <1>2

-----------------------------------------------------------------------------
(* Login, time and the teams.                                               *)

\* Whoever is called owner or admin is that in some team.
LEMMA HighestRoleIsHeld ==
    ASSUME NEW u
    PROVE  /\ HighestRole(u) \in Role
           /\ HighestRole(u) # "member" => HighestRole(u) \in RolesOf(u)
           /\ RolesOf(u) \cap Manager # {} => HighestRole(u) \in Manager
BY DEF HighestRole, Role, Manager

LEMMA GetByEmailKeeps ==
    ASSUME IInv, NEW s \in Slot, GetByEmail(s)
    PROVE  IInv'
<1> DEFINE account == [email |-> req[s].email, password |-> req[s].password]
<1>1. CASE \A u \in User : users[u] # account
  BY <1>1, FinishKeeps DEF GetByEmail
<1>2. CASE \E u \in User : /\ users[u] = account
                          /\ pc' = [pc EXCEPT ![s] = "members.GetHighestRole"]
                          /\ req' = [req EXCEPT ![s].user = u]
                          /\ UNCHANGED led
  <2>1. PICK u \in User : /\ users[u] = account
                          /\ pc' = [pc EXCEPT ![s] = "members.GetHighestRole"]
                          /\ req' = [req EXCEPT ![s].user = u]
                          /\ UNCHANGED led
    BY <1>2
  <2> DEFINE r == [req[s] EXCEPT !.user = u]
  <2>2. /\ req[s].op = "Login" /\ req[s].email \in Email /\ req[s].password \in Password
        /\ req[s] \in Request
    BY DEF GetByEmail, At, IInv, Serving, Arguments, TypeOK
  <2>3. r \in Request /\ r.op = "Login" /\ r.user = u /\ r.email \in Email /\ r.password \in Password
    BY <2>2 DEF Request
  <2>4. req' = [req EXCEPT ![s] = r] /\ req'[s] = r /\ pc'[s] = "members.GetHighestRole"
    BY <2>1, <2>3 DEF IInv, TypeOK
  <2> HIDE DEF r
  <2>5. Arguments(s)'
    BY <2>3, <2>4 DEF Arguments, LoginCalls
  <2>6. UNCHANGED <<tables, tokens, welcomed>>
    BY DEF GetByEmail
  <2>7. led' = [led EXCEPT ![s] = led[s]] /\ led[s] \in BOOLEAN
    BY <2>1 DEF IInv, TypeOK
  <2>8. ASSUME led[s] PROVE Refreshed("members.GetHighestRole", r)
    <3>1. Leads(req[s].email)
      BY <2>8 DEF GetByEmail, At, IInv, Refreshing, Refreshed
    <3>2. users[u] # None /\ users[u].email = req[s].email
      BY <2>1, <2>2, AccountAssumption DEF Account
    <3>3. RolesOf(u) \cap Manager # {}
      BY <3>1, <3>2 DEF Leads, IInv, UniqueMailboxes
    <3> QED
      BY <2>3, <3>3 DEF Refreshed
  <2>9. "members.GetHighestRole" \in Label
    BY DEF Label, LoginCalls
  <2>10. /\ pc' = [pc EXCEPT ![s] = "members.GetHighestRole"]
         /\ ~(r.op = "Register")
    BY <2>1, <2>3
  <2> HIDE DEF account
  <2> QED
    BY <2>3, <2>4, <2>5, <2>6, <2>7, <2>8, <2>9, <2>10, SlotStep
<1> QED
  BY <1>1, <1>2 DEF GetByEmail

LEMMA GetHighestRoleKeeps ==
    ASSUME IInv, NEW s \in Slot, GetHighestRole(s)
    PROVE  IInv'
<1> DEFINE u == req[s].user
           r == [req[s] EXCEPT !.role = HighestRole(u)]
<1>1. /\ req[s].op = "Login" /\ req[s].email \in Email /\ req[s].password \in Password
      /\ u \in User /\ req[s] \in Request
  BY DEF GetHighestRole, At, IInv, Serving, Arguments, TypeOK
<1>2. /\ r \in Request /\ r.op = "Login" /\ r.user = u /\ r.role = HighestRole(u)
      /\ r.email \in Email /\ r.password \in Password
  BY <1>1, HighestRoleIsHeld DEF Request
<1>3. /\ req' = [req EXCEPT ![s] = r] /\ req'[s] = r
      /\ pc' = [pc EXCEPT ![s] = "token.SignedString"] /\ pc'[s] = "token.SignedString"
  BY <1>2 DEF GetHighestRole, IInv, TypeOK
<1>4. UNCHANGED <<tables, tokens, welcomed>>
  BY DEF GetHighestRole
<1> HIDE DEF r
<1>5. Arguments(s)'
  BY <1>1, <1>2, <1>3, HighestRoleIsHeld DEF Arguments, LoginCalls
<1>6. led' = [led EXCEPT ![s] = led[s]] /\ led[s] \in BOOLEAN
  BY DEF GetHighestRole, IInv, TypeOK
<1>7. ASSUME led[s] PROVE Refreshed("token.SignedString", r)
  BY <1>2, <1>7, HighestRoleIsHeld DEF GetHighestRole, At, IInv, Refreshing, Refreshed
<1>8. "token.SignedString" \in Label
  BY DEF Label, LoginCalls
<1>9. r.role # "member" => r.role \in RolesOf(r.user)
  BY <1>2, HighestRoleIsHeld
<1> QED
  BY <1>1, <1>2, <1>3, <1>4, <1>5, <1>6, <1>7, <1>8, <1>9, SlotStep

\* A token is signed for a role its user has.
LEMMA SignTokenKeeps ==
    ASSUME IInv, NEW s \in Slot, SignToken(s)
    PROVE  IInv'
<1> DEFINE token == [user |-> req[s].user, role |-> req[s].role, left |-> AccessTTL]
<1>1. /\ At(s, "Login", "token.SignedString") /\ Goto(s, "reply")
      /\ tokens' = tokens \cup {token} /\ UNCHANGED <<users, members, welcomed>>
  BY DEF SignToken, tables
<1>2. /\ pc'[s] = "reply" /\ req' = req /\ led' = led
      /\ \A o \in Slot \ {s} : pc'[o] = pc[o]
  BY <1>1 DEF Goto, IInv, TypeOK
<1>3. /\ req[s].user \in User /\ req[s].role \in Role
      /\ req[s].role # "member" => req[s].role \in RolesOf(req[s].user)
  BY <1>1 DEF At, IInv, Serving, Arguments, SignsTrueRoles
<1>4. token \in Token
  BY <1>3, SessionsAssumption DEF Token
<1>5. TypeOK'
  BY <1>1, <1>4 DEF Goto, IInv, TypeOK, LoginCalls
<1>6. Serving'
  BY <1>1, <1>2, <1>3 DEF IInv, Serving, Arguments, At, LoginCalls
<1>7. Welcome'
  BY <1>1, <1>2 DEF IInv, Welcome, Welcoming, At
<1>8. UniqueMailboxes' /\ WelcomedOnce'
  BY <1>1 DEF IInv, UniqueMailboxes, WelcomedOnce, Registered
<1>9. TokensDoNotOverstate'
  BY <1>1, <1>3 DEF IInv, TokensDoNotOverstate, RolesOf
<1>10. SignsTrueRoles' /\ Refreshing'
  BY <1>1, <1>2 DEF IInv, SignsTrueRoles, Refreshing, Refreshed, Leads, At, RolesOf
<1> QED
  BY <1>5, <1>6, <1>7, <1>8, <1>9, <1>10 DEF IInv

\* A slot without a handler has no mark of a login.
LEMMA IdleUnmarked ==
    ASSUME IInv, NEW s \in Slot, pc[s] = "idle"
    PROVE  led[s] = FALSE
BY DEF IInv, TypeOK, Serving, Arguments, LoginCalls, Refreshing, Refreshed

\* A request that comes with a token has the token's user and role.
LEMMA CallGuardedKeeps ==
    ASSUME IInv, NEW s \in Slot, NEW op \in {"Invite", "CreateTask"}, NEW k \in tokens,
           NEW t \in Team, CallGuarded(s, op, k, t)
    PROVE  IInv'
<1> DEFINE r == [NoReq EXCEPT !.op = op, !.user = k.user, !.role = k.role, !.team = t]
<1>1. k.user \in User /\ k.role \in Role
  BY DEF IInv, TypeOK, Token
<1>2. r \in Request /\ r.op = op /\ r.user \in User /\ r.role \in Role /\ r.team \in Team
  BY <1>1 DEF Request, NoReq
<1>3. /\ req' = [req EXCEPT ![s] = r] /\ req'[s] = r
      /\ pc' = [pc EXCEPT ![s] = "rbac"] /\ pc'[s] = "rbac"
      /\ UNCHANGED <<tables, tokens, led, welcomed>>
  BY DEF CallGuarded, IInv, TypeOK
<1> HIDE DEF r
<1>4. Arguments(s)'
  BY <1>2, <1>3 DEF Arguments, GuardedCalls
<1>5. ~led[s]
  BY IdleUnmarked DEF CallGuarded
<1>6. led' = [led EXCEPT ![s] = FALSE]
  BY <1>3, <1>5 DEF IInv, TypeOK
<1> QED
  BY <1>2, <1>3, <1>4, <1>6, SlotStep DEF Label, GuardedCalls

\* The requests without a token.
LEMMA CallKeeps ==
    ASSUME IInv, NEW s \in Slot, NEW e \in Email, NEW p \in Password,
           CallRegister(s, e, p) \/ CallLogin(s, e, p)
    PROVE  IInv'
<1> PICK op \in {"Register", "Login"}, call \in {"users.Create", "users.GetByEmail"}, b \in BOOLEAN :
        /\ op = "Register" <=> call = "users.Create"
        /\ pc' = [pc EXCEPT ![s] = call]
        /\ req' = [req EXCEPT ![s] = [NoReq EXCEPT !.op = op, !.email = e, !.password = p]]
        /\ led' = [led EXCEPT ![s] = b]
        /\ b => op = "Login" /\ Leads(e)
        /\ UNCHANGED <<tables, tokens, welcomed>>
  <2>1. CASE CallRegister(s, e, p)
    <3>1. led' = [led EXCEPT ![s] = FALSE]
      BY <2>1, IdleUnmarked DEF CallRegister, IInv, TypeOK
    <3> QED
      BY <2>1, <3>1 DEF CallRegister
  <2>2. CASE CallLogin(s, e, p)
    <3>1. PICK b \in BOOLEAN : b = Leads(e)
      BY DEF Leads
    <3>2. led' = [led EXCEPT ![s] = b] /\ (b => Leads(e))
      BY <2>2, <3>1 DEF CallLogin
    <3> QED
      BY <2>2, <3>2 DEF CallLogin
  <2> QED
    BY <2>1, <2>2
<1> DEFINE r == [NoReq EXCEPT !.op = op, !.email = e, !.password = p]
<1>1. r \in Request /\ r.op = op /\ r.email \in Email /\ r.password \in Password
  BY DEF Request, NoReq
<1>2. req' = [req EXCEPT ![s] = r] /\ req'[s] = r /\ pc'[s] = call
  BY DEF IInv, TypeOK
<1> HIDE DEF r
<1>3. Arguments(s)'
  BY <1>1, <1>2 DEF Arguments, RegisterCalls, LoginCalls
<1>4. r.email = e
  BY DEF r, NoReq
<1>5. b => Refreshed(call, r)
  BY <1>1, <1>4 DEF Refreshed
<1>6. call \in Label
  BY DEF Label, RegisterCalls, LoginCalls
<1> QED
  BY <1>1, <1>2, <1>3, <1>5, <1>6, SlotStep

\* Nobody loses a role: what a token or a handler says of its user stays true
\* when teams are founded and joined.
LEMMA RolesGrow ==
    ASSUME IInv, members \subseteq members', members' \subseteq MemberRow,
           UNCHANGED <<users, tokens, local, welcomed>>
    PROVE  IInv'
<1>1. TypeOK' /\ Serving'
  BY DEF IInv, TypeOK, Serving, Arguments, local
<1>2. UniqueMailboxes' /\ Welcome' /\ WelcomedOnce'
  BY DEF IInv, UniqueMailboxes, Welcome, Welcoming, WelcomedOnce, Registered, local
<1>3. ASSUME NEW u PROVE RolesOf(u) \subseteq RolesOf(u)'
  BY DEF RolesOf
<1>4. SignsTrueRoles' /\ TokensDoNotOverstate'
  BY <1>3 DEF IInv, SignsTrueRoles, TokensDoNotOverstate, At, local
<1>5. Refreshing'
  <2>1. ASSUME NEW e, Leads(e) PROVE Leads(e)'
    BY <1>3, <2>1 DEF Leads
  <2> QED
    BY <1>3, <2>1 DEF IInv, Refreshing, Refreshed, local
<1> QED
  BY <1>1, <1>2, <1>4, <1>5 DEF IInv

LEMMA TickKeeps ==
    ASSUME IInv, Tick
    PROVE  IInv'
<1>1. tokens' = {[k EXCEPT !.left = @ - 1] : k \in {k \in tokens : k.left > 1}}
  BY DEF Tick
<1>2. ASSUME NEW k \in tokens, k.left > 1
      PROVE  /\ [k EXCEPT !.left = @ - 1] \in Token
             /\ [k EXCEPT !.left = @ - 1].user = k.user
             /\ [k EXCEPT !.left = @ - 1].role = k.role
  <2>1. k \in Token
    BY DEF IInv, TypeOK
  <2>2. k.left - 1 \in 1..AccessTTL
    BY <1>2, <2>1, SessionsAssumption DEF Token
  <2> QED
    BY <2>1, <2>2 DEF Token
<1>3. tokens' \subseteq Token
  BY <1>1, <1>2
<1>4. UNCHANGED <<users, members, pc, req, led, welcomed>>
  BY DEF Tick, tables, local
<1>5. TypeOK' /\ Serving'
  BY <1>3, <1>4 DEF IInv, TypeOK, Serving, Arguments
<1>6. UniqueMailboxes' /\ Welcome' /\ WelcomedOnce'
  BY <1>4 DEF IInv, UniqueMailboxes, Welcome, Welcoming, WelcomedOnce, Registered
<1>7. TokensDoNotOverstate'
  <2> SUFFICES ASSUME NEW q \in tokens', q.role # "member"
               PROVE  q.role \in RolesOf(q.user)'
    BY DEF TokensDoNotOverstate
  <2>1. PICK k \in tokens : k.left > 1 /\ q = [k EXCEPT !.left = @ - 1]
    BY <1>1
  <2>2. q.user = k.user /\ q.role = k.role
    BY <1>2, <2>1
  <2> QED
    BY <1>4, <2>2 DEF IInv, TokensDoNotOverstate, RolesOf
<1>8. SignsTrueRoles' /\ Refreshing'
  BY <1>4 DEF IInv, SignsTrueRoles, Refreshing, Refreshed, Leads, At, RolesOf
<1> QED
  BY <1>5, <1>6, <1>7, <1>8 DEF IInv

LEMMA CrashKeeps ==
    ASSUME IInv, Crash
    PROVE  IInv'
<1>1. TypeOK'
  BY RestTyped DEF Crash, IInv, TypeOK, tables
<1>2. UniqueMailboxes' /\ WelcomedOnce' /\ TokensDoNotOverstate'
  BY DEF Crash, IInv, UniqueMailboxes, WelcomedOnce, TokensDoNotOverstate, Registered, RolesOf, tables
<1>3. Serving' /\ Welcome' /\ SignsTrueRoles' /\ Refreshing'
  BY DEF Crash, Serving, Arguments, Welcome, Welcoming, SignsTrueRoles, Refreshing, At, NoReq
<1> QED
  BY <1>1, <1>2, <1>3 DEF IInv

-----------------------------------------------------------------------------
(* The invariant holds.                                                     *)

LEMMA InvInductive == IInv /\ [Next]_vars => IInv'
<1> SUFFICES ASSUME IInv, [Next]_vars PROVE IInv'
  OBVIOUS
<1>1. ASSUME NEW s \in Slot, Call(s) PROVE IInv'
  BY <1>1, CallKeeps, CallGuardedKeeps DEF Call
<1>2. ASSUME NEW s \in Slot, UsersCreate(s) PROVE IInv'
  BY <1>2, UsersCreateKeeps
<1>3. ASSUME NEW s \in Slot, MailerSend(s) PROVE IInv'
  BY <1>3, FinishKeeps, GotoKeeps DEF MailerSend, At, Welcoming
<1>4. ASSUME NEW s \in Slot, GetByEmail(s) PROVE IInv'
  BY <1>4, GetByEmailKeeps
<1>5. ASSUME NEW s \in Slot, GetHighestRole(s) PROVE IInv'
  BY <1>5, GetHighestRoleKeeps
<1>6. ASSUME NEW s \in Slot, SignToken(s) PROVE IInv'
  BY <1>6, SignTokenKeeps
<1>7. ASSUME NEW s \in Slot, Rbac(s) PROVE IInv'
  <2>1. req[s].op \in {"Invite", "CreateTask"}
    BY <1>7 DEF Rbac, IInv, Serving, Arguments, RegisterCalls, LoginCalls
  <2>2. PICK call \in {"forbidden", "members.GetRole", "members.IsMember"} :
          /\ Goto(s, call) /\ UNCHANGED <<tables, tokens, welcomed>>
          /\ req[s].op = "Invite" => call # "members.IsMember"
          /\ req[s].op = "CreateTask" => call # "members.GetRole"
    BY <1>7 DEF Rbac
  <2> QED
    BY <2>1, <2>2, GotoKeeps DEF GuardedCalls
<1>8. ASSUME NEW s \in Slot, GetRole(s) PROVE IInv'
  <2>1. req[s].op = "Invite"
    BY <1>8 DEF GetRole, IInv, Serving, Arguments, RegisterCalls, LoginCalls
  <2> QED
    BY <1>8, <2>1, FinishKeeps, GotoKeeps DEF GetRole, Check, GuardedCalls
<1>9. ASSUME NEW s \in Slot, CallerIsMember(s) PROVE IInv'
  <2>1. req[s].op = "CreateTask"
    BY <1>9 DEF CallerIsMember, IInv, Serving, Arguments, RegisterCalls, LoginCalls
  <2> QED
    BY <1>9, <2>1, FinishKeeps, GotoKeeps DEF CallerIsMember, Check, GuardedCalls
<1>10. ASSUME NEW s \in Slot, Reply(s) PROVE IInv'
  BY <1>10, ReplyKeeps
<1>11. ASSUME NEW s \in Slot, DatabaseFails(s) PROVE IInv'
  BY <1>11, FinishKeeps DEF DatabaseFails
<1>12. ASSUME NEW t \in Team, NEW u \in User, Found(t, u) \/ Join(t, u) PROVE IInv'
  <2>1. PICK r \in Role : members' = members \cup {[team |-> t, user |-> u, role |-> r]}
    BY <1>12 DEF Found, Join, Role
  <2>2. members \subseteq members' /\ members' \subseteq MemberRow
    BY <2>1 DEF IInv, TypeOK, MemberRow
  <2> QED
    BY <1>12, <2>2, RolesGrow DEF Found, Join
<1>13. CASE Crash
  BY <1>13, CrashKeeps
<1>14. CASE Tick
  BY <1>14, TickKeeps
<1>15. CASE UNCHANGED vars
  <2>1. members \subseteq members' /\ members' \subseteq MemberRow
    BY <1>15 DEF vars, tables, IInv, TypeOK
  <2> QED
    BY <1>15, <2>1, RolesGrow DEF vars, tables
<1> QED
  BY <1>1, <1>2, <1>3, <1>4, <1>5, <1>6, <1>7, <1>8, <1>9, <1>10, <1>11, <1>12, <1>13, <1>14, <1>15
     DEF Next, Step

LEMMA InvHolds == Spec => []IInv
<1>1. Init => IInv
  <2> SUFFICES ASSUME Init PROVE IInv
    OBVIOUS
  <2>1. TypeOK
    BY RestTyped DEF Init, TypeOK
  <2>2. Serving /\ UniqueMailboxes /\ Welcome /\ WelcomedOnce
    BY DEF Init, NoReq, Serving, Arguments, UniqueMailboxes, Welcome, Welcoming, WelcomedOnce
  <2>3. SignsTrueRoles /\ TokensDoNotOverstate /\ Refreshing
    BY DEF Init, NoReq, SignsTrueRoles, TokensDoNotOverstate, Refreshing, At
  <2> QED
    BY <2>1, <2>2, <2>3 DEF IInv
<1> QED
  BY <1>1, InvInductive, PTL DEF Spec

\* Registrations of one mailbox race: the unique key lets one INSERT through,
\* the mail may or may not follow it, and at most one of them is answered 201.
THEOREM OneAccount == Spec => []OneAccountPerMailbox
<1>1. IInv => OneAccountPerMailbox
  <2> SUFFICES ASSUME IInv PROVE OneAccountPerMailbox
    OBVIOUS
  <2>1. TypeOK /\ UniqueMailboxes
    BY DEF IInv
  <2>2. \A e \in Email : welcomed[e] <= 1
    BY DEF IInv, WelcomedOnce
  <2> QED
    BY <2>1, <2>2 DEF OneAccountPerMailbox, UniqueMailboxes
<1> QED
  BY <1>1, InvHolds, PTL

\* Register answers 201 only when the account with that password is stored.
THEOREM RegisteredLogin == Spec => []RegisteredCanLogin
<1>1. IInv => RegisteredCanLogin
  BY DEF IInv, Welcome, Welcoming, RegisteredCanLogin, At
<1> QED
  BY <1>1, InvHolds, PTL

\* A token is not taken back, but the role it was signed for is not either.
THEOREM TokensTrue == Spec => []TokensDoNotOverstate
<1>1. IInv => TokensDoNotOverstate
  BY DEF IInv
<1> QED
  BY <1>1, InvHolds, PTL

\* A login started after its user came to manage a team is answered with a
\* token for the managers' routes: between the call and the signature accounts
\* and roles are only added, and a mailbox has one account.
THEOREM LoginsCatchUp == Spec => []LoginCatchesUp
<1>1. IInv => LoginCatchesUp
  BY DEF IInv, Refreshing, Refreshed, LoginCatchesUp
<1> QED
  BY <1>1, InvHolds, PTL
=============================================================================
