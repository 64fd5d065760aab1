---------------------------- MODULE TeamsProofs ----------------------------
(***************************************************************************)
(* Theorems about Teams, for every set of users, mailboxes, teams, codes   *)
(* and concurrent requests.                                                *)
(***************************************************************************)
EXTENDS TeamsInvariant, TLAPS

Label == {"idle"} \cup CreateTeamCalls \cup InviteCalls \cup AcceptInviteCalls

-----------------------------------------------------------------------------
(* Types.                                                                   *)

\* The resting values of a slot have the types of its variables.
LEMMA RestTyped == NoReq \in Request /\ NoTx \in Writes
BY DEF NoReq, NoTx, Request, Writes

\* A return leaves a slot well typed.
LEMMA FinishTyped ==
    ASSUME TypeOK, NEW s \in Slot, Finish(s)
    PROVE  pc' \in [Slot -> Label] /\ req' \in [Slot -> Request] /\ tx' \in [Slot -> Writes]
<1>1. pc' \in [Slot -> Label]
  BY DEF Finish, TypeOK, Label
<1>2. req' \in [Slot -> Request] /\ tx' \in [Slot -> Writes]
  BY RestTyped DEF Finish, TypeOK
<1> QED
  BY <1>1, <1>2

\* A transaction's statement leaves its uncommitted writes well typed.
LEMMA PendTyped ==
    ASSUME TypeOK, NEW s \in Slot,
           NEW t \in SUBSET TeamRow, NEW m \in SUBSET MemberRow, NEW c \in SUBSET Code,
           Pend(s, t, m, c)
    PROVE  tx' \in [Slot -> Writes]
<1> DEFINE w == [teams |-> tx[s].teams \cup t, members |-> tx[s].members \cup m,
                 spent |-> tx[s].spent \cup c]
<1>1. /\ tx[s].teams \subseteq TeamRow
      /\ tx[s].members \subseteq MemberRow
      /\ tx[s].spent \subseteq Code
  BY DEF TypeOK, Writes
<1>2. /\ tx[s].teams \cup t \in SUBSET TeamRow
      /\ tx[s].members \cup m \in SUBSET MemberRow
      /\ tx[s].spent \cup c \in SUBSET Code
  BY <1>1
<1>3. w \in Writes
  BY <1>2 DEF Writes
<1> QED
  BY <1>3 DEF TypeOK, Pend

\* A query leaves everything well typed, whatever it answers.
LEMMA CheckTyped ==
    ASSUME TypeOK, NEW s \in Slot, NEW ok \in BOOLEAN, NEW next \in Label,
           Check(s, ok, next)
    PROVE  TypeOK'
<1>1. CASE ok
  BY <1>1 DEF Check, Goto, TypeOK, Label, tables, history
<1>2. CASE ~ok
  BY <1>2, FinishTyped DEF Check, TypeOK, Label, tables, history
<1> QED
  BY <1>1, <1>2

\* An arriving request is well typed.
LEMMA ArriveTyped ==
    ASSUME TypeOK, NEW s \in Slot, NEW op \in {"CreateTeam", "Invite", "AcceptInvite"},
           NEW call \in Label, NEW u \in User, NEW t \in Team \cup {None},
           NEW e \in Email \cup {None}, NEW c \in Code \cup {None},
           Arrive(s, op, call, u, t, e, c)
    PROVE  TypeOK'
<1>1. [op |-> op, user |-> u, team |-> t, email |-> e, code |-> c] \in Request
  BY DEF Request
<1> QED
  BY <1>1 DEF Arrive, TypeOK, Label, tables, history

-----------------------------------------------------------------------------
(* Types and arguments.                                                     *)

\* A return leaves its slot at rest and the others as they were.
LEMMA FinishServing ==
    ASSUME TypeInv, NEW s \in Slot, Finish(s), UNCHANGED account
    PROVE  Serving'
BY DEF Finish, NoReq, TypeInv, TypeOK, Serving

\* A handler that goes on to another call of its operation keeps its arguments.
LEMMA GotoServing ==
    ASSUME TypeInv, NEW s \in Slot, NEW call, Goto(s, call), UNCHANGED account,
           \/ req[s].op = "CreateTeam" /\ call \in CreateTeamCalls
           \/ req[s].op = "Invite" /\ call \in InviteCalls
           \/ /\ req[s].op = "AcceptInvite" /\ call \in AcceptInviteCalls
              /\ pc[s] # "invites.GetByCode"
    PROVE  Serving'
BY DEF Goto, TypeInv, TypeOK, Serving

\* A query, whatever it answers, keeps types and arguments.
LEMMA CheckTypeInv ==
    ASSUME TypeInv, NEW s \in Slot, NEW ok \in BOOLEAN, NEW next, Check(s, ok, next),
           \/ req[s].op = "CreateTeam" /\ next \in CreateTeamCalls
           \/ req[s].op = "Invite" /\ next \in InviteCalls
           \/ /\ req[s].op = "AcceptInvite" /\ next \in AcceptInviteCalls
              /\ pc[s] # "invites.GetByCode"
    PROVE  TypeInv'
<1>1. TypeOK'
  BY CheckTyped DEF TypeInv, Label
<1>2. Serving'
  <2>1. CASE ok
    BY <2>1, GotoServing DEF Check, tables
  <2>2. CASE ~ok
    BY <2>2, FinishServing DEF Check, tables
  <2> QED
    BY <2>1, <2>2
<1> QED
  BY <1>1, <1>2 DEF TypeInv

\* A return keeps them when the tables it leaves are well typed.
LEMMA FinishTypeInv ==
    ASSUME TypeInv, NEW s \in Slot, Finish(s), UNCHANGED account,
           teams' \subseteq TeamRow, members' \subseteq MemberRow,
           invites' \subseteq InviteRow, issued' \subseteq InviteRow,
           uses' \in [Code -> Nat], mailed' \subseteq Code
    PROVE  TypeInv'
<1>1. TypeOK'
  BY FinishTyped DEF TypeInv, TypeOK, Label
<1> QED
  BY <1>1, FinishServing DEF TypeInv

\* So does going on to the next call, when the writes are well typed too.
LEMMA GotoTypeInv ==
    ASSUME TypeInv, NEW s \in Slot, NEW call, Goto(s, call), UNCHANGED account,
           \/ req[s].op = "CreateTeam" /\ call \in CreateTeamCalls
           \/ req[s].op = "Invite" /\ call \in InviteCalls
           \/ /\ req[s].op = "AcceptInvite" /\ call \in AcceptInviteCalls
              /\ pc[s] # "invites.GetByCode",
           tx' \in [Slot -> Writes],
           teams' \subseteq TeamRow, members' \subseteq MemberRow,
           invites' \subseteq InviteRow, issued' \subseteq InviteRow,
           uses' \in [Code -> Nat], mailed' \subseteq Code
    PROVE  TypeInv'
<1>1. TypeOK'
  BY DEF Goto, TypeInv, TypeOK
<1> QED
  BY <1>1, GotoServing DEF TypeInv

\* What a commit makes of the tables is well typed.
LEMMA ApplyTyped ==
    ASSUME TypeInv, NEW s \in Slot, pc[s] = "tx.Commit", Apply(s)
    PROVE  /\ teams' \subseteq TeamRow /\ members' \subseteq MemberRow
           /\ invites' \subseteq InviteRow /\ issued' \subseteq InviteRow
           /\ uses' \in [Code -> Nat] /\ mailed' \subseteq Code
           /\ UNCHANGED account
<1>1. tx[s] \in Writes
  BY DEF TypeInv, TypeOK
<1>2. tx[s].teams \subseteq TeamRow /\ tx[s].members \subseteq MemberRow
  BY <1>1 DEF Writes
<1>3. uses' \in [Code -> Nat]
  BY DEF Apply, TypeInv, TypeOK, Serving
<1> QED
  BY <1>2, <1>3 DEF Apply, TypeInv, TypeOK

\* So is what the insertion of an invitation makes of them.
LEMMA InsertTyped ==
    ASSUME TypeInv, NEW s \in Slot, InsertInvite(s)
    PROVE  /\ teams' \subseteq TeamRow /\ members' \subseteq MemberRow
           /\ invites' \subseteq InviteRow /\ issued' \subseteq InviteRow
           /\ uses' \in [Code -> Nat] /\ mailed' \subseteq Code
           /\ UNCHANGED account
<1>1. [team |-> req[s].team, email |-> req[s].email, inviter |-> req[s].user,
       code |-> req[s].code] \in InviteRow
  BY DEF InsertInvite, At, TypeInv, Serving, InviteRow
<1> QED
  BY <1>1 DEF InsertInvite, TypeInv, TypeOK

\* Types and arguments are kept by every step.
LEMMA TypeInvInductive == TypeInv /\ [Next]_vars => TypeInv'
<1> SUFFICES ASSUME TypeInv, [Next]_vars PROVE TypeInv'
  OBVIOUS
<1>1. ASSUME NEW s \in Slot, NEW u \in User, CallCreateTeam(s, u)
     PROVE TypeInv'
  <2>1. TypeOK'
    BY <1>1, ArriveTyped DEF CallCreateTeam, FreshTeam, FreshCode, TypeInv, Label, CreateTeamCalls
  <2>2. Serving'
    BY <1>1 DEF CallCreateTeam, FreshTeam, FreshCode, Arrive, TypeInv, TypeOK, Serving,
                CreateTeamCalls, tables
  <2> QED
    BY <2>1, <2>2 DEF TypeInv
<1>2. ASSUME NEW s \in Slot, NEW u \in User, NEW t \in Team, NEW e \in Email, CallInvite(s, u, t, e)
     PROVE TypeInv'
  <2>1. TypeOK'
    BY <1>2, ArriveTyped DEF CallInvite, FreshTeam, FreshCode, TypeInv, Label, InviteCalls
  <2>2. Serving'
    BY <1>2 DEF CallInvite, FreshTeam, FreshCode, Arrive, TypeInv, TypeOK, Serving,
                InviteCalls, tables
  <2> QED
    BY <2>1, <2>2 DEF TypeInv
<1>3. ASSUME NEW s \in Slot, NEW u \in User, NEW c \in Code, CallAcceptInvite(s, u, c)
     PROVE TypeInv'
  <2>1. TypeOK'
    BY <1>3, ArriveTyped DEF CallAcceptInvite, FreshTeam, FreshCode, TypeInv, Label, AcceptInviteCalls
  <2>2. Serving'
    BY <1>3 DEF CallAcceptInvite, FreshTeam, FreshCode, Arrive, TypeInv, TypeOK, Serving,
                AcceptInviteCalls, tables
  <2> QED
    BY <2>1, <2>2 DEF TypeInv
<1>4. ASSUME NEW s \in Slot, TeamsCreate(s) PROVE TypeInv'
  <2>1. [team |-> req[s].team, creator |-> req[s].user] \in TeamRow
    BY <1>4 DEF TeamsCreate, At, TypeInv, Serving, TeamRow
  <2>2. tx' \in [Slot -> Writes]
    <3> DEFINE new == {[team |-> req[s].team, creator |-> req[s].user]}
    <3>1. Pend(s, new, {}, {})
      BY <1>4 DEF TeamsCreate
    <3>2. new \in SUBSET TeamRow
      BY <2>1
    <3> HIDE DEF new
    <3> QED
      BY <3>1, <3>2, PendTyped DEF TypeInv
  <2> QED
    BY <1>4, <2>2, GotoTypeInv DEF TeamsCreate, At, CreateTeamCalls, tables, history, TypeInv, TypeOK
<1>5. ASSUME NEW s \in Slot, MembersAdd(s) PROVE TypeInv'
  <2> DEFINE op == req[s].op
             row == [team |-> req[s].team, user |-> req[s].user,
                     role |-> IF op = "CreateTeam" THEN "owner" ELSE "member"]
  <2>1. CASE IsMember(req[s].team, req[s].user)
    BY <1>5, <2>1, FinishTypeInv DEF MembersAdd, tables, history, TypeInv, TypeOK
  <2>2. CASE ~IsMember(req[s].team, req[s].user)
    <3>1. pc[s] = "members.Add" /\ op \in {"CreateTeam", "AcceptInvite"}
      BY <1>5 DEF MembersAdd, TypeInv, Serving, InviteCalls
    <3>2. row \in MemberRow
      BY <3>1 DEF TypeInv, Serving, MemberRow, Role
    <3>3. tx' \in [Slot -> Writes]
      BY <1>5, <2>2, <3>2, PendTyped DEF MembersAdd, TypeInv
    <3>4. CASE op = "CreateTeam"
      BY <1>5, <2>2, <3>3, <3>4, GotoTypeInv
         DEF MembersAdd, CreateTeamCalls, tables, history, TypeInv, TypeOK
    <3>5. CASE op = "AcceptInvite"
      BY <1>5, <2>2, <3>1, <3>3, <3>5, GotoTypeInv
         DEF MembersAdd, AcceptInviteCalls, tables, history, TypeInv, TypeOK
    <3> QED
      BY <3>1, <3>4, <3>5
  <2> QED
    BY <2>1, <2>2
<1>6. ASSUME NEW s \in Slot, DeleteByCode(s) PROVE TypeInv'
  <2>1. req[s].code \in Code
    BY <1>6 DEF DeleteByCode, At, TypeInv, Serving
  <2>2. tx' \in [Slot -> Writes]
    BY <1>6, <2>1, PendTyped DEF DeleteByCode, TypeInv
  <2> QED
    BY <1>6, <2>2, GotoTypeInv DEF DeleteByCode, At, AcceptInviteCalls, tables, history, TypeInv, TypeOK
<1>7. ASSUME NEW s \in Slot, Commit(s) PROVE TypeInv'
  <2>1. tx' \in [Slot -> Writes]
    BY <1>7, RestTyped DEF Commit, TypeInv, TypeOK
  <2>2. req[s].op \in {"CreateTeam", "AcceptInvite"}
    BY <1>7 DEF Commit, TypeInv, Serving, InviteCalls
  <2> QED
    BY <1>7, <2>1, <2>2, ApplyTyped, GotoTypeInv DEF Commit, CreateTeamCalls, AcceptInviteCalls
<1>8. ASSUME NEW s \in Slot, CommitUnheard(s) PROVE TypeInv'
  BY <1>8, ApplyTyped, FinishTypeInv DEF CommitUnheard
<1>9. ASSUME NEW s \in Slot, TeamsExists(s) PROVE TypeInv'
  BY <1>9, CheckTypeInv DEF TeamsExists, At, InviteCalls, TeamExists, HasRole
<1>10. ASSUME NEW s \in Slot, GetRole(s) PROVE TypeInv'
  BY <1>10, CheckTypeInv DEF GetRole, At, InviteCalls, TeamExists, HasRole
<1>11. ASSUME NEW s \in Slot, InviteeIsMember(s) PROVE TypeInv'
  BY <1>11, CheckTypeInv DEF InviteeIsMember, At, InviteCalls
<1>12. ASSUME NEW s \in Slot, FindIDByEmail(s) PROVE TypeInv'
  BY <1>12, CheckTypeInv DEF FindIDByEmail, At, InviteCalls
<1>13. ASSUME NEW s \in Slot, GetEmailByID(s) PROVE TypeInv'
  BY <1>13, CheckTypeInv DEF GetEmailByID, At, AcceptInviteCalls
<1>14. ASSUME NEW s \in Slot, AccepterIsMember(s) PROVE TypeInv'
  BY <1>14, CheckTypeInv DEF AccepterIsMember, At, AcceptInviteCalls
<1>15. ASSUME NEW s \in Slot, InvitesCreate(s) PROVE TypeInv'
  BY <1>15, InsertTyped, GotoTypeInv DEF InvitesCreate, InsertInvite, At, InviteCalls, TypeInv, TypeOK
<1>16. ASSUME NEW s \in Slot, InvitesCreateUnheard(s) PROVE TypeInv'
  BY <1>16, InsertTyped, FinishTypeInv DEF InvitesCreateUnheard
<1>17. ASSUME NEW s \in Slot, MailerSend(s) PROVE TypeInv'
  <2>1. req[s].code \in Code
    BY <1>17 DEF MailerSend, At, TypeInv, Serving
  <2> QED
    BY <1>17, <2>1, GotoTypeInv DEF MailerSend, At, InviteCalls, tables, TypeInv, TypeOK
<1>18. ASSUME NEW s \in Slot, MailerFails(s) PROVE TypeInv'
  <2>1. req[s].code \in Code
    BY <1>18 DEF MailerFails, At, TypeInv, Serving
  <2> QED
    BY <1>18, <2>1, FinishTypeInv DEF MailerFails, tables, TypeInv, TypeOK
<1>19. ASSUME NEW s \in Slot, GetByCode(s) PROVE TypeInv'
  <2>1. CASE \E i \in invites : i.code = req[s].code
    <3>1. PICK i \in invites :
            /\ i.code = req[s].code
            /\ pc' = [pc EXCEPT ![s] = "users.GetEmailByID"]
            /\ req' = [req EXCEPT ![s] = [op |-> "AcceptInvite", user |-> req[s].user,
                                 team |-> i.team, email |-> i.email, code |-> i.code]]
            /\ UNCHANGED tx
      BY <1>19, <2>1 DEF GetByCode
    <3>2. i.team \in Team /\ i.email \in Email /\ i.code \in Code
      BY DEF TypeInv, TypeOK, InviteRow
    <3>3. [op |-> "AcceptInvite", user |-> req[s].user, team |-> i.team,
           email |-> i.email, code |-> i.code] \in Request
      BY <1>19, <3>2 DEF GetByCode, At, TypeInv, Serving, Request
    <3>4. TypeOK'
      BY <1>19, <3>1, <3>3 DEF GetByCode, TypeInv, TypeOK, AcceptInviteCalls, tables, history
    <3>5. Serving'
      BY <1>19, <3>1, <3>2 DEF GetByCode, At, TypeInv, TypeOK, Serving, AcceptInviteCalls, tables
    <3> QED
      BY <3>4, <3>5 DEF TypeInv
  <2>2. CASE ~\E i \in invites : i.code = req[s].code
    BY <1>19, <2>2, FinishTypeInv DEF GetByCode, tables, history, TypeInv, TypeOK
  <2> QED
    BY <2>1, <2>2
<1>20. ASSUME NEW s \in Slot, Reply(s) PROVE TypeInv'
  BY <1>20, FinishTypeInv DEF Reply, tables, history, TypeInv, TypeOK
<1>21. ASSUME NEW s \in Slot, DatabaseFails(s) PROVE TypeInv'
  BY <1>21, FinishTypeInv DEF DatabaseFails, tables, history, TypeInv, TypeOK
<1>22. ASSUME NEW u \in User, NEW e \in Email, UsersCreate(u, e) PROVE TypeInv'
  <2>1. TypeOK'
    BY <1>22 DEF UsersCreate, TypeInv, TypeOK, history
  <2>2. Serving'
    BY <1>22, TeamsAssumption DEF UsersCreate, TypeInv, TypeOK, Serving
  <2> QED
    BY <2>1, <2>2 DEF TypeInv
<1>23. CASE Crash
  <2>1. TypeOK'
    BY <1>23, RestTyped DEF Crash, TypeInv, TypeOK, tables, history
  <2>2. Serving'
    BY <1>23 DEF Crash, Serving, NoReq
  <2> QED
    BY <2>1, <2>2 DEF TypeInv
<1>24. CASE UNCHANGED vars
  BY <1>24 DEF vars, tables, history, TypeInv, TypeOK, Serving
<1> QED
  BY <1>1, <1>2, <1>3, <1>4, <1>5, <1>6, <1>7, <1>8, <1>9, <1>10, <1>11, <1>12, <1>13, <1>14, <1>15, <1>16, <1>17, <1>18, <1>19, <1>20, <1>21, <1>22, <1>23, <1>24
     DEF Next, Call, Write, Step, Fault

\* The type invariant of the service: every reachable state is well typed, and
\* every handler has the arguments its operation needs.
THEOREM TypeCorrect == Spec => []TypeOK
<1>1. Init => TypeInv
  BY TeamsAssumption, RestTyped DEF Init, TypeInv, TypeOK, Serving, NoReq
<1>2. TypeInv => TypeOK
  BY DEF TypeInv
<1> QED
  BY <1>1, <1>2, TypeInvInductive, PTL DEF Spec

-----------------------------------------------------------------------------
(* The safety of Teams, from the inductive invariant of TeamsInvariant.     *)

-----------------------------------------------------------------------------
(* Steps that leave the tables alone.                                       *)

\* The tables' part depends on the tables only.
LEMMA QuietTables ==
    ASSUME TablesInv, UNCHANGED <<account, teams, members, invites, issued, uses>>
    PROVE  TablesInv'
<1>1. UniqueMailboxes' /\ CodeLife'
  BY DEF TablesInv, UniqueMailboxes, CodeLife
<1>2. IssuedByManagers' /\ SpentCodeMadeMember'
  BY DEF TablesInv, IssuedByManagers, SpentCodeMadeMember, HasRole, IsMember, Addressee
<1>3. MembersWereInvited' /\ EveryTeamHasItsOwner'
  BY DEF TablesInv, MembersWereInvited, EveryTeamHasItsOwner, HasRole, Addressee, TeamExists
<1> QED
  BY <1>1, <1>2, <1>3 DEF TablesInv

\* A handler that returns forgets what it knew and releases what it held.
LEMMA FinishSlots ==
    ASSUME Inv, NEW s \in Slot, Finish(s),
           UNCHANGED <<tables, issued, uses>>, mailed \subseteq mailed'
    PROVE  SlotsInv'
<1>1. TxShape'
  BY DEF Inv, TypeInv, TypeOK, SlotsInv, TxShape, Finish, NoReq, NoTx, Admitting
<1>2. Admission'
  BY DEF Inv, TypeInv, TypeOK, SlotsInv, Admission, Finish, NoReq, Admitting, IsMember, tables
<1>3. AcceptKnows'
  BY DEF Inv, TypeInv, TypeOK, SlotsInv, AcceptKnows, Finish, NoReq, tables
<1>4. InviteKnows'
  BY DEF Inv, TypeInv, TypeOK, SlotsInv, InviteKnows, Finish, NoReq, HasRole, tables
<1>5. CreateKnows'
  BY DEF Inv, TypeInv, TypeOK, SlotsInv, CreateKnows, Finish, NoReq, tables
<1>6. OkReplyIsTrue'
  BY DEF Inv, TypeInv, TypeOK, Serving, SlotsInv, OkReplyIsTrue, Finish, NoReq, IsMember,
         ListTeams, tables
<1> QED
  BY <1>1, <1>2, <1>3, <1>4, <1>5, <1>6 DEF SlotsInv

\* A query that succeeds takes its handler to the next call, outside any
\* transaction, with what it has learnt.
LEMMA LearnSlots ==
    ASSUME Inv, NEW s \in Slot, NEW next, Goto(s, next),
           UNCHANGED <<tables, tx, issued, uses, mailed>>,
           pc[s] \notin Admitting \cup {"mailer.Send", "reply"},
           next \notin Admitting \cup {"invites.GetByCode", "mailer.Send", "reply"},
           req[s].op \in {"Invite", "AcceptInvite"},
           req[s].op = "Invite" /\ next # "members.GetRole" =>
              HasRole(req[s].team, req[s].user, {"owner", "admin"}),
           req[s].op = "AcceptInvite" =>
              /\ pc[s] # "invites.GetByCode"
              /\ account[req[s].user] = req[s].email
    PROVE  SlotsInv'
<1>1. TxShape'
  BY DEF Inv, TypeInv, TypeOK, SlotsInv, TxShape, Goto, Admitting
<1>2. Admission'
  BY DEF Inv, TypeInv, TypeOK, SlotsInv, Admission, Goto, Admitting, IsMember, tables
<1>3. AcceptKnows'
  BY DEF Inv, TypeInv, TypeOK, SlotsInv, AcceptKnows, Goto, tables
<1>4. InviteKnows'
  BY DEF Inv, TypeInv, TypeOK, SlotsInv, InviteKnows, Goto, HasRole, tables
<1>5. CreateKnows'
  BY DEF Inv, TypeInv, TypeOK, SlotsInv, CreateKnows, Goto, tables
<1>6. OkReplyIsTrue'
  BY DEF Inv, TypeInv, TypeOK, Serving, SlotsInv, OkReplyIsTrue, Goto, IsMember,
         ListTeams, tables
<1> QED
  BY <1>1, <1>2, <1>3, <1>4, <1>5, <1>6 DEF SlotsInv

\* So a query keeps the slots' part, whatever it answers.
LEMMA CheckSlots ==
    ASSUME Inv, NEW s \in Slot, NEW ok \in BOOLEAN, NEW next, Check(s, ok, next),
           pc[s] \notin Admitting \cup {"mailer.Send", "reply"},
           next \notin Admitting \cup {"invites.GetByCode", "mailer.Send", "reply"},
           req[s].op \in {"Invite", "AcceptInvite"},
           ok /\ req[s].op = "Invite" /\ next # "members.GetRole" =>
              HasRole(req[s].team, req[s].user, {"owner", "admin"}),
           ok /\ req[s].op = "AcceptInvite" =>
              /\ pc[s] # "invites.GetByCode"
              /\ account[req[s].user] = req[s].email
    PROVE  SlotsInv'
<1>1. CASE ok
  <2>1. Goto(s, next) /\ UNCHANGED <<tables, tx, issued, uses, mailed>>
    BY <1>1 DEF Check, history
  <2> QED
    BY <1>1, <2>1, LearnSlots
<1>2. CASE ~ok
  <2>1. Finish(s) /\ UNCHANGED <<tables, issued, uses, mailed>>
    BY <1>2 DEF Check, history
  <2> QED
    BY <2>1, FinishSlots
<1> QED
  BY <1>1, <1>2

\* The tables' part after a step of the kinds above.
LEMMA CheckTables ==
    ASSUME Inv, NEW s \in Slot, NEW ok \in BOOLEAN, NEW next, Check(s, ok, next)
    PROVE  TablesInv'
BY QuietTables DEF Check, Inv, tables, history

-----------------------------------------------------------------------------
(* Requests that arrive.                                                    *)

\* A new request knows nothing yet, and the ids it drew are nobody else's.
LEMMA ArriveSlots ==
    ASSUME Inv, NEW s \in Slot, NEW op, NEW call, NEW u \in User, NEW t, NEW e, NEW c,
           Arrive(s, op, call, u, t, e, c),
           \/ op = "CreateTeam" /\ call = "teams.Create" /\ t \in FreshTeam
           \/ op = "Invite" /\ call = "teams.Exists" /\ c \in FreshCode
           \/ op = "AcceptInvite" /\ call = "invites.GetByCode"
    PROVE  SlotsInv'
<1>1. TxShape'
  BY DEF Inv, TypeInv, TypeOK, SlotsInv, TxShape, Arrive, Admitting
<1>2. Admission'
  BY DEF Inv, TypeInv, TypeOK, SlotsInv, Admission, Arrive, Admitting, IsMember, tables
<1>3. AcceptKnows'
  BY DEF Inv, TypeInv, TypeOK, SlotsInv, AcceptKnows, Arrive, tables, history
<1>4. InviteKnows'
  BY DEF Inv, TypeInv, TypeOK, SlotsInv, InviteKnows, Arrive, FreshCode, HasRole, tables, history
<1>5. CreateKnows'
  BY DEF Inv, TypeInv, TypeOK, SlotsInv, CreateKnows, Arrive, FreshTeam, tables, history
<1>6. OkReplyIsTrue'
  BY DEF Inv, TypeInv, TypeOK, Serving, SlotsInv, OkReplyIsTrue, Arrive, IsMember,
         ListTeams, tables, history
<1> QED
  BY <1>1, <1>2, <1>3, <1>4, <1>5, <1>6 DEF SlotsInv

-----------------------------------------------------------------------------
(* The statements of the transactions.                                      *)

\* The first statement of CreateTeam.
LEMMA TeamsCreateSlots ==
    ASSUME Inv, NEW s \in Slot, TeamsCreate(s)
    PROVE  SlotsInv'
<1> DEFINE row == [team |-> req[s].team, creator |-> req[s].user]
<1>1. /\ tx[s].teams = {} /\ tx[s].members = {} /\ tx[s].spent = {}
      /\ req[s].op = "CreateTeam" /\ pc[s] = "teams.Create"
  BY DEF TeamsCreate, At, Inv, SlotsInv, TxShape, Admitting
<1>2. /\ tx' = [tx EXCEPT ![s] = [teams |-> {row}, members |-> {}, spent |-> {}]]
      /\ pc' = [pc EXCEPT ![s] = "members.Add"]
      /\ UNCHANGED <<req, tables, history>>
  BY <1>1 DEF TeamsCreate, Pend, Goto
<1>3. TxShape'
  BY <1>1, <1>2 DEF Inv, TypeInv, TypeOK, SlotsInv, TxShape, Admitting
<1>4. Admission'
  BY <1>2 DEF Inv, TypeInv, TypeOK, SlotsInv, Admission, Admitting, IsMember, tables
<1>5. AcceptKnows' /\ CreateKnows'
  BY <1>1, <1>2 DEF Inv, TypeInv, TypeOK, SlotsInv, AcceptKnows, CreateKnows, tables, history
<1>6. InviteKnows'
  BY <1>1, <1>2 DEF Inv, TypeInv, TypeOK, SlotsInv, InviteKnows, HasRole, tables, history
<1>7. OkReplyIsTrue'
  BY <1>1, <1>2 DEF Inv, TypeInv, TypeOK, SlotsInv, OkReplyIsTrue, IsMember, ListTeams,
                    tables, history
<1> QED
  BY <1>3, <1>4, <1>5, <1>6, <1>7 DEF SlotsInv

\* The insertion into team_members: the lock makes it the only one of its key.
LEMMA MembersAddSlots ==
    ASSUME Inv, NEW s \in Slot, MembersAdd(s)
    PROVE  SlotsInv'
<1> DEFINE row  == [team |-> req[s].team, user |-> req[s].user,
                    role |-> IF req[s].op = "CreateTeam" THEN "owner" ELSE "member"]
           next == IF req[s].op = "CreateTeam" THEN "tx.Commit" ELSE "invites.DeleteByCode"
<1>1. CASE IsMember(req[s].team, req[s].user)
  <2>1. Finish(s) /\ UNCHANGED <<tables, issued, uses, mailed>>
    BY <1>1 DEF MembersAdd, history
  <2> QED
    BY <2>1, FinishSlots
<1>2. CASE ~IsMember(req[s].team, req[s].user)
  <2>1. /\ tx[s].members = {} /\ tx[s].spent = {}
        /\ req[s].op \in {"CreateTeam", "AcceptInvite"} /\ pc[s] = "members.Add"
    BY DEF MembersAdd, Inv, TypeInv, Serving, SlotsInv, TxShape, Admitting, InviteCalls
  <2>2. /\ tx' = [tx EXCEPT ![s] = [teams |-> tx[s].teams, members |-> {row}, spent |-> {}]]
        /\ pc' = [pc EXCEPT ![s] = next]
        /\ UNCHANGED <<req, tables, history>>
    BY <1>2, <2>1 DEF MembersAdd, Pend, Goto
  <2>3. TxShape'
    BY <2>1, <2>2 DEF Inv, TypeInv, TypeOK, SlotsInv, TxShape, Admitting
  <2>4. ASSUME NEW o \in Slot \ {s}, pc[o] \in Admitting
        PROVE  ~(req[o].team = req[s].team /\ req[o].user = req[s].user)
    <3>1. [team |-> req[o].team, user |-> req[o].user,
           role |-> IF req[o].op = "CreateTeam" THEN "owner" ELSE "member"] \in tx[o].members
      BY <2>4 DEF Inv, SlotsInv, TxShape
    <3> QED
      BY <3>1 DEF MembersAdd, RowLocked
  <2>5. Admission'
    BY <1>2, <2>2, <2>4 DEF Inv, TypeInv, TypeOK, SlotsInv, Admission, Admitting, IsMember, tables
  <2>6. AcceptKnows' /\ CreateKnows'
    BY <2>1, <2>2 DEF Inv, TypeInv, TypeOK, SlotsInv, AcceptKnows, CreateKnows, tables, history
  <2>7. InviteKnows'
    BY <2>1, <2>2 DEF Inv, TypeInv, TypeOK, SlotsInv, InviteKnows, HasRole, tables, history
  <2>8. OkReplyIsTrue'
    BY <2>1, <2>2 DEF Inv, TypeInv, TypeOK, SlotsInv, OkReplyIsTrue, IsMember, ListTeams,
                      tables, history
  <2> QED
    BY <2>3, <2>5, <2>6, <2>7, <2>8 DEF SlotsInv
<1> QED
  BY <1>1, <1>2

\* The deletion of the invitation.
LEMMA DeleteByCodeSlots ==
    ASSUME Inv, NEW s \in Slot, DeleteByCode(s)
    PROVE  SlotsInv'
<1>1. /\ tx[s].spent = {}
      /\ req[s].op = "AcceptInvite" /\ pc[s] = "invites.DeleteByCode"
  BY DEF DeleteByCode, At, Inv, SlotsInv, TxShape
<1>2. /\ tx' = [tx EXCEPT ![s] = [teams |-> tx[s].teams, members |-> tx[s].members,
                                  spent |-> {req[s].code}]]
      /\ pc' = [pc EXCEPT ![s] = "tx.Commit"]
      /\ UNCHANGED <<req, tables, history>>
  BY <1>1 DEF DeleteByCode, Pend, Goto
<1>3. TxShape'
  BY <1>1, <1>2 DEF Inv, TypeInv, TypeOK, SlotsInv, TxShape, Admitting
<1>4. Admission'
  BY <1>1, <1>2 DEF Inv, TypeInv, TypeOK, SlotsInv, Admission, Admitting, IsMember, tables
<1>5. AcceptKnows' /\ CreateKnows'
  BY <1>1, <1>2 DEF Inv, TypeInv, TypeOK, SlotsInv, AcceptKnows, CreateKnows, tables, history
<1>6. InviteKnows'
  BY <1>1, <1>2 DEF Inv, TypeInv, TypeOK, SlotsInv, InviteKnows, HasRole, tables, history
<1>7. OkReplyIsTrue'
  BY <1>1, <1>2 DEF Inv, TypeInv, TypeOK, SlotsInv, OkReplyIsTrue, IsMember, ListTeams,
                    tables, history
<1> QED
  BY <1>3, <1>4, <1>5, <1>6, <1>7 DEF SlotsInv

-----------------------------------------------------------------------------
(* Finding and mailing an invitation.                                       *)

\* A handler that finds the row of its code knows the invitation from then on.
LEMMA GetByCodeSlots ==
    ASSUME Inv, NEW s \in Slot, GetByCode(s)
    PROVE  SlotsInv'
<1>1. CASE \A i \in invites : i.code # req[s].code
  <2>1. Finish(s) /\ UNCHANGED <<tables, issued, uses, mailed>>
    BY <1>1 DEF GetByCode, history
  <2> QED
    BY <2>1, FinishSlots
<1>2. CASE ~\A i \in invites : i.code # req[s].code
  <2>1. PICK i \in invites :
          /\ i.code = req[s].code
          /\ pc' = [pc EXCEPT ![s] = "users.GetEmailByID"]
          /\ req' = [req EXCEPT ![s] = [op |-> "AcceptInvite", user |-> req[s].user,
                               team |-> i.team, email |-> i.email, code |-> i.code]]
          /\ UNCHANGED <<tx, tables, history>>
    BY <1>2 DEF GetByCode
  <2>2. i \in issued /\ req[s].op = "AcceptInvite" /\ pc[s] = "invites.GetByCode"
    BY DEF GetByCode, At, Inv, TablesInv, CodeLife
  <2>3. TxShape'
    BY <2>1, <2>2 DEF Inv, TypeInv, TypeOK, SlotsInv, TxShape, Admitting
  <2>4. Admission'
    BY <2>1, <2>2 DEF Inv, TypeInv, TypeOK, SlotsInv, Admission, Admitting, IsMember, tables
  <2>5. AcceptKnows' /\ CreateKnows'
    BY <2>1, <2>2 DEF Inv, TypeInv, TypeOK, SlotsInv, AcceptKnows, CreateKnows, tables, history
  <2>6. InviteKnows'
    BY <2>1, <2>2 DEF Inv, TypeInv, TypeOK, SlotsInv, InviteKnows, HasRole, tables, history
  <2>7. OkReplyIsTrue'
    BY <2>1, <2>2 DEF Inv, TypeInv, TypeOK, SlotsInv, OkReplyIsTrue, IsMember, ListTeams,
                      tables, history
  <2> QED
    BY <2>3, <2>4, <2>5, <2>6, <2>7 DEF SlotsInv
<1> QED
  BY <1>1, <1>2

\* An invitation is mailed only after it was written.
LEMMA MailerSendSlots ==
    ASSUME Inv, NEW s \in Slot, MailerSend(s)
    PROVE  SlotsInv'
<1>1. /\ req[s].op = "Invite" /\ pc[s] = "mailer.Send"
      /\ mailed' = mailed \cup {req[s].code}
      /\ pc' = [pc EXCEPT ![s] = "reply"]
      /\ UNCHANGED <<req, tx, tables, issued, uses>>
  BY DEF MailerSend, At, Goto
<1>2. TxShape'
  BY <1>1 DEF Inv, TypeInv, TypeOK, SlotsInv, TxShape, Admitting
<1>3. Admission'
  BY <1>1 DEF Inv, TypeInv, TypeOK, SlotsInv, Admission, Admitting, IsMember, tables
<1>4. AcceptKnows' /\ CreateKnows'
  BY <1>1 DEF Inv, TypeInv, TypeOK, SlotsInv, AcceptKnows, CreateKnows, tables
<1>5. InviteKnows'
  BY <1>1 DEF Inv, TypeInv, TypeOK, SlotsInv, InviteKnows, HasRole, tables
<1>6. OkReplyIsTrue'
  <2>1. \E i \in issued : i.code = req[s].code
    BY <1>1 DEF Inv, SlotsInv, InviteKnows
  <2> QED
    BY <1>1, <2>1 DEF Inv, TypeInv, TypeOK, SlotsInv, OkReplyIsTrue, IsMember, ListTeams, tables
<1> QED
  BY <1>2, <1>3, <1>4, <1>5, <1>6 DEF SlotsInv

-----------------------------------------------------------------------------
(* Inserting an invitation.                                                 *)

\* A new row is an unused code, issued by somebody who runs the team.
LEMMA InsertTables ==
    ASSUME Inv, NEW s \in Slot, InsertInvite(s)
    PROVE  TablesInv'
<1> DEFINE row == [team |-> req[s].team, email |-> req[s].email,
                   inviter |-> req[s].user, code |-> req[s].code]
<1>1. /\ req[s].op = "Invite" /\ pc[s] = "invites.Create"
      /\ invites' = invites \cup {row} /\ issued' = issued \cup {row}
      /\ UNCHANGED <<account, teams, members, uses>>
  BY DEF InsertInvite, At
<1>2. /\ HasRole(row.team, row.inviter, {"owner", "admin"})
      /\ \A i \in issued : i.code # row.code
      /\ row.code \in Code
  BY <1>1 DEF Inv, TypeInv, Serving, SlotsInv, InviteKnows
<1>3. issued' \ invites' = issued \ invites
  BY <1>1, <1>2
<1> HIDE DEF row
<1>4. UniqueMailboxes'
  BY <1>1 DEF Inv, TablesInv, UniqueMailboxes
<1>5. CodeLife'
  BY <1>1, <1>2 DEF Inv, TypeInv, TypeOK, TablesInv, CodeLife
<1>6. IssuedByManagers'
  BY <1>1, <1>2 DEF Inv, TablesInv, IssuedByManagers, HasRole
<1>7. SpentCodeMadeMember' /\ MembersWereInvited'
  BY <1>1, <1>3 DEF Inv, TablesInv, SpentCodeMadeMember, MembersWereInvited, HasRole, IsMember,
                    Addressee
<1>8. EveryTeamHasItsOwner'
  BY <1>1 DEF Inv, TablesInv, EveryTeamHasItsOwner, TeamExists
<1> QED
  BY <1>4, <1>5, <1>6, <1>7, <1>8 DEF TablesInv

\* The handler that inserted it goes on to mail it, or returns; the others
\* have other codes.
LEMMA InsertSlots ==
    ASSUME Inv, NEW s \in Slot, InsertInvite(s),
           (Goto(s, "mailer.Send") /\ UNCHANGED tx) \/ Finish(s)
    PROVE  SlotsInv'
<1> DEFINE row == [team |-> req[s].team, email |-> req[s].email,
                   inviter |-> req[s].user, code |-> req[s].code]
<1>1. /\ req[s].op = "Invite" /\ pc[s] = "invites.Create"
      /\ invites' = invites \cup {row} /\ issued' = issued \cup {row}
      /\ row.code = req[s].code
      /\ UNCHANGED <<account, teams, members, uses, mailed>>
  BY DEF InsertInvite, At
<1>2. row \in issued'
  BY <1>1
<1> HIDE DEF row
<1>3. TxShape'
  <2>1. CASE Goto(s, "mailer.Send") /\ UNCHANGED tx
    BY <1>1, <2>1 DEF Inv, TypeInv, TypeOK, SlotsInv, TxShape, Admitting, Goto
  <2>2. CASE Finish(s)
    BY <1>1, <2>2 DEF Inv, TypeInv, TypeOK, SlotsInv, TxShape, Admitting, Finish, NoReq, NoTx
  <2> QED
    BY <2>1, <2>2
<1>4. Admission'
  BY <1>1 DEF Inv, TypeInv, TypeOK, SlotsInv, Admission, Admitting, Goto, Finish, NoReq, IsMember
<1>5. AcceptKnows' /\ CreateKnows'
  BY <1>1 DEF Inv, TypeInv, TypeOK, SlotsInv, AcceptKnows, CreateKnows, Goto, Finish, NoReq
<1>6. InviteKnows'
  BY <1>1, <1>2 DEF Inv, TypeInv, TypeOK, SlotsInv, InviteKnows, Goto, Finish, NoReq, HasRole
<1>7. OkReplyIsTrue'
  <2>1. ASSUME NEW o \in Slot, req[o].op = "AcceptInvite", pc[o] = "reply"
        PROVE  row.code # req[o].code
    BY <1>1, <2>1 DEF Inv, SlotsInv, AcceptKnows, InviteKnows
  <2> QED
    BY <1>1, <2>1 DEF Inv, TypeInv, TypeOK, SlotsInv, OkReplyIsTrue, Goto, Finish, NoReq,
                      IsMember, ListTeams
<1> QED
  BY <1>3, <1>4, <1>5, <1>6, <1>7 DEF SlotsInv

-----------------------------------------------------------------------------
(* The commits.                                                             *)

\* A commit of CreateTeam shows a new team together with its owner.
LEMMA CreateTables ==
    ASSUME Inv, NEW s \in Slot, pc[s] = "tx.Commit", Apply(s), req[s].op = "CreateTeam"
    PROVE  TablesInv'
<1> DEFINE t == req[s].team
           u == req[s].user
<1>1. /\ teams' = teams \cup {[team |-> t, creator |-> u]}
      /\ members' = members \cup {[team |-> t, user |-> u, role |-> "owner"]}
      /\ invites' = invites
      /\ UNCHANGED <<account, issued, uses>>
  BY DEF Apply, Inv, SlotsInv, TxShape, Admitting
<1>2. \A r \in teams : r.team # t
  BY DEF Inv, SlotsInv, CreateKnows
<1>3. \A m \in members : m.team # t
  BY <1>2 DEF Inv, TablesInv, EveryTeamHasItsOwner, TeamExists
<1> HIDE DEF t, u
<1>4. UniqueMailboxes' /\ CodeLife'
  BY <1>1 DEF Inv, TablesInv, UniqueMailboxes, CodeLife
<1>5. IssuedByManagers' /\ SpentCodeMadeMember'
  BY <1>1 DEF Inv, TablesInv, IssuedByManagers, SpentCodeMadeMember, HasRole, IsMember, Addressee
<1>6. MembersWereInvited'
  BY <1>1 DEF Inv, TablesInv, MembersWereInvited, HasRole, Addressee
<1>7. EveryTeamHasItsOwner'
  <2>1. ASSUME NEW r \in teams'
        PROVE  {m \in members' : m.team = r.team /\ m.role = "owner"}
                 = {[team |-> r.team, user |-> r.creator, role |-> "owner"]}
    <3>1. CASE r \in teams
      <4>1. {m \in members' : m.team = r.team /\ m.role = "owner"}
              = {m \in members : m.team = r.team /\ m.role = "owner"}
        BY <1>1, <1>2, <3>1
      <4> QED
        BY <3>1, <4>1 DEF Inv, TablesInv, EveryTeamHasItsOwner
    <3>2. CASE r = [team |-> t, creator |-> u]
      BY <1>1, <1>3, <3>2
    <3> QED
      BY <1>1, <3>1, <3>2
  <2>2. \A m \in members' : \E r \in teams' : r.team = m.team
    <3>1. \A m \in members : \E r \in teams : r.team = m.team
      BY DEF Inv, TablesInv, EveryTeamHasItsOwner, TeamExists
    <3>2. \A m \in members' : m \in members \/ m.team = t
      BY <1>1
    <3>3. \E r \in teams' : r.team = t
      <4>1. [team |-> t, creator |-> u] \in teams' /\ [team |-> t, creator |-> u].team = t
        BY <1>1
      <4> QED
        BY <4>1
    <3> QED
      BY <1>1, <3>1, <3>2, <3>3
  <2> QED
    BY <2>1, <2>2 DEF EveryTeamHasItsOwner, TeamExists
<1> QED
  BY <1>4, <1>5, <1>6, <1>7 DEF TablesInv

\* The heart of the argument.  When an accept commits, its invitation is still
\* there: had another accept spent it, the addressee, who is the caller, would
\* be in the team already, and this handler could not have inserted its row.
LEMMA AcceptHoldsInvite ==
    ASSUME Inv, NEW s \in Slot, pc[s] = "tx.Commit", req[s].op = "AcceptInvite"
    PROVE  \E i \in invites : /\ i.code = req[s].code /\ i.team = req[s].team
                             /\ i.email = req[s].email /\ Addressee(i, req[s].user)
<1>1. PICK i \in issued : /\ i.code = req[s].code /\ i.team = req[s].team
                          /\ i.email = req[s].email
  BY DEF Inv, SlotsInv, AcceptKnows
<1>2. Addressee(i, req[s].user)
  BY <1>1 DEF Addressee, Inv, SlotsInv, AcceptKnows
<1>3. ASSUME i \notin invites PROVE FALSE
  <2>1. PICK v \in User : Addressee(i, v) /\ IsMember(i.team, v)
    BY <1>3 DEF Inv, TablesInv, SpentCodeMadeMember
  <2>2. req[s].user \in User /\ account[req[s].user] # None
    BY DEF Inv, TypeInv, Serving
  <2>3. v = req[s].user
    BY <1>2, <2>1, <2>2 DEF Addressee, Inv, TablesInv, UniqueMailboxes
  <2> QED
    BY <1>1, <2>1, <2>3 DEF Inv, SlotsInv, Admission, Admitting
<1> QED
  BY <1>1, <1>2, <1>3

\* A commit of AcceptInvite spends the invitation and admits its addressee.
LEMMA AcceptTables ==
    ASSUME Inv, NEW s \in Slot, pc[s] = "tx.Commit", Apply(s), req[s].op = "AcceptInvite"
    PROVE  TablesInv'
<1> DEFINE t == req[s].team
           u == req[s].user
           c == req[s].code
           row == [team |-> t, user |-> u, role |-> "member"]
<1>1. /\ teams' = teams
      /\ members' = members \cup {row}
      /\ invites' = {i \in invites : i.code # c}
      /\ uses' = [uses EXCEPT ![c] = @ + 1]
      /\ UNCHANGED <<account, issued>>
  BY DEF Apply, Inv, SlotsInv, TxShape, Admitting
<1>2. row.team = t /\ row.user = u /\ row.role = "member" /\ u \in User /\ c \in Code
  BY DEF Inv, TypeInv, Serving
<1>3. PICK i \in invites : i.code = c /\ i.team = t /\ Addressee(i, u)
  BY AcceptHoldsInvite
<1>4. i \in issued /\ invites \subseteq issued
  BY <1>3 DEF Inv, TablesInv, CodeLife
<1>5. issued' \ invites' = (issued \ invites) \cup {i}
  BY <1>1, <1>3, <1>4 DEF Inv, TablesInv, CodeLife
<1> HIDE DEF row, t, u, c
<1>6. UniqueMailboxes'
  BY <1>1 DEF Inv, TablesInv, UniqueMailboxes
<1>7. CodeLife'
  <2>1. /\ invites' \subseteq issued'
        /\ \A j, k \in issued' : j.code = k.code => j = k
    BY <1>1 DEF Inv, TablesInv, CodeLife
  <2>2. \A d \in Code : uses'[d] = IF d = c THEN uses[d] + 1 ELSE uses[d]
    BY <1>1, <1>2 DEF Inv, TypeInv, TypeOK
  <2>3. /\ \A d \in Code : (\A j \in issued' : j.code # d) => uses'[d] = 0
        /\ \A j \in invites' : uses'[j.code] = 0
    BY <1>1, <1>3, <1>4, <2>2 DEF Inv, TypeInv, TypeOK, TablesInv, CodeLife, InviteRow
  <2>4. \A j \in issued' \ invites' : uses'[j.code] = 1
    BY <1>1, <1>3, <1>4, <1>5, <2>2 DEF Inv, TypeInv, TypeOK, TablesInv, CodeLife, InviteRow
  <2> QED
    BY <2>1, <2>3, <2>4 DEF CodeLife
<1>8. IssuedByManagers'
  BY <1>1 DEF Inv, TablesInv, IssuedByManagers, HasRole
<1>9. SpentCodeMadeMember'
  BY <1>1, <1>2, <1>3, <1>5 DEF Inv, TablesInv, SpentCodeMadeMember, IsMember, Addressee
<1>10. MembersWereInvited'
  BY <1>1, <1>2, <1>3, <1>4, <1>5
     DEF Inv, TablesInv, MembersWereInvited, IssuedByManagers, HasRole, Addressee
<1>11. EveryTeamHasItsOwner'
  <2>1. TeamExists(t)
    BY <1>3, <1>4 DEF Inv, TablesInv, IssuedByManagers, EveryTeamHasItsOwner, HasRole
  <2>2. ASSUME NEW r \in teams
        PROVE  {m \in members' : m.team = r.team /\ m.role = "owner"}
                 = {m \in members : m.team = r.team /\ m.role = "owner"}
    BY <1>1, <1>2
  <2> QED
    BY <1>1, <1>2, <2>1, <2>2 DEF Inv, TablesInv, EveryTeamHasItsOwner, TeamExists
<1> QED
  BY <1>6, <1>7, <1>8, <1>9, <1>10, <1>11 DEF TablesInv

\* The slots' part after a commit: the handler answers, or returns an error;
\* the others keep what they hold, because no two admit the same user.
LEMMA CommitSlots ==
    ASSUME Inv, NEW s \in Slot, pc[s] = "tx.Commit", Apply(s),
           \/ pc' = [pc EXCEPT ![s] = "reply"] /\ tx' = [tx EXCEPT ![s] = NoTx]
              /\ UNCHANGED req
           \/ Finish(s)
    PROVE  SlotsInv'
<1> DEFINE row == [team |-> req[s].team, user |-> req[s].user,
                   role |-> IF req[s].op = "CreateTeam" THEN "owner" ELSE "member"]
           team == [team |-> req[s].team, creator |-> req[s].user]
<1>1. /\ members' = members \cup {row}
      /\ invites' = IF req[s].op = "AcceptInvite"
                    THEN {i \in invites : i.code # req[s].code} ELSE invites
      /\ teams' = IF req[s].op = "CreateTeam" THEN teams \cup {team} ELSE teams
      /\ UNCHANGED <<account, issued, mailed>>
  BY DEF Apply, Inv, SlotsInv, TxShape, Admitting
<1>2. /\ row.team = req[s].team /\ row.user = req[s].user
      /\ team.team = req[s].team
      /\ req[s].op \in {"CreateTeam", "AcceptInvite"}
  BY DEF Inv, TypeInv, Serving, InviteCalls
<1> HIDE DEF row
<1>3. TxShape'
  <2>1. CASE pc' = [pc EXCEPT ![s] = "reply"] /\ tx' = [tx EXCEPT ![s] = NoTx] /\ UNCHANGED req
    BY <2>1 DEF Inv, TypeInv, TypeOK, SlotsInv, TxShape, Admitting, NoTx
  <2>2. CASE Finish(s)
    BY <2>2 DEF Inv, TypeInv, TypeOK, SlotsInv, TxShape, Admitting, Finish, NoReq, NoTx
  <2> QED
    BY <2>1, <2>2
<1>4. Admission'
  BY <1>1, <1>2 DEF Inv, TypeInv, TypeOK, SlotsInv, Admission, Admitting, Finish, NoReq, IsMember
<1>5. AcceptKnows'
  BY <1>1 DEF Inv, TypeInv, TypeOK, SlotsInv, AcceptKnows, Finish, NoReq
<1>6. InviteKnows'
  BY <1>1, <1>2 DEF Inv, TypeInv, TypeOK, SlotsInv, InviteKnows, Finish, NoReq, HasRole
<1>7. CreateKnows'
  BY <1>1, <1>2 DEF Inv, TypeInv, TypeOK, SlotsInv, CreateKnows, Finish, NoReq
<1>8. OkReplyIsTrue'
  <2>1. ASSUME NEW o \in Slot \ {s}, pc'[o] = "reply"
        PROVE  pc[o] = "reply" /\ req'[o] = req[o]
    BY <2>1 DEF Inv, TypeInv, TypeOK, Finish
  <2>2. ASSUME NEW o \in Slot, pc[o] = "reply"
        PROVE  /\ req[o].op = "CreateTeam" =>
                     /\ [team |-> req[o].team, creator |-> req[o].user] \in teams'
                     /\ \E m \in members' : m.team = req[o].team /\ m.user = req[o].user
               /\ req[o].op = "Invite" =>
                     \E i \in issued' : i.code = req[o].code /\ i.code \in mailed'
               /\ req[o].op = "AcceptInvite" =>
                     /\ \E m \in members' : m.team = req[o].team /\ m.user = req[o].user
                     /\ \A i \in invites' : i.code # req[o].code
    <3>1. /\ req[o].op = "CreateTeam" =>
                /\ [team |-> req[o].team, creator |-> req[o].user] \in teams
                /\ \E m \in members : m.team = req[o].team /\ m.user = req[o].user
          /\ req[o].op = "Invite" =>
                \E i \in issued : i.code = req[o].code /\ i.code \in mailed
          /\ req[o].op = "AcceptInvite" =>
                /\ \E m \in members : m.team = req[o].team /\ m.user = req[o].user
                /\ \A i \in invites : i.code # req[o].code
      BY <2>2 DEF Inv, SlotsInv, OkReplyIsTrue, ListTeams, IsMember
    <3>2. teams \subseteq teams' /\ members \subseteq members' /\ invites' \subseteq invites
      BY <1>1
    <3> QED
      BY <1>1, <3>1, <3>2
  <2>3. ASSUME pc'[s] = "reply"
        PROVE  /\ req'[s] = req[s]
               /\ req[s].op = "CreateTeam" =>
                     [team |-> req[s].team, creator |-> req[s].user] \in teams'
               /\ \E m \in members' : m.team = req[s].team /\ m.user = req[s].user
               /\ req[s].op = "AcceptInvite" => \A i \in invites' : i.code # req[s].code
    <3>1. req'[s] = req[s]
      BY <2>3 DEF Inv, TypeInv, TypeOK, Finish
    <3>2. row \in members' /\ (req[s].op = "CreateTeam" => team \in teams')
      BY <1>1
    <3> QED
      BY <1>1, <1>2, <3>1, <3>2
  <2> QED
    BY <1>2, <2>1, <2>2, <2>3 DEF OkReplyIsTrue, ListTeams, IsMember
<1> QED
  BY <1>3, <1>4, <1>5, <1>6, <1>7, <1>8 DEF SlotsInv

-----------------------------------------------------------------------------
(* New accounts and crashes.                                                *)

\* A new account has a mailbox of its own, and nobody's mailbox changes.
LEMMA UsersCreateInv ==
    ASSUME Inv, NEW u \in User, NEW e \in Email, UsersCreate(u, e)
    PROVE  TablesInv' /\ SlotsInv'
<1>1. /\ account[u] = None /\ (\A v \in User : account[v] # e) /\ e # None
      /\ account' = [account EXCEPT ![u] = e]
      /\ UNCHANGED <<teams, members, invites, pc, req, tx, issued, uses, mailed>>
  BY TeamsAssumption DEF UsersCreate, Registered, history
<1>2. \A v \in User : account[v] # None => account'[v] = account[v]
  BY <1>1 DEF Inv, TypeInv, TypeOK
<1>3. \A i \in issued, v \in User : Addressee(i, v) => account'[v] = i.email
  BY <1>2, TeamsAssumption DEF Addressee, Inv, TypeInv, TypeOK, InviteRow
<1>4. UniqueMailboxes'
  BY <1>1 DEF Inv, TypeInv, TypeOK, TablesInv, UniqueMailboxes
<1>5. CodeLife' /\ IssuedByManagers'
  BY <1>1 DEF Inv, TablesInv, CodeLife, IssuedByManagers, HasRole
<1>6. SpentCodeMadeMember'
  <2>1. \A i \in issued \ invites : \E v \in User :
           account'[v] = i.email /\ \E m \in members : m.team = i.team /\ m.user = v
    BY <1>3 DEF Inv, TablesInv, SpentCodeMadeMember, IsMember
  <2> QED
    BY <1>1, <2>1 DEF SpentCodeMadeMember, Addressee, IsMember
<1>7. MembersWereInvited'
  <2>1. \A m \in members : m.role # "owner" => \E i \in issued \ invites :
           /\ i.team = m.team /\ account'[m.user] = i.email
           /\ HasRole(i.team, i.inviter, {"owner", "admin"})
    <3>1. \A m \in members : m.user \in User
      BY DEF Inv, TypeInv, TypeOK, MemberRow
    <3> QED
      BY <1>3, <3>1 DEF Inv, TablesInv, MembersWereInvited
  <2> QED
    BY <1>1, <2>1 DEF MembersWereInvited, Addressee, HasRole
<1>8. EveryTeamHasItsOwner'
  BY <1>1 DEF Inv, TablesInv, EveryTeamHasItsOwner, TeamExists
<1>9. TxShape' /\ Admission' /\ CreateKnows'
  BY <1>1 DEF Inv, SlotsInv, TxShape, Admission, CreateKnows, IsMember
<1>10. AcceptKnows'
  <2>1. \A s \in Slot : req[s].op = "AcceptInvite" =>
           account'[req[s].user] = account[req[s].user]
    BY <1>2 DEF Inv, TypeInv, Serving
  <2> QED
    BY <1>1, <2>1 DEF Inv, SlotsInv, AcceptKnows
<1>11. InviteKnows'
  BY <1>1 DEF Inv, SlotsInv, InviteKnows, HasRole
<1>12. OkReplyIsTrue'
  BY <1>1 DEF Inv, SlotsInv, OkReplyIsTrue, ListTeams, IsMember
<1> QED
  BY <1>4, <1>5, <1>6, <1>7, <1>8, <1>9, <1>10, <1>11, <1>12 DEF TablesInv, SlotsInv

\* After a crash nobody holds or knows anything.
LEMMA CrashInv ==
    ASSUME Inv, Crash
    PROVE  TablesInv' /\ SlotsInv'
<1>1. TablesInv'
  BY QuietTables DEF Crash, Inv, tables, history
<1>2. TxShape' /\ Admission'
  BY DEF Crash, TxShape, Admission, NoReq, NoTx, Admitting
<1>3. AcceptKnows' /\ InviteKnows' /\ CreateKnows'
  BY DEF Crash, AcceptKnows, InviteKnows, CreateKnows, NoReq
<1>4. OkReplyIsTrue'
  BY DEF Crash, OkReplyIsTrue
<1> QED
  BY <1>1, <1>2, <1>3, <1>4 DEF SlotsInv

-----------------------------------------------------------------------------
(* The theorems.                                                            *)

\* The invariant holds at the start, of the seeded account and nothing else.
LEMMA InvInitially == Init => Inv
<1> SUFFICES ASSUME Init PROVE Inv
  OBVIOUS
<1>1. TypeInv
  BY TeamsAssumption, RestTyped DEF Init, TypeInv, TypeOK, Serving, NoReq
<1>2. UniqueMailboxes /\ CodeLife /\ IssuedByManagers
  BY TeamsAssumption DEF Init, UniqueMailboxes, CodeLife, IssuedByManagers
<1>3. SpentCodeMadeMember /\ MembersWereInvited /\ EveryTeamHasItsOwner
  BY DEF Init, SpentCodeMadeMember, MembersWereInvited, EveryTeamHasItsOwner
<1>4. TxShape /\ Admission
  BY DEF Init, TxShape, Admission, NoReq, NoTx, Admitting
<1>5. AcceptKnows /\ InviteKnows /\ CreateKnows /\ OkReplyIsTrue
  BY DEF Init, AcceptKnows, InviteKnows, CreateKnows, OkReplyIsTrue, NoReq
<1> QED
  BY <1>1, <1>2, <1>3, <1>4, <1>5 DEF Inv, TablesInv, SlotsInv

\* Every step keeps it.
LEMMA InvInductive == Inv /\ [Next]_vars => Inv'
<1> SUFFICES ASSUME Inv, [Next]_vars PROVE TablesInv' /\ SlotsInv'
  BY TypeInvInductive DEF Inv
<1>1. ASSUME NEW s \in Slot, NEW u \in User, CallCreateTeam(s, u)
      PROVE  TablesInv' /\ SlotsInv'
  <2>1. PICK t \in FreshTeam : Arrive(s, "CreateTeam", "teams.Create", u, t, None, None)
    BY <1>1 DEF CallCreateTeam
  <2>2. SlotsInv'
    BY <2>1, ArriveSlots
  <2>3. TablesInv'
    BY <2>1, QuietTables DEF Arrive, Inv, tables, history
  <2> QED
    BY <2>2, <2>3
<1>2. ASSUME NEW s \in Slot, NEW u \in User, NEW t \in Team, NEW e \in Email,
             CallInvite(s, u, t, e)
      PROVE  TablesInv' /\ SlotsInv'
  <2>1. PICK c \in FreshCode : Arrive(s, "Invite", "teams.Exists", u, t, e, c)
    BY <1>2 DEF CallInvite
  <2>2. SlotsInv'
    BY <2>1, ArriveSlots
  <2>3. TablesInv'
    BY <2>1, QuietTables DEF Arrive, Inv, tables, history
  <2> QED
    BY <2>2, <2>3
<1>3. ASSUME NEW s \in Slot, NEW u \in User, NEW c \in Code, CallAcceptInvite(s, u, c)
      PROVE  TablesInv' /\ SlotsInv'
  BY <1>3, ArriveSlots, QuietTables DEF CallAcceptInvite, Arrive, Inv, tables, history
<1>4. ASSUME NEW s \in Slot, TeamsCreate(s)
      PROVE  TablesInv' /\ SlotsInv'
  BY <1>4, TeamsCreateSlots, QuietTables DEF TeamsCreate, Inv, tables, history
<1>5. ASSUME NEW s \in Slot, MembersAdd(s)
      PROVE  TablesInv' /\ SlotsInv'
  BY <1>5, MembersAddSlots, QuietTables DEF MembersAdd, Inv, tables, history
<1>6. ASSUME NEW s \in Slot, DeleteByCode(s)
      PROVE  TablesInv' /\ SlotsInv'
  BY <1>6, DeleteByCodeSlots, QuietTables DEF DeleteByCode, Inv, tables, history
<1>7. ASSUME NEW s \in Slot, Commit(s) \/ CommitUnheard(s)
      PROVE  TablesInv' /\ SlotsInv'
  <2>1. pc[s] = "tx.Commit" /\ Apply(s)
    BY <1>7 DEF Commit, CommitUnheard
  <2>2. req[s].op \in {"CreateTeam", "AcceptInvite"}
    BY <2>1 DEF Inv, TypeInv, Serving, InviteCalls
  <2>3. TablesInv'
    BY <2>1, <2>2, CreateTables, AcceptTables
  <2>4. SlotsInv'
    BY <1>7, <2>1, CommitSlots DEF Commit, CommitUnheard, Goto
  <2> QED
    BY <2>3, <2>4
<1>8. ASSUME NEW s \in Slot, TeamsExists(s)
      PROVE  TablesInv' /\ SlotsInv'
  BY <1>8, CheckSlots, CheckTables DEF TeamsExists, At, TeamExists, Admitting
<1>9. ASSUME NEW s \in Slot, GetRole(s)
      PROVE  TablesInv' /\ SlotsInv'
  <2> DEFINE ok == HasRole(req[s].team, req[s].user, {"owner", "admin"})
  <2>1. ok \in BOOLEAN
    BY DEF HasRole
  <2> QED
    BY <1>9, <2>1, CheckSlots, CheckTables DEF GetRole, At, Admitting
<1>10. ASSUME NEW s \in Slot, FindIDByEmail(s)
       PROVE  TablesInv' /\ SlotsInv'
  <2>1. HasRole(req[s].team, req[s].user, {"owner", "admin"})
    BY <1>10 DEF FindIDByEmail, At, Inv, SlotsInv, InviteKnows
  <2> QED
    BY <1>10, <2>1, CheckSlots, CheckTables DEF FindIDByEmail, At, Admitting
<1>11. ASSUME NEW s \in Slot, InviteeIsMember(s)
       PROVE  TablesInv' /\ SlotsInv'
  <2>1. HasRole(req[s].team, req[s].user, {"owner", "admin"})
    BY <1>11 DEF InviteeIsMember, At, Inv, SlotsInv, InviteKnows
  <2> QED
    BY <1>11, <2>1, CheckSlots, CheckTables DEF InviteeIsMember, At, Admitting
<1>12. ASSUME NEW s \in Slot, InvitesCreate(s) \/ InvitesCreateUnheard(s)
       PROVE  TablesInv' /\ SlotsInv'
  BY <1>12, InsertTables, InsertSlots DEF InvitesCreate, InvitesCreateUnheard
<1>13. ASSUME NEW s \in Slot, MailerSend(s)
       PROVE  TablesInv' /\ SlotsInv'
  BY <1>13, MailerSendSlots, QuietTables DEF MailerSend, Inv, tables
<1>14. ASSUME NEW s \in Slot, MailerFails(s)
       PROVE  TablesInv' /\ SlotsInv'
  <2>1. Finish(s) /\ UNCHANGED <<tables, issued, uses>> /\ mailed \subseteq mailed'
    BY <1>14 DEF MailerFails
  <2> QED
    BY <2>1, FinishSlots, QuietTables DEF Inv, tables
<1>15. ASSUME NEW s \in Slot, GetByCode(s)
       PROVE  TablesInv' /\ SlotsInv'
  BY <1>15, GetByCodeSlots, QuietTables DEF GetByCode, Inv, tables, history
<1>16. ASSUME NEW s \in Slot, GetEmailByID(s)
       PROVE  TablesInv' /\ SlotsInv'
  BY <1>16, CheckSlots, CheckTables DEF GetEmailByID, At, Admitting
<1>17. ASSUME NEW s \in Slot, AccepterIsMember(s)
       PROVE  TablesInv' /\ SlotsInv'
  <2>1. account[req[s].user] = req[s].email
    BY <1>17 DEF AccepterIsMember, At, Inv, SlotsInv, AcceptKnows
  <2> QED
    BY <1>17, <2>1, CheckSlots, CheckTables DEF AccepterIsMember, At, Admitting
<1>18. ASSUME NEW s \in Slot, Reply(s) \/ DatabaseFails(s)
       PROVE  TablesInv' /\ SlotsInv'
  <2>1. Finish(s) /\ UNCHANGED <<tables, history>>
    BY <1>18 DEF Reply, DatabaseFails
  <2> QED
    BY <2>1, FinishSlots, QuietTables DEF Inv, tables, history
<1>19. ASSUME NEW u \in User, NEW e \in Email, UsersCreate(u, e)
       PROVE  TablesInv' /\ SlotsInv'
  BY <1>19, UsersCreateInv
<1>20. CASE Crash
  BY <1>20, CrashInv
<1>21. CASE UNCHANGED vars
  <2>1. TablesInv'
    BY <1>21, QuietTables DEF vars, Inv, tables, history
  <2>2. TxShape' /\ Admission' /\ AcceptKnows' /\ CreateKnows'
    BY <1>21 DEF vars, tables, history, Inv, SlotsInv, TxShape, Admission, AcceptKnows,
                 CreateKnows, IsMember
  <2>3. InviteKnows' /\ OkReplyIsTrue'
    BY <1>21 DEF vars, tables, history, Inv, SlotsInv, InviteKnows, OkReplyIsTrue, HasRole,
                 IsMember, ListTeams
  <2> QED
    BY <2>1, <2>2, <2>3 DEF SlotsInv
<1> QED
  BY <1>1, <1>2, <1>3, <1>4, <1>5, <1>6, <1>7, <1>8, <1>9, <1>10, <1>11, <1>12, <1>13,
     <1>14, <1>15, <1>16, <1>17, <1>18, <1>19, <1>20, <1>21
     DEF Next, Call, Write, Step, Fault

\* The invariant, every conjunct of it, holds of every reachable state.
LEMMA InvHolds == Spec => []Inv
  BY InvInitially, InvInductive, PTL DEF Spec

\* However many AcceptInvite handlers read a code before any of them writes,
\* at most one of them commits: the others meet the row lock or the primary key
\* of team_members, or find nobody else can own the addressee's mailbox.
THEOREM OneGrant == Spec => []OneGrantPerCode
<1>1. Inv => OneGrantPerCode
  <2> SUFFICES ASSUME Inv, NEW c \in Code PROVE uses[c] <= 1
    BY DEF OneGrantPerCode
  <2>1. uses[c] \in {0, 1}
    BY DEF Inv, TablesInv, CodeLife
  <2> QED
    BY <2>1
<1> QED
  BY <1>1, InvHolds, PTL

\* An invitation that has left team_invites has its addressee in the team.
THEOREM SpentCodesMadeMembers == Spec => []SpentCodeMadeMember
<1>1. Inv => SpentCodeMadeMember
  BY DEF Inv, TablesInv
<1> QED
  BY <1>1, InvHolds, PTL

\* Everybody but a founder spent an invitation to the team, sent to their own
\* mailbox by somebody who runs it.
THEOREM MembersInvited == Spec => []MembersWereInvited
<1>1. Inv => MembersWereInvited
  BY DEF Inv, TablesInv
<1> QED
  BY <1>1, InvHolds, PTL

\* CreateTeam is all or nothing: a team is never seen without its owner.
THEOREM OwnersPresent == Spec => []EveryTeamHasItsOwner
<1>1. Inv => EveryTeamHasItsOwner
  BY DEF Inv, TablesInv
<1> QED
  BY <1>1, InvHolds, PTL

\* A handler about to answer 2xx tells the truth about the committed tables.
THEOREM RepliesTrue == Spec => []OkReplyIsTrue
<1>1. Inv => OkReplyIsTrue
  BY DEF Inv, SlotsInv
<1> QED
  BY <1>1, InvHolds, PTL

-----------------------------------------------------------------------------
(* Teams implements Membership: a commit or an INSERT that stands alone is   *)
(* one deed of Membership, and every other call leaves what Membership sees  *)
(* as it was.                                                               *)

Spent == {c \in Code : uses[c] > 0}

\* A step that writes none of the tables and counts no accept is a stutter.
LEMMA QuietStutters ==
    ASSUME UNCHANGED <<account, teams, members, invites, uses>>
    PROVE  UNCHANGED Promise!state
BY DEF Promise!state

\* The commit of CreateTeam is Found: both rows appear in one step.
LEMMA CommitFounds ==
    ASSUME Inv, NEW s \in Slot, pc[s] = "tx.Commit", Apply(s), req[s].op = "CreateTeam"
    PROVE  Promise!Next
<1> DEFINE t == req[s].team
           u == req[s].user
<1>1. /\ teams' = teams \cup {[team |-> t, creator |-> u]}
      /\ members' = members \cup {[team |-> t, user |-> u, role |-> "owner"]}
      /\ invites' = invites
      /\ UNCHANGED <<account, uses>>
  BY DEF Apply, Inv, SlotsInv, TxShape, Admitting
<1>2. t \in Team /\ u \in User /\ account[u] # None
  BY DEF Inv, TypeInv, Serving
<1>3. \A r \in teams : r.team # t
  BY DEF Inv, SlotsInv, CreateKnows
<1>4. Promise!Found(t, u)
  BY <1>1, <1>2, <1>3 DEF Promise!Found
<1> QED
  BY <1>2, <1>4 DEF Promise!Next

\* The commit of AcceptInvite is Join: the invitation goes, its code is spent
\* and its addressee is in the team, in one step.
LEMMA CommitJoins ==
    ASSUME Inv, NEW s \in Slot, pc[s] = "tx.Commit", Apply(s), req[s].op = "AcceptInvite"
    PROVE  Promise!Next
<1> DEFINE t == req[s].team
           u == req[s].user
           c == req[s].code
<1>1. /\ teams' = teams
      /\ members' = members \cup {[team |-> t, user |-> u, role |-> "member"]}
      /\ invites' = {i \in invites : i.code # c}
      /\ uses' = [uses EXCEPT ![c] = @ + 1]
      /\ UNCHANGED account
  BY DEF Apply, Inv, SlotsInv, TxShape, Admitting
<1>2. u \in User /\ c \in Code
  BY DEF Inv, TypeInv, Serving
<1>3. PICK i \in invites : i.code = c /\ i.team = t /\ Addressee(i, u)
  BY AcceptHoldsInvite
<1>4. ~IsMember(t, u)
  BY DEF Inv, SlotsInv, Admission, Admitting
<1>5. invites' = invites \ {i}
  BY <1>1, <1>3 DEF Inv, TablesInv, CodeLife
<1>6. Spent' = Spent \cup {i.code}
  <2>1. \A d \in Code : uses[d] \in Nat /\ uses'[d] = IF d = c THEN uses[d] + 1 ELSE uses[d]
    BY <1>1, <1>2 DEF Inv, TypeInv, TypeOK
  <2> QED
    BY <1>2, <1>3, <2>1 DEF Spent
<1>7. Promise!Join(i, u)
  BY <1>1, <1>3, <1>4, <1>5, <1>6
     DEF Promise!Join, Promise!InTeam, IsMember, Addressee, Spent
<1>8. \E j \in invites, v \in User : Promise!Join(j, v)
  BY <1>2, <1>7 DEF Promise!Join
<1> QED
  BY <1>8 DEF Promise!Next

\* A commit is one deed, heard of or not.
LEMMA CommitDeed ==
    ASSUME Inv, NEW s \in Slot, pc[s] = "tx.Commit", Apply(s)
    PROVE  Promise!Next
<1>1. req[s].op \in {"CreateTeam", "AcceptInvite"}
  BY DEF Inv, TypeInv, Serving, InviteCalls
<1> QED
  BY <1>1, CommitFounds, CommitJoins

\* The INSERT of an invitation is Offer: the inviter still runs the team and
\* the code is still unheard of, however long ago the handler looked.
LEMMA InsertOffers ==
    ASSUME Inv, NEW s \in Slot, InsertInvite(s)
    PROVE  Promise!Next
<1> DEFINE t == req[s].team
           u == req[s].user
           e == req[s].email
           c == req[s].code
<1>1. /\ pc[s] = "invites.Create" /\ req[s].op = "Invite"
      /\ invites' = invites \cup {[team |-> t, email |-> e, inviter |-> u, code |-> c]}
      /\ UNCHANGED <<account, teams, members, uses>>
  BY DEF InsertInvite, At
<1>2. t \in Team /\ u \in User /\ e \in Email /\ c \in Code
  BY <1>1 DEF Inv, TypeInv, Serving
<1>3. Promise!Runs(t, u)
  BY <1>1 DEF Inv, SlotsInv, InviteKnows, HasRole, Promise!Runs
<1>4. \A i \in issued : i.code # c
  BY <1>1 DEF Inv, SlotsInv, InviteKnows
<1>5. c \notin Spent /\ \A i \in invites : i.code # c
  BY <1>2, <1>4 DEF Inv, TablesInv, CodeLife, Spent
<1>6. Promise!Offer(t, u, e, c)
  BY <1>1, <1>3, <1>5 DEF Promise!Offer, Spent
<1> QED
  BY <1>2, <1>6 DEF Promise!Next

\* A registration is Register.
LEMMA UsersCreateRegisters ==
    ASSUME NEW u \in User, NEW e \in Email, UsersCreate(u, e)
    PROVE  Promise!Next
<1>1. Promise!Register(u, e)
  BY DEF UsersCreate, Registered, history, Promise!Register
<1> QED
  BY <1>1 DEF Promise!Next

\* Every step of Teams is a deed of Membership or a stutter.
LEMMA StepSimulates ==
    ASSUME Inv, [Next]_vars
    PROVE  [Promise!Next]_(Promise!state)
<1>1. ASSUME NEW s \in Slot, Call(s)
      PROVE  UNCHANGED Promise!state
  BY <1>1, QuietStutters
     DEF Call, CallCreateTeam, CallInvite, CallAcceptInvite, Arrive, tables, history
<1>2. ASSUME NEW s \in Slot, Write(s)
      PROVE  UNCHANGED Promise!state
  BY <1>2, QuietStutters DEF Write, MembersAdd, DeleteByCode, tables, history
<1>3. ASSUME NEW s \in Slot, Commit(s) \/ CommitUnheard(s)
      PROVE  Promise!Next
  BY <1>3, CommitDeed DEF Commit, CommitUnheard
<1>4. ASSUME NEW s \in Slot, InvitesCreate(s) \/ InvitesCreateUnheard(s)
      PROVE  Promise!Next
  BY <1>4, InsertOffers DEF InvitesCreate, InvitesCreateUnheard
<1>5. ASSUME NEW s \in Slot,
             \/ TeamsExists(s) \/ GetRole(s) \/ FindIDByEmail(s) \/ InviteeIsMember(s)
             \/ GetEmailByID(s) \/ AccepterIsMember(s)
      PROVE  UNCHANGED Promise!state
  <2>1. UNCHANGED <<tables, history>>
    BY <1>5 DEF TeamsExists, GetRole, FindIDByEmail, InviteeIsMember, GetEmailByID,
                AccepterIsMember, Check
  <2> QED
    BY <2>1, QuietStutters DEF tables, history
<1>6. ASSUME NEW s \in Slot,
             TeamsCreate(s) \/ GetByCode(s) \/ Reply(s) \/ DatabaseFails(s)
      PROVE  UNCHANGED Promise!state
  <2>1. UNCHANGED <<tables, history>>
    BY <1>6 DEF TeamsCreate, GetByCode, Reply, DatabaseFails
  <2> QED
    BY <2>1, QuietStutters DEF tables, history
<1>7. ASSUME NEW s \in Slot, MailerSend(s) \/ MailerFails(s)
      PROVE  UNCHANGED Promise!state
  BY <1>7, QuietStutters DEF MailerSend, MailerFails, tables
<1>8. ASSUME NEW u \in User, NEW e \in Email, UsersCreate(u, e)
      PROVE  Promise!Next
  BY <1>8, UsersCreateRegisters
<1>9. CASE Crash
  BY <1>9, QuietStutters DEF Crash, tables, history
<1>10. CASE UNCHANGED vars
  BY <1>10, QuietStutters DEF vars, tables, history
<1> QED
  BY <1>1, <1>2, <1>3, <1>4, <1>5, <1>6, <1>7, <1>8, <1>9, <1>10 DEF Next, Step, Fault

\* Without handlers, transactions and locks, the tables move by indivisible
\* deeds only: a team is founded with its owner, and a code is spent in the
\* very step that admits its addressee.
THEOREM TeamsImplementsMembership == Spec => ImplementsMembership
<1>1. Init => Promise!Init
  BY DEF Init, Promise!Init
<1>2. Inv /\ [Next]_vars => [Promise!Next]_(Promise!state)
  BY StepSimulates
<1> QED
  BY <1>1, <1>2, InvHolds, PTL DEF Spec, ImplementsMembership, Promise!Spec
=============================================================================
