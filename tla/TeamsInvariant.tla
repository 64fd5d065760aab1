--------------------------- MODULE TeamsInvariant ---------------------------
(***************************************************************************)
(* The inductive invariant of Teams: what a handler knows at each of its   *)
(* calls, and how that knowledge stays true while other handlers run.      *)
(***************************************************************************)
EXTENDS Teams

Admitting == {"invites.DeleteByCode", "tx.Commit"}

\* A handler makes the calls of its operation, for a registered caller and
\* with the arguments the operation has.
Serving ==
    \A s \in Slot :
        \/ req[s].op = "none" /\ pc[s] = "idle"
        \/ /\ req[s].user \in User
           /\ account[req[s].user] # None
           /\ \/ /\ req[s].op = "CreateTeam" /\ pc[s] \in CreateTeamCalls
                 /\ req[s].team \in Team
              \/ /\ req[s].op = "Invite" /\ pc[s] \in InviteCalls
                 /\ req[s].team \in Team /\ req[s].email \in Email /\ req[s].code \in Code
              \/ /\ req[s].op = "AcceptInvite" /\ pc[s] \in AcceptInviteCalls
                 /\ req[s].code \in Code
                 /\ pc[s] # "invites.GetByCode" =>
                       req[s].team \in Team /\ req[s].email \in Email

\* An email is the mailbox of at most one account (uq_users_email).
UniqueMailboxes ==
    \A u, v \in User : account[u] # None /\ account[u] = account[v] => u = v

\* A transaction holds exactly the rows its handler has written so far.
TxShape ==
    \A s \in Slot :
        /\ tx[s].teams = IF /\ req[s].op = "CreateTeam"
                            /\ pc[s] \in {"members.Add", "tx.Commit"}
                         THEN {[team |-> req[s].team, creator |-> req[s].user]} ELSE {}
        /\ tx[s].members = IF pc[s] \in Admitting
                           THEN {[team |-> req[s].team, user |-> req[s].user,
                                  role |-> IF req[s].op = "CreateTeam"
                                           THEN "owner" ELSE "member"]} ELSE {}
        /\ tx[s].spent = IF req[s].op = "AcceptInvite" /\ pc[s] = "tx.Commit"
                         THEN {req[s].code} ELSE {}

\* The primary key of team_members, over committed and uncommitted rows: a
\* handler past its INSERT is the only one admitting that user to that team.
Admission ==
    \A s \in Slot : pc[s] \in Admitting =>
        /\ ~IsMember(req[s].team, req[s].user)
        /\ \A o \in Slot \ {s} : pc[o] \in Admitting =>
              ~(req[o].team = req[s].team /\ req[o].user = req[s].user)

\* The life of a code: not issued, issued and unused, or used once and gone.
CodeLife ==
    /\ invites \subseteq issued
    /\ \A i, j \in issued : i.code = j.code => i = j
    /\ \A c \in Code : (\A i \in issued : i.code # c) => uses[c] = 0
    /\ \A i \in invites : uses[i.code] = 0
    /\ \A i \in issued \ invites : uses[i.code] = 1

\* Invitations were issued by somebody who runs the team.
IssuedByManagers ==
    \A i \in issued : HasRole(i.team, i.inviter, {"owner", "admin"})

\* What AcceptInvite has learnt: the invitation behind its code, then that the
\* caller is the addressee.
AcceptKnows ==
    \A s \in Slot : req[s].op = "AcceptInvite" /\ pc[s] # "invites.GetByCode" =>
        /\ \E i \in issued : /\ i.code = req[s].code /\ i.team = req[s].team
                             /\ i.email = req[s].email
        /\ pc[s] # "users.GetEmailByID" =>
              account[req[s].user] = req[s].email

\* What Invite has learnt: that the caller runs the team; its code is new.
InviteKnows ==
    \A s \in Slot : req[s].op = "Invite" =>
        /\ pc[s] \in {"users.FindIDByEmail", "members.IsMember", "invites.Create"} =>
              HasRole(req[s].team, req[s].user, {"owner", "admin"})
        /\ pc[s] \notin {"mailer.Send", "reply"} =>
              \A i \in issued : i.code # req[s].code
        /\ pc[s] \in {"mailer.Send", "reply"} =>
              \E i \in issued : i.code = req[s].code
        /\ \A o \in Slot \ {s} : req[o].op = "Invite" => req[o].code # req[s].code

\* What CreateTeam has learnt: nobody else has its team's id.
CreateKnows ==
    \A s \in Slot : req[s].op = "CreateTeam" =>
        /\ pc[s] # "reply" => \A r \in teams : r.team # req[s].team
        /\ \A o \in Slot \ {s} : req[o].op = "CreateTeam" => req[o].team # req[s].team

\* Types, and what each operation has for arguments.
TypeInv == TypeOK /\ Serving

\* The parts of the invariant that are about the tables alone ...
TablesInv ==
    /\ UniqueMailboxes
    /\ CodeLife
    /\ IssuedByManagers
    /\ SpentCodeMadeMember
    /\ MembersWereInvited
    /\ EveryTeamHasItsOwner

\* ... and those about what the handlers hold and know.
SlotsInv ==
    /\ TxShape
    /\ Admission
    /\ AcceptKnows
    /\ InviteKnows
    /\ CreateKnows
    /\ OkReplyIsTrue

Inv == TypeInv /\ TablesInv /\ SlotsInv
=============================================================================
