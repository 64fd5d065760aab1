------------------------------ MODULE Reports ------------------------------
(***************************************************************************)
(* The reports service (internal/service/reports, repo/mysql/reports.go):  *)
(* three reports over the teams, members and tasks, while other requests   *)
(* found and join teams and create, close and reopen tasks.                *)
(*                                                                         *)
(* A report is one SELECT, which sees one state of the tables; it is       *)
(* translated join by join and group by group.  Reports write nothing and  *)
(* do not disturb each other, so one request at a time is enough.          *)
(*                                                                         *)
(* The clock counts days, and one clock serves the service and MySQL: the  *)
(* service writes UTC, and the session is taken to run in UTC too.         *)
(***************************************************************************)
EXTENDS Integers, FiniteSets, Sequences, SequencesExt

CONSTANTS
    User, Team, Task,
    None,         \* SQL's NULL, or a month that was not given
    TopN,         \* creators a team is listed with
    Window,       \* days a closed task counts in the summary
    MonthDays,    \* days of a month
    MaxDay,       \* bound on the clock
    MaxAssigned,  \* bound on the tasks with an assignee
    MaxDone       \* bound on the tasks done at once

ASSUME ReportsAssumption ==
    /\ None \notin User \cup Team \cup Task \cup Nat
    /\ TopN \in Nat \ {0} /\ MonthDays \in Nat \ {0}
    /\ {Window, MaxDay, MaxAssigned, MaxDone} \subseteq Nat

VARIABLES
    members,   \* team_members, by team; DOMAIN: the table teams
    tasks,     \* table tasks
    today,     \* the clock
    report,    \* the answer to a request, until it is sent
    byHand     \* history variable: tasks that came in past the service

tables == <<members, tasks, byHand>>
vars   == <<tables, today, report>>

Day   == 0..MaxDay
Month(day) == day \div MonthDays
Row   == [team : Team, creator : User, assignee : User \cup {None}, created : Day,
          status : {"todo", "done"}, completed : Day \cup {None}]
NoReport == [kind |-> "none", month |-> None, rows |-> {}]

TypeOK ==
    /\ DOMAIN members \subseteq Team /\ \A t \in DOMAIN members : members[t] \subseteq User
    /\ DOMAIN tasks \subseteq Task /\ \A k \in DOMAIN tasks :
           tasks[k] \in Row /\ tasks[k].team \in DOMAIN members
    /\ today \in Day
    /\ report.kind \in {"none", "summary", "creators", "invalid"}
    /\ report.month \in {None} \cup {Month(d) : d \in Day}
    /\ report.month # None <=> report.kind = "creators"
    /\ byHand \subseteq DOMAIN tasks

-----------------------------------------------------------------------------
(* The three queries.                                                       *)

\* What LEFT JOIN finds: the matching rows, or a single NULL.
OrNull(S) == IF S = {} THEN {None} ELSE S

\* teams LEFT JOIN team_members LEFT JOIN tasks: each member with each task.
Joined(t) ==
    [member : OrNull(members[t]),
     task : OrNull({k \in DOMAIN tasks : tasks[k].team = t})]

DoneLately(k) ==
    /\ k # None
    /\ tasks[k].status = "done"
    /\ tasks[k].completed + Window >= today

\* Variant: COUNT without DISTINCT counts a member once per task.
SummaryRowOfPairs(t) ==
    [team |-> t,
     members |-> Cardinality({r \in Joined(t) : r.member # None}),
     done |-> Cardinality({r \in Joined(t) : DoneLately(r.task)})]

SummaryRow(t) ==
    [team |-> t,
     members |-> Cardinality({r.member : r \in Joined(t)} \ {None}),
     done |-> Cardinality({r.task : r \in {q \in Joined(t) : DoneLately(q.task)}})]

\* GROUP BY t.id: a group for each team the join has rows of.
TeamSummary == {SummaryRow(t) : t \in {u \in DOMAIN members : Joined(u) # {}}}

\* The inner query: tasks of the month, by team and creator.
Counted(month) ==
    LET of == {k \in DOMAIN tasks : Month(tasks[k].created) = month}
    IN  {[team |-> p[1], user |-> p[2],
          tasks |-> Cardinality({k \in of : tasks[k].team = p[1] /\ tasks[k].creator = p[2]})] :
            p \in {<<tasks[k].team, tasks[k].creator>> : k \in of}}

\* Variant: one numbering for all teams.
PeersOfAll(r, rows) == rows

\* PARTITION BY t.id.
Peers(r, rows) == {q \in rows : q.team = r.team}

\* ROW_NUMBER() OVER (... ORDER BY tasks_created DESC): equals in any order.
RowNumbers(rows) ==
    {rn \in [rows -> 1..Cardinality(rows)] :
        \A r \in rows :
            /\ rn[r] <= Cardinality(Peers(r, rows))
            /\ \A q \in Peers(r, rows) \ {r} :
                  rn[q] # rn[r] /\ (q.tasks > r.tasks => rn[q] < rn[r])}

\* ORDER BY tasks_created DESC: the rows of one team, equals in any order.
InOrder(rows) ==
    {s \in SetToSeqs(rows) : \A i, j \in DOMAIN s : i < j => s[i].tasks >= s[j].tasks}

\* ORDER BY team_id first, and the service collects each team's rows as they come.
Grouped(rows) ==
    LET teams == {r.team : r \in rows}
        of(t) == {r \in rows : r.team = t}
    IN  {lists \in [teams -> UNION {InOrder(of(t)) : t \in teams}] :
            \A t \in teams : lists[t] \in InOrder(of(t))}

TopCreators(month) ==
    LET rows == Counted(month)
    IN  UNION {Grouped({r \in rows : rn[r] <= TopN}) : rn \in RowNumbers(rows)}

\* Variant: a member of any team will do.
InvalidAssigneesOfNoTeam ==
    {k \in DOMAIN tasks : /\ tasks[k].assignee # None
                          /\ \A t \in DOMAIN members : tasks[k].assignee \notin members[t]}

InvalidAssignees ==
    {k \in DOMAIN tasks : /\ tasks[k].assignee # None
                          /\ tasks[k].assignee \notin members[tasks[k].team]}

-----------------------------------------------------------------------------
(* The requests.                                                            *)

\* One of the rows the query may return; a query that fails leaves no answer.
Answer(kind, month, results) ==
    /\ report.kind = "none"
    /\ \E rows \in results : report' = [kind |-> kind, month |-> month, rows |-> rows]
    /\ UNCHANGED <<tables, today>>

GetTeamSummary      == Answer("summary", None, {TeamSummary})
GetInvalidAssignees == Answer("invalid", None, {InvalidAssignees})

\* Without a month the handler takes the current one; should the next begin
\* before the query runs, that is a request for the month that is over.
GetTopCreators ==
    \E asked \in {None} \cup {Month(d) : d \in Day} :
        LET month == IF asked = None THEN Month(today) ELSE asked
        IN  Answer("creators", month, TopCreators(month))

Reply ==
    /\ report.kind # "none"
    /\ report' = NoReport
    /\ UNCHANGED <<tables, today>>

-----------------------------------------------------------------------------
(* What the other services do to the tables, and time.  While an answer is  *)
(* on its way nothing that happens concerns it.                             *)

Elsewhere == report.kind = "none" /\ UNCHANGED report

Found(t, u) ==
    /\ Elsewhere
    /\ t \notin DOMAIN members
    /\ members' = [x \in DOMAIN members \cup {t} |-> IF x = t THEN {u} ELSE members[x]]
    /\ UNCHANGED <<tasks, today, byHand>>

Join(t, u) ==
    /\ Elsewhere
    /\ t \in DOMAIN members
    /\ u \notin members[t]
    /\ members' = [members EXCEPT ![t] = @ \cup {u}]
    /\ UNCHANGED <<tasks, today, byHand>>

\* By the service if the assignee is in the team; the report exists for the
\* rows that come in by another way, as in its test.
CreateTask(k, t, u, assignee) ==
    /\ Elsewhere
    /\ k \notin DOMAIN tasks
    /\ t \in DOMAIN members
    /\ u \in members[t]
    /\ assignee # None => Cardinality({x \in DOMAIN tasks : tasks[x].assignee # None}) < MaxAssigned
    /\ tasks' = [x \in DOMAIN tasks \cup {k} |->
          IF x = k THEN [team |-> t, creator |-> u, assignee |-> assignee, created |-> today,
                         status |-> "todo", completed |-> None]
          ELSE tasks[x]]
    /\ byHand' = IF assignee \in members[t] \cup {None} THEN byHand ELSE byHand \cup {k}
    /\ UNCHANGED <<members, today>>

\* Any edit of a done task dates it anew.
Close(k) ==
    /\ Elsewhere
    /\ k \in DOMAIN tasks
    /\ Cardinality({x \in DOMAIN tasks \ {k} : tasks[x].status = "done"}) < MaxDone
    /\ tasks' = [tasks EXCEPT ![k].status = "done", ![k].completed = today]
    /\ UNCHANGED <<members, today, byHand>>

Reopen(k) ==
    /\ Elsewhere
    /\ k \in DOMAIN tasks
    /\ tasks[k].status = "done"
    /\ tasks' = [tasks EXCEPT ![k].status = "todo", ![k].completed = None]
    /\ UNCHANGED <<members, today, byHand>>

NextDay ==
    /\ Elsewhere
    /\ today < MaxDay
    /\ today' = today + 1
    /\ UNCHANGED tables

-----------------------------------------------------------------------------
Init ==
    /\ members = <<>>
    /\ tasks = <<>>
    /\ today = 0
    /\ report = NoReport
    /\ byHand = {}

Next ==
    \/ GetTeamSummary \/ GetInvalidAssignees \/ GetTopCreators \/ Reply
    \/ \E t \in Team, u \in User : Found(t, u) \/ Join(t, u)
    \/ \E k \in Task, t \in Team, u \in User, a \in User \cup {None} : CreateTask(k, t, u, a)
    \/ \E k \in Task : Close(k) \/ Reopen(k)
    \/ NextDay

Spec == Init /\ [][Next]_vars

-----------------------------------------------------------------------------
(* Properties.  Each compares an answer with the tables it was read from.   *)

Answers(kind) == report.kind = "none" /\ report'.kind = kind

DoneInWindow(t) ==
    {k \in DOMAIN tasks : /\ tasks[k].team = t
                          /\ tasks[k].status = "done"
                          /\ today - tasks[k].completed \in 0..Window}

\* The summary has one row for every team, the empty ones too, and counts each
\* member and each task done in the window once, although the joins pair every
\* member with every task.
SummaryIsExact ==
    [][Answers("summary") =>
         report'.rows = {[team |-> t, members |-> Cardinality(members[t]),
                          done |-> Cardinality(DoneInWindow(t))] : t \in DOMAIN members}]_vars

Made(t, u, month) ==
    Cardinality({k \in DOMAIN tasks : /\ tasks[k].team = t /\ tasks[k].creator = u
                                      /\ Month(tasks[k].created) = month})

\* Each team is listed with its TopN busiest creators of the month, busiest
\* first and with what they made; whoever is left out made no more than any of
\* them, and nobody is left out for want of room in another team's list.
CreatorsAreTheBusiest ==
    [][Answers("creators") =>
         \A t \in DOMAIN members :
             LET made(u) == Made(t, u, report'.month)
                 makers == {u \in User : made(u) > 0}
                 list == IF t \in DOMAIN report'.rows THEN report'.rows[t] ELSE <<>>
                 listed == {list[i].user : i \in DOMAIN list}
             IN  /\ listed \subseteq makers
                 /\ Len(list) = Cardinality(listed)
                 /\ Len(list) <= TopN
                 /\ listed = makers \/ Len(list) = TopN
                 /\ \A i \in DOMAIN list : list[i].tasks = made(list[i].user)
                 /\ \A i, j \in DOMAIN list : i < j => list[i].tasks >= list[j].tasks
                 /\ \A u \in makers \ listed, v \in listed : made(u) <= made(v)]_vars

\* The third report shows the tasks that came in past the service for somebody
\* outside the team and who has not joined it since, and no others: a task the
\* service created never appears.  (And the state stays well typed.)
OnlyRowsByHandAreInvalid ==
    /\ TypeOK
    /\ report.kind = "invalid" =>
         report.rows = {k \in byHand : tasks[k].assignee \notin members[tasks[k].team]}
=============================================================================
