---------------------------- MODULE ReportsProofs ----------------------------
(***************************************************************************)
(* Theorems about Reports, for every set of users, teams and tasks, any    *)
(* window and any length of a month.                                       *)
(***************************************************************************)
EXTENDS Reports, FiniteSetTheorems, TLAPS

-----------------------------------------------------------------------------
(* The inductive invariant.                                                 *)

\* A task whose assignee is not in its team came in past the service, and what
\* came in past the service has an assignee.
Assigned ==
    \A k \in DOMAIN tasks :
        /\ tasks[k].assignee # None /\ tasks[k].assignee \notin members[tasks[k].team] => k \in byHand
        /\ k \in byHand => tasks[k].assignee # None

\* A done task has a date, which is not in the future.
Dated == \A k \in DOMAIN tasks : tasks[k].status = "done" => tasks[k].completed \in 0..today

\* While an answer is on its way it stays true.
InvalidIsExact ==
    report.kind = "invalid" =>
        report.rows = {k \in byHand : tasks[k].assignee \notin members[tasks[k].team]}

IInv == TypeOK /\ IsFiniteSet(DOMAIN tasks) /\ Assigned /\ Dated /\ InvalidIsExact

-----------------------------------------------------------------------------
(* The answers.                                                             *)

LEMMA MonthIsNat == \A d \in Day : Month(d) \in Nat /\ Month(d) # None
<1>1. MonthDays \in Nat \ {0} /\ MaxDay \in Nat /\ None \notin Nat
  BY ReportsAssumption
<1>2. ASSUME NEW d \in Day PROVE d \div MonthDays \in Nat
  <2>1. d \in Nat
    BY <1>1 DEF Day
  <2>2. d \div MonthDays \in Int /\ MonthDays * (d \div MonthDays) <= d
        /\ d < MonthDays * (d \div MonthDays) + MonthDays
    BY <1>1, <2>1
  <2> QED
    BY <1>1, <2>1, <2>2
<1> QED
  BY <1>1, <1>2 DEF Month

ReportTyped(r) ==
    /\ r.kind \in {"none", "summary", "creators", "invalid"}
    /\ r.month \in {None} \cup {Month(d) : d \in Day}
    /\ r.month # None <=> r.kind = "creators"

\* Steps that leave the tables and the clock alone.
LEMMA AnswerKeeps ==
    ASSUME IInv, UNCHANGED <<tables, today>>, ReportTyped(report)',
           report'.kind = "invalid" => report'.rows = InvalidAssignees
    PROVE  IInv'
<1>1. members' = members /\ tasks' = tasks /\ byHand' = byHand /\ today' = today
  BY DEF tables
<1>2. TypeOK'
  BY <1>1 DEF IInv, TypeOK, ReportTyped
<1>3. Assigned' /\ Dated'
  BY <1>1 DEF IInv, Assigned, Dated
<1>4. InvalidAssignees = {k \in byHand : tasks[k].assignee \notin members[tasks[k].team]}
  BY DEF IInv, TypeOK, Assigned, InvalidAssignees
<1>5. InvalidIsExact'
  BY <1>1, <1>4 DEF InvalidIsExact
<1> QED
  BY <1>1, <1>2, <1>3, <1>5 DEF IInv

LEMMA AnswersKeep ==
    ASSUME IInv, GetTeamSummary \/ GetInvalidAssignees \/ GetTopCreators \/ Reply
    PROVE  IInv'
<1>1. UNCHANGED <<tables, today>>
  BY DEF GetTeamSummary, GetInvalidAssignees, GetTopCreators, Reply, Answer
<1>2. CASE GetTeamSummary
  <2>1. report'.kind = "summary" /\ report'.month = None
    BY <1>2 DEF GetTeamSummary, Answer
  <2> QED
    BY <1>1, <2>1, AnswerKeeps DEF ReportTyped
<1>3. CASE GetInvalidAssignees
  <2>1. report'.kind = "invalid" /\ report'.month = None /\ report'.rows = InvalidAssignees
    BY <1>3 DEF GetInvalidAssignees, Answer
  <2> QED
    BY <1>1, <2>1, AnswerKeeps DEF ReportTyped
<1>4. CASE GetTopCreators
  <2>1. PICK month \in {Month(d) : d \in Day} : report'.kind = "creators" /\ report'.month = month
    <3>1. today \in Day
      BY DEF IInv, TypeOK
    <3> QED
      BY <1>4, <3>1 DEF GetTopCreators, Answer
  <2>2. month # None
    BY MonthIsNat
  <2> QED
    BY <1>1, <2>1, <2>2, AnswerKeeps DEF ReportTyped
<1>5. CASE Reply
  <2>1. report'.kind = "none" /\ report'.month = None
    BY <1>5 DEF Reply, NoReport
  <2> QED
    BY <1>1, <2>1, AnswerKeeps DEF ReportTyped
<1> QED
  BY <1>2, <1>3, <1>4, <1>5

-----------------------------------------------------------------------------
(* What happens elsewhere.                                                  *)

LEMMA ElsewhereKeeps ==
    ASSUME IInv, Elsewhere, Assigned', Dated', IsFiniteSet(DOMAIN tasks'), today' \in Day, byHand' \subseteq DOMAIN tasks',
           DOMAIN members' \subseteq Team, \A t \in DOMAIN members' : members'[t] \subseteq User,
           DOMAIN tasks' \subseteq Task,
           \A k \in DOMAIN tasks' : tasks'[k] \in Row /\ tasks'[k].team \in DOMAIN members'
    PROVE  IInv'
<1>1. report' = report /\ report.kind = "none"
  BY DEF Elsewhere
<1>2. TypeOK'
  BY <1>1 DEF IInv, TypeOK
<1>3. InvalidIsExact'
  BY <1>1 DEF InvalidIsExact
<1> QED
  BY <1>2, <1>3 DEF IInv

LEMMA FoundKeeps ==
    ASSUME IInv, NEW t \in Team, NEW u \in User, Found(t, u)
    PROVE  IInv'
<1>1. /\ Elsewhere /\ t \notin DOMAIN members /\ tasks' = tasks /\ today' = today /\ byHand' = byHand
      /\ members' = [x \in DOMAIN members \cup {t} |-> IF x = t THEN {u} ELSE members[x]]
  BY DEF Found
<1>2. TypeOK /\ Assigned /\ Dated /\ IsFiniteSet(DOMAIN tasks)
  BY DEF IInv
<1>3. /\ DOMAIN members' = DOMAIN members \cup {t}
      /\ \A x \in DOMAIN members : members'[x] = members[x]
      /\ members'[t] = {u}
  BY <1>1
<1>4. Assigned'
  BY <1>1, <1>2, <1>3 DEF Assigned, TypeOK
<1>5. Dated'
  BY <1>1, <1>2 DEF Dated
<1> QED
  BY <1>1, <1>2, <1>3, <1>4, <1>5, ElsewhereKeeps DEF TypeOK

LEMMA JoinKeeps ==
    ASSUME IInv, NEW t \in Team, NEW u \in User, Join(t, u)
    PROVE  IInv'
<1>1. /\ Elsewhere /\ t \in DOMAIN members /\ tasks' = tasks /\ today' = today /\ byHand' = byHand
      /\ members' = [members EXCEPT ![t] = @ \cup {u}]
  BY DEF Join
<1>2. TypeOK /\ Assigned /\ Dated /\ IsFiniteSet(DOMAIN tasks)
  BY DEF IInv
<1>3. /\ DOMAIN members' = DOMAIN members
      /\ \A x \in DOMAIN members : members'[x] = IF x = t THEN members[t] \cup {u} ELSE members[x]
  BY <1>1
<1>4. Assigned'
  BY <1>1, <1>2, <1>3 DEF Assigned, TypeOK
<1>5. Dated'
  BY <1>1, <1>2 DEF Dated
<1> QED
  BY <1>1, <1>2, <1>3, <1>4, <1>5, ElsewhereKeeps DEF TypeOK

LEMMA CreateTaskKeeps ==
    ASSUME IInv, NEW k \in Task, NEW t \in Team, NEW u \in User, NEW a \in User \cup {None},
           CreateTask(k, t, u, a)
    PROVE  IInv'
<1> DEFINE row == [team |-> t, creator |-> u, assignee |-> a, created |-> today,
                   status |-> "todo", completed |-> None]
<1>1. /\ Elsewhere /\ k \notin DOMAIN tasks /\ t \in DOMAIN members
      /\ members' = members /\ today' = today
      /\ tasks' = [x \in DOMAIN tasks \cup {k} |-> IF x = k THEN row ELSE tasks[x]]
      /\ byHand' = IF a \in members[t] \cup {None} THEN byHand ELSE byHand \cup {k}
  BY DEF CreateTask
<1>2. TypeOK /\ Assigned /\ Dated /\ IsFiniteSet(DOMAIN tasks)
  BY DEF IInv
<1>3. row \in Row /\ row.team = t /\ row.assignee = a /\ row.status = "todo"
  BY <1>2 DEF Row, TypeOK
<1> HIDE DEF row
<1>4. /\ DOMAIN tasks' = DOMAIN tasks \cup {k} /\ tasks'[k] = row
      /\ \A x \in DOMAIN tasks : x # k /\ tasks'[x] = tasks[x]
  BY <1>1
<1>5. k \notin byHand
  BY <1>1, <1>2 DEF TypeOK
<1>6. Assigned'
  BY <1>1, <1>2, <1>3, <1>4, <1>5 DEF Assigned
<1>7. Dated'
  BY <1>1, <1>2, <1>3, <1>4 DEF Dated
<1>8. IsFiniteSet(DOMAIN tasks')
  BY <1>2, <1>4, FS_AddElement
<1> QED
  BY <1>1, <1>2, <1>3, <1>4, <1>6, <1>7, <1>8, ElsewhereKeeps DEF TypeOK

\* Closing or reopening a task touches neither its team nor its assignee.
LEMMA RedatedKeeps ==
    ASSUME IInv, Elsewhere, NEW k \in DOMAIN tasks, NEW row \in Row,
           row.team = tasks[k].team, row.assignee = tasks[k].assignee,
           row.status = "done" => row.completed \in 0..today,
           tasks' = [tasks EXCEPT ![k] = row], UNCHANGED <<members, today, byHand>>
    PROVE  IInv'
<1>1. /\ DOMAIN tasks' = DOMAIN tasks
      /\ \A x \in DOMAIN tasks : tasks'[x] = IF x = k THEN row ELSE tasks[x]
  OBVIOUS
<1>2. TypeOK /\ Assigned /\ Dated /\ IsFiniteSet(DOMAIN tasks)
  BY DEF IInv
<1>3. Assigned'
  BY <1>1, <1>2 DEF Assigned
<1>4. Dated'
  BY <1>1, <1>2 DEF Dated
<1> QED
  BY <1>1, <1>2, <1>3, <1>4, ElsewhereKeeps DEF TypeOK

LEMMA CloseKeeps ==
    ASSUME IInv, NEW k \in Task, Close(k)
    PROVE  IInv'
<1> DEFINE row == [tasks[k] EXCEPT !.status = "done", !.completed = today]
<1>1. k \in DOMAIN tasks /\ Elsewhere /\ UNCHANGED <<members, today, byHand>>
  BY DEF Close
<1>2. tasks[k] \in Row /\ today \in Day
  BY <1>1 DEF IInv, TypeOK
<1>3. /\ row \in Row /\ row.team = tasks[k].team /\ row.assignee = tasks[k].assignee
      /\ row.completed = today
  BY <1>2 DEF Row
<1>4. tasks' = [tasks EXCEPT ![k] = row]
  BY <1>1, <1>2 DEF Close, Row
<1>5. today \in 0..today
  BY <1>2, ReportsAssumption DEF Day
<1> HIDE DEF row
<1> QED
  BY <1>1, <1>3, <1>4, <1>5, RedatedKeeps

LEMMA ReopenKeeps ==
    ASSUME IInv, NEW k \in Task, Reopen(k)
    PROVE  IInv'
<1> DEFINE row == [tasks[k] EXCEPT !.status = "todo", !.completed = None]
<1>1. k \in DOMAIN tasks /\ Elsewhere /\ UNCHANGED <<members, today, byHand>>
  BY DEF Reopen
<1>2. tasks[k] \in Row
  BY <1>1 DEF IInv, TypeOK
<1>3. /\ row \in Row /\ row.team = tasks[k].team /\ row.assignee = tasks[k].assignee
      /\ row.status = "todo"
  BY <1>2 DEF Row
<1>4. tasks' = [tasks EXCEPT ![k] = row]
  BY <1>1, <1>2 DEF Reopen, Row
<1> HIDE DEF row
<1> QED
  BY <1>1, <1>3, <1>4, RedatedKeeps

LEMMA NextDayKeeps ==
    ASSUME IInv, NextDay
    PROVE  IInv'
<1>1. /\ Elsewhere /\ members' = members /\ tasks' = tasks /\ byHand' = byHand
      /\ today' = today + 1 /\ today < MaxDay
  BY DEF NextDay, tables
<1>2. TypeOK /\ Assigned /\ Dated /\ IsFiniteSet(DOMAIN tasks) /\ today \in Nat /\ MaxDay \in Nat
  BY ReportsAssumption DEF IInv, TypeOK, Day
<1>3. today' \in Day /\ \A c \in 0..today : c \in 0..today'
  BY <1>1, <1>2 DEF Day
<1>4. Assigned'
  BY <1>1, <1>2 DEF Assigned
<1>5. Dated'
  BY <1>1, <1>2, <1>3 DEF Dated
<1> QED
  BY <1>1, <1>2, <1>3, <1>4, <1>5, ElsewhereKeeps DEF TypeOK

-----------------------------------------------------------------------------
(* Every step.                                                              *)

LEMMA InvStarts == Init => IInv
<1> SUFFICES ASSUME Init PROVE IInv
  OBVIOUS
<1>1. /\ DOMAIN members = {} /\ DOMAIN tasks = {} /\ byHand = {} /\ today = 0
      /\ report.kind = "none" /\ report.month = None
  BY DEF Init, NoReport
<1>2. 0 \in Day
  BY ReportsAssumption DEF Day
<1>3. TypeOK
  BY <1>1, <1>2 DEF TypeOK
<1> QED
  BY <1>1, <1>3, FS_EmptySet DEF IInv, Assigned, Dated, InvalidIsExact

LEMMA InvSteps == IInv /\ [Next]_vars => IInv'
<1> SUFFICES ASSUME IInv, [Next]_vars PROVE IInv'
  OBVIOUS
<1>1. CASE UNCHANGED vars
  <2>1. UNCHANGED <<tables, today>> /\ report' = report
    BY <1>1 DEF vars
  <2>2. ReportTyped(report)' /\ (report'.kind = "invalid" => report'.rows = InvalidAssignees)
    BY <2>1 DEF ReportTyped, IInv, TypeOK, InvalidIsExact, Assigned, InvalidAssignees
  <2> QED
    BY <2>1, <2>2, AnswerKeeps
<1>2. ASSUME NEW t \in Team, NEW u \in User, Found(t, u) \/ Join(t, u) PROVE IInv'
  BY <1>2, FoundKeeps, JoinKeeps
<1>3. ASSUME NEW k \in Task, NEW t \in Team, NEW u \in User, NEW a \in User \cup {None},
             CreateTask(k, t, u, a)
      PROVE  IInv'
  BY <1>3, CreateTaskKeeps
<1>4. ASSUME NEW k \in Task, Close(k) \/ Reopen(k) PROVE IInv'
  BY <1>4, CloseKeeps, ReopenKeeps
<1> QED
  BY <1>1, <1>2, <1>3, <1>4, AnswersKeep, NextDayKeeps DEF Next

LEMMA InvHolds == Spec => []IInv
BY InvStarts, InvSteps, PTL DEF Spec

\* The report of invalid assignees shows the tasks that came in past the service
\* for somebody who is not in the team, and none the service created.
THEOREM OnlyByHand == Spec => []OnlyRowsByHandAreInvalid
<1>1. IInv => OnlyRowsByHandAreInvalid
  BY DEF IInv, InvalidIsExact, OnlyRowsByHandAreInvalid
<1> QED
  BY <1>1, InvHolds, PTL

-----------------------------------------------------------------------------
(* The summary.                                                             *)

\* What the records of a product of two sets that are not empty have in a field.
LEMMA Projections ==
    ASSUME NEW A, NEW B, A # {}, B # {}
    PROVE  /\ [member : A, task : B] # {}
           /\ {r.member : r \in [member : A, task : B]} = A
<1>1. PICK a \in A, b \in B : TRUE
  OBVIOUS
<1>2. \A x \in A : /\ [member |-> x, task |-> b] \in [member : A, task : B]
                   /\ [member |-> x, task |-> b].member = x
  BY <1>1
<1>3. \A r \in [member : A, task : B] : r.member \in A
  OBVIOUS
<1> QED
  BY <1>1, <1>2, <1>3

\* The joins have a row with each member, and a row with each task of the team.
LEMMA JoinedMembers ==
    ASSUME IInv, NEW t \in DOMAIN members
    PROVE  Joined(t) # {} /\ {r.member : r \in Joined(t)} \ {None} = members[t]
<1> DEFINE A == OrNull(members[t])
           B == OrNull({k \in DOMAIN tasks : tasks[k].team = t})
<1>1. A # {} /\ B # {}
  BY DEF OrNull
<1>2. A \ {None} = members[t]
  <2>1. None \notin members[t]
    BY ReportsAssumption DEF IInv, TypeOK
  <2> QED
    BY <2>1 DEF OrNull
<1>3. Joined(t) = [member : A, task : B]
  BY DEF Joined
<1> HIDE DEF A, B
<1>4. Joined(t) # {} /\ {r.member : r \in Joined(t)} = A
  BY <1>1, <1>3, Projections
<1> QED
  BY <1>2, <1>4

LEMMA JoinedTasks ==
    ASSUME IInv, NEW t \in DOMAIN members
    PROVE  {r.task : r \in {q \in Joined(t) : DoneLately(q.task)}} = DoneInWindow(t)
<1> DEFINE A == OrNull(members[t])
           B == OrNull({k \in DOMAIN tasks : tasks[k].team = t})
<1>1. PICK a \in A : TRUE
  BY DEF OrNull
<1>2. Joined(t) = [member : A, task : B]
  BY DEF Joined
<1>3. \A k \in B : DoneLately(k) <=> k \in DoneInWindow(t)
  <2>1. SUFFICES ASSUME NEW k \in DOMAIN tasks, tasks[k].team = t
                 PROVE  DoneLately(k) <=> k \in DoneInWindow(t)
    <3>1. ~ DoneLately(None)
      BY DEF DoneLately
    <3>2. None \notin DoneInWindow(t)
      BY ReportsAssumption DEF DoneInWindow, IInv, TypeOK
    <3> QED
      BY <2>1, <3>1, <3>2 DEF OrNull
  <2>2. k # None
    BY ReportsAssumption DEF IInv, TypeOK
  <2>3. CASE tasks[k].status = "done"
    <3>1. tasks[k].completed \in 0..today /\ today \in Nat /\ Window \in Nat
      BY <2>3, ReportsAssumption DEF IInv, Dated, TypeOK, Day
    <3>2. tasks[k].completed + Window >= today <=> today - tasks[k].completed \in 0..Window
      BY <3>1
    <3> QED
      BY <2>1, <2>2, <2>3, <3>2 DEF DoneLately, DoneInWindow
  <2>4. CASE tasks[k].status # "done"
    BY <2>4 DEF DoneLately, DoneInWindow
  <2> QED
    BY <2>3, <2>4
<1>4. DoneInWindow(t) \subseteq B
  BY DEF DoneInWindow, OrNull
<1> HIDE DEF A, B
<1>5. \A r \in Joined(t) : r.task \in B
  BY <1>2
<1>6. \A k \in B : [member |-> a, task |-> k] \in Joined(t) /\ [member |-> a, task |-> k].task = k
  BY <1>1, <1>2
<1>7. \A k \in DoneInWindow(t) : \E r \in Joined(t) : DoneLately(r.task) /\ r.task = k
  BY <1>3, <1>4, <1>6
<1>8. \A r \in Joined(t) : DoneLately(r.task) => r.task \in DoneInWindow(t)
  BY <1>3, <1>5
<1> QED
  BY <1>7, <1>8

LEMMA SummaryOfTables ==
    ASSUME IInv
    PROVE  TeamSummary = {[team |-> t, members |-> Cardinality(members[t]),
                           done |-> Cardinality(DoneInWindow(t))] : t \in DOMAIN members}
<1>1. ASSUME NEW t \in DOMAIN members
      PROVE  /\ Joined(t) # {}
             /\ SummaryRow(t) = [team |-> t, members |-> Cardinality(members[t]),
                                 done |-> Cardinality(DoneInWindow(t))]
  BY <1>1, JoinedMembers, JoinedTasks DEF SummaryRow
<1>2. {u \in DOMAIN members : Joined(u) # {}} = DOMAIN members
  BY <1>1
<1> QED
  BY <1>1, <1>2 DEF TeamSummary

\* The summary has a row for every team, the empty ones too, and counts each
\* member and each task done in the window once, although the joins pair every
\* member of a team with every task of it.
THEOREM SummaryCountsOnce == Spec => SummaryIsExact
<1> DEFINE Exact == {[team |-> t, members |-> Cardinality(members[t]),
                      done |-> Cardinality(DoneInWindow(t))] : t \in DOMAIN members}
<1>1. ASSUME IInv, Next, Answers("summary") PROVE report'.rows = Exact
  <2>1. report.kind = "none" /\ report'.kind = "summary"
    BY <1>1 DEF Answers
  <2>2. ~ Elsewhere /\ ~ Reply /\ ~ GetInvalidAssignees /\ ~ GetTopCreators
    BY <2>1 DEF Elsewhere, Reply, GetInvalidAssignees, GetTopCreators, Answer
  <2>3. GetTeamSummary
    BY <1>1, <2>2 DEF Next, Found, Join, CreateTask, Close, Reopen, NextDay
  <2>4. report'.rows = TeamSummary
    BY <2>3 DEF GetTeamSummary, Answer
  <2> QED
    BY <1>1, <2>4, SummaryOfTables
<1>2. IInv /\ [Next]_vars => [Answers("summary") => report'.rows = Exact]_vars
  BY <1>1
<1> QED
  BY <1>2, InvHolds, PTL DEF Spec, SummaryIsExact

-----------------------------------------------------------------------------
(* The busiest creators.                                                    *)

\* Of rows numbered 1, 2, ... those up to n are n, unless all of them are.
LEMMA FirstNumbers ==
    ASSUME NEW P, IsFiniteSet(P), NEW rn \in Injection(P, 1..Cardinality(P)), NEW n \in Nat
    PROVE  LET S == {r \in P : rn[r] <= n}
           IN  /\ IsFiniteSet(S) /\ Cardinality(S) \in Nat /\ Cardinality(S) <= n
               /\ S = P \/ Cardinality(S) = n
<1> DEFINE S == {r \in P : rn[r] <= n}
           g == [r \in S |-> rn[r]]
<1>1. IsFiniteSet(S) /\ Cardinality(S) \in Nat /\ Cardinality(P) \in Nat
  BY FS_Subset, FS_CardinalityType
<1>2. IsFiniteSet(1..n) /\ Cardinality(1..n) = n
  BY FS_Interval
<1>3. /\ IsFiniteSet(1..Cardinality(P)) /\ Cardinality(1..Cardinality(P)) = Cardinality(P)
  BY <1>1, FS_Interval
<1>4. /\ rn \in [P -> 1..Cardinality(P)]
      /\ \A a, b \in P : rn[a] = rn[b] => a = b
  BY DEF Injection, IsInjective
<1>5. g \in Injection(S, 1..n)
  <2>1. \A r \in S : r \in P /\ rn[r] \in 1..n
    BY <1>1, <1>4
  <2> QED
    BY <1>4, <2>1 DEF Injection, IsInjective
<1>6. \A i \in 1..Cardinality(P) : \E r \in P : rn[r] = i
  <2>1. rn \in Surjection(P, 1..Cardinality(P))
    BY <1>3, FS_Injection
  <2> QED
    BY <2>1 DEF Surjection
<1>7. ASSUME S # P PROVE g \in Surjection(S, 1..n)
  <2>1. PICK r \in P : ~(rn[r] <= n)
    BY <1>7
  <2>2. n < Cardinality(P)
    BY <1>1, <1>4, <2>1
  <2>3. \A i \in 1..n : i \in 1..Cardinality(P) /\ i <= n
    BY <1>1, <2>2
  <2>4. \A i \in 1..n : \E q \in S : g[q] = i
    BY <1>6, <2>3
  <2> QED
    BY <1>5, <2>4 DEF Surjection, Injection
<1> HIDE DEF g
<1>8. Cardinality(S) <= n /\ (g \in Surjection(S, 1..n) => Cardinality(S) = n)
  BY <1>2, <1>5, FS_Injection
<1> QED
  BY <1>1, <1>7, <1>8

\* A sequence of a finite set's elements, each once, has all of them.
LEMMA SequenceOfAll ==
    ASSUME NEW S, IsFiniteSet(S), NEW s \in SetToSeqs(S)
    PROVE  /\ DOMAIN s = 1..Cardinality(S) /\ Len(s) = Cardinality(S)
           /\ \A i \in DOMAIN s : s[i] \in S
           /\ \A r \in S : \E i \in DOMAIN s : s[i] = r
<1>1. /\ s \in [1..Cardinality(S) -> S]
      /\ \A i, j \in 1..Cardinality(S) : i # j => s[i] # s[j]
  BY DEF SetToSeqs
<1>2. Cardinality(S) \in Nat
  BY FS_CardinalityType
<1>3. Len(s) = Cardinality(S)
  BY <1>1, <1>2
<1>4. s \in Injection(1..Cardinality(S), S)
  BY <1>1 DEF Injection, IsInjective
<1>5. Cardinality(1..Cardinality(S)) = Cardinality(S)
  BY <1>2, FS_Interval
<1>6. s \in Surjection(1..Cardinality(S), S)
  BY <1>4, <1>5, FS_Injection
<1> QED
  BY <1>1, <1>3, <1>6 DEF Surjection

\* The rows of the inner query: one for each team and creator with a task of the
\* month, with the number of them.
LEMMA CountedRows ==
    ASSUME IInv, NEW month
    PROVE  /\ IsFiniteSet(Counted(month))
           /\ \A r \in Counted(month) :
                /\ r.user \in User
                /\ r.tasks = Made(r.team, r.user, month) /\ r.tasks \in Nat /\ r.tasks > 0
           /\ \A r, q \in Counted(month) : r.team = q.team /\ r.user = q.user => r = q
           /\ \A t, u : Made(t, u, month) > 0 =>
                \E r \in Counted(month) : r.team = t /\ r.user = u
<1> DEFINE of == {k \in DOMAIN tasks : Month(tasks[k].created) = month}
           mine(t, u) == {k \in of : tasks[k].team = t /\ tasks[k].creator = u}
           row(t, u) == [team |-> t, user |-> u, tasks |-> Cardinality(mine(t, u))]
           f == [k \in of |-> row(tasks[k].team, tasks[k].creator)]
<1>1. IsFiniteSet(of)
  BY FS_Subset DEF IInv
<1>2. \A k \in of : tasks[k].creator \in User
  BY DEF IInv, TypeOK, Row
<1>3. Counted(month) = {row(tasks[k].team, tasks[k].creator) : k \in of}
  <2> DEFINE pairs == {<<tasks[k].team, tasks[k].creator>> : k \in of}
  <2>1. Counted(month) = {row(p[1], p[2]) : p \in pairs}
    BY DEF Counted
  <2> HIDE DEF row
  <2>2. \A k \in of : <<tasks[k].team, tasks[k].creator>> \in pairs
    OBVIOUS
  <2>3. \A p \in pairs : \E k \in of : p[1] = tasks[k].team /\ p[2] = tasks[k].creator
    OBVIOUS
  <2> HIDE DEF pairs, of
  <2>4. ASSUME NEW k \in of PROVE row(tasks[k].team, tasks[k].creator) \in Counted(month)
    <3> DEFINE p == <<tasks[k].team, tasks[k].creator>>
    <3>1. p[1] = tasks[k].team /\ p[2] = tasks[k].creator /\ p \in pairs
      BY <2>2
    <3> HIDE DEF p
    <3> QED
      BY <2>1, <3>1
  <2>5. \A r \in Counted(month) : \E k \in of : r = row(tasks[k].team, tasks[k].creator)
    BY <2>1, <2>3
  <2> QED
    BY <2>4, <2>5
<1>4. \A t, u : Made(t, u, month) = Cardinality(mine(t, u))
  <2> TAKE t, u
  <2>1. mine(t, u) = {k \in DOMAIN tasks : /\ tasks[k].team = t /\ tasks[k].creator = u
                                           /\ Month(tasks[k].created) = month}
    OBVIOUS
  <2> QED
    BY <2>1 DEF Made
<1>5. \A t, u : /\ Cardinality(mine(t, u)) \in Nat
                /\ Cardinality(mine(t, u)) > 0 <=> mine(t, u) # {}
  <2> TAKE t, u
  <2>1. IsFiniteSet(mine(t, u))
    BY <1>1, FS_Subset
  <2> HIDE DEF mine
  <2> QED
    BY <2>1, FS_CardinalityType, FS_EmptySet
<1>6. f \in Surjection(of, Counted(month))
  BY <1>3 DEF Surjection
<1>7. IsFiniteSet(Counted(month))
  BY <1>1, <1>6, FS_Surjection
<1>8. \A k \in of : mine(tasks[k].team, tasks[k].creator) # {}
  OBVIOUS
<1>9. \A t, u : mine(t, u) # {} => row(t, u) \in Counted(month)
  BY <1>3
<1>10. \A t, u : row(t, u).team = t /\ row(t, u).user = u /\ row(t, u).tasks = Cardinality(mine(t, u))
  OBVIOUS
<1> HIDE DEF of, mine, row, f
<1>11. \A r \in Counted(month) : \E k \in of : r = row(tasks[k].team, tasks[k].creator)
  BY <1>3
<1>12. \A r \in Counted(month) :
         /\ r = row(r.team, r.user) /\ r.user \in User
         /\ r.tasks = Made(r.team, r.user, month) /\ r.tasks \in Nat /\ r.tasks > 0
  BY <1>2, <1>4, <1>5, <1>8, <1>10, <1>11
<1>13. \A t, u : Made(t, u, month) > 0 =>
         \E r \in Counted(month) : r.team = t /\ r.user = u
  BY <1>4, <1>5, <1>9, <1>10
<1> QED
  BY <1>7, <1>12, <1>13

\* What CreatorsAreTheBusiest says of the list of one team.
BusiestFirst(list, t, month) ==
    LET made(u) == Made(t, u, month)
        makers == {u \in User : made(u) > 0}
        listed == {list[i].user : i \in DOMAIN list}
    IN  /\ listed \subseteq makers
        /\ Len(list) = Cardinality(listed)
        /\ Len(list) <= TopN
        /\ listed = makers \/ Len(list) = TopN
        /\ \A i \in DOMAIN list : list[i].tasks = made(list[i].user)
        /\ \A i, j \in DOMAIN list : i < j => list[i].tasks >= list[j].tasks
        /\ \A u \in makers \ listed, v \in listed : made(u) <= made(v)

\* A team's list is made of the rows of its first numbers.
LEMMA ListOfTeam ==
    ASSUME NEW rows, NEW g \in Grouped(rows), NEW t
    PROVE  (IF t \in DOMAIN g THEN g[t] ELSE <<>>) \in InOrder({r \in rows : r.team = t})
<1> DEFINE S == {r \in rows : r.team = t}
<1>1. DOMAIN g = {r.team : r \in rows}
  BY DEF Grouped
<1>2. CASE t \in DOMAIN g
  BY <1>1, <1>2 DEF Grouped
<1>3. CASE t \notin DOMAIN g
  <2>1. S = {}
    BY <1>1, <1>3
  <2>2. Cardinality(S) = 0
    BY <2>1, FS_EmptySet
  <2>3. <<>> \in [1..0 -> S] /\ DOMAIN <<>> = {}
    OBVIOUS
  <2> HIDE DEF S
  <2>4. <<>> \in SetToSeqs(S)
    BY <2>2, <2>3 DEF SetToSeqs
  <2>5. <<>> \in InOrder(S)
    BY <2>3, <2>4 DEF InOrder
  <2> QED
    BY <1>3, <2>5 DEF S
<1> QED
  BY <1>2, <1>3

\* Any numbering and any order SQL may choose among equals gives such lists.
LEMMA ListsAreBusiest ==
    ASSUME IInv, NEW month, NEW rn \in RowNumbers(Counted(month)), NEW t,
           NEW list \in InOrder({r \in {q \in Counted(month) : rn[q] <= TopN} : r.team = t})
    PROVE  BusiestFirst(list, t, month)
<1> DEFINE P == {r \in Counted(month) : r.team = t}
           S == {r \in P : rn[r] <= TopN}
           made(u) == Made(t, u, month)
           makers == {u \in User : made(u) > 0}
           listed == {list[i].user : i \in DOMAIN list}
           nr == [r \in P |-> rn[r]]
<1>1. IsFiniteSet(P) /\ TopN \in Nat
  BY CountedRows, FS_Subset, ReportsAssumption
<1>2. list \in SetToSeqs(S) /\ \A i, j \in DOMAIN list : i < j => list[i].tasks >= list[j].tasks
  <2>1. S = {r \in {q \in Counted(month) : rn[q] <= TopN} : r.team = t}
    OBVIOUS
  <2> HIDE DEF S
  <2> QED
    BY <2>1 DEF InOrder
<1>3. \A r \in P : /\ r.user \in User /\ r.tasks = made(r.user) /\ r.tasks \in Nat /\ r.tasks > 0
                   /\ \A q \in P : r.user = q.user => r = q
  BY CountedRows
<1>4. \A u : made(u) > 0 => \E r \in P : r.user = u
  BY CountedRows
<1>5. ASSUME NEW r \in P
      PROVE  /\ nr[r] = rn[r] /\ rn[r] \in 1..Cardinality(P)
             /\ \A q \in P \ {r} : rn[q] # rn[r] /\ (q.tasks > r.tasks => rn[q] < rn[r])
  <2>1. Peers(r, Counted(month)) = P
    BY DEF Peers
  <2>2. Cardinality(P) \in Nat
    BY <1>1, FS_CardinalityType
  <2>3. /\ rn[r] \in 1..Cardinality(Counted(month)) /\ rn[r] <= Cardinality(P)
        /\ \A q \in P \ {r} : rn[q] # rn[r] /\ (q.tasks > r.tasks => rn[q] < rn[r])
    BY <2>1 DEF RowNumbers
  <2>4. Cardinality(Counted(month)) \in Nat
    BY CountedRows, FS_CardinalityType
  <2> HIDE DEF P
  <2> QED
    BY <2>2, <2>3, <2>4
<1> HIDE DEF P
<1>6. nr \in Injection(P, 1..Cardinality(P))
  BY <1>5 DEF Injection, IsInjective
<1>7. S = {r \in P : nr[r] <= TopN}
  BY <1>5
<1> HIDE DEF nr
<1>8. /\ IsFiniteSet(S) /\ Cardinality(S) \in Nat /\ Cardinality(S) <= TopN
      /\ S = P \/ Cardinality(S) = TopN
  BY <1>1, <1>6, <1>7, FirstNumbers
<1>9. \A r \in S : r \in P /\ rn[r] <= TopN
  OBVIOUS
<1>10. \A r \in P \ S : ~(rn[r] <= TopN)
  OBVIOUS
<1> HIDE DEF S
<1>11. /\ Len(list) = Cardinality(S)
       /\ \A i \in DOMAIN list : list[i] \in S
       /\ \A r \in S : \E i \in DOMAIN list : list[i] = r
  BY <1>2, <1>8, SequenceOfAll
<1>12. listed = {r.user : r \in S}
  BY <1>11
<1>13. Cardinality(listed) = Cardinality(S)
  <2> DEFINE f == [r \in S |-> r.user]
  <2>1. f \in Bijection(S, listed)
    BY <1>3, <1>9, <1>12 DEF Bijection, Injection, Surjection, IsInjective
  <2> QED
    BY <1>8, <2>1, FS_Bijection DEF ExistsBijection
<1> HIDE DEF made
<1>14. listed \subseteq makers
  BY <1>3, <1>9, <1>12
<1>15. listed = makers \/ Len(list) = TopN
  BY <1>4, <1>8, <1>11, <1>12, <1>14
<1>16. \A i \in DOMAIN list : list[i].tasks = made(list[i].user)
  BY <1>3, <1>9, <1>11
<1>17. ASSUME NEW u \in makers \ listed, NEW v \in listed PROVE made(u) <= made(v)
  <2>1. PICK q \in P : q.user = u
    BY <1>4
  <2>2. PICK r \in S : r.user = v
    BY <1>12
  <2>3. q \notin S /\ q # r /\ r \in P
    BY <1>9, <1>12, <2>1, <2>2
  <2>4. ~(rn[q] <= TopN) /\ rn[r] <= TopN /\ rn[q] \in Nat /\ rn[r] \in Nat
    BY <1>5, <1>9, <1>10, <2>2, <2>3
  <2>5. ~(q.tasks > r.tasks)
    BY <1>1, <1>5, <2>3, <2>4
  <2> QED
    BY <1>3, <2>1, <2>2, <2>3, <2>5
<1> QED
  BY <1>2, <1>8, <1>11, <1>13, <1>14, <1>15, <1>16, <1>17 DEF BusiestFirst, made

\* Each team is listed with its TopN busiest creators of the month, busiest first
\* and with what they made, however MySQL numbers and orders equals.
THEOREM BusiestAreListed == Spec => CreatorsAreTheBusiest
<1> DEFINE Listed == \A t \in DOMAIN members :
               BusiestFirst(IF t \in DOMAIN report'.rows THEN report'.rows[t] ELSE <<>>,
                            t, report'.month)
<1>1. ASSUME IInv, Next, Answers("creators") PROVE Listed
  <2>1. report.kind = "none" /\ report'.kind = "creators"
    BY <1>1 DEF Answers
  <2>2. ~ Elsewhere /\ ~ Reply /\ ~ GetInvalidAssignees /\ ~ GetTeamSummary
    BY <2>1 DEF Elsewhere, Reply, GetInvalidAssignees, GetTeamSummary, Answer
  <2>3. GetTopCreators
    BY <1>1, <2>2 DEF Next, Found, Join, CreateTask, Close, Reopen, NextDay
  <2>4. PICK month : report'.month = month /\ report'.rows \in TopCreators(month)
    BY <2>3 DEF GetTopCreators, Answer
  <2>5. PICK rn \in RowNumbers(Counted(month)) :
          report'.rows \in Grouped({r \in Counted(month) : rn[r] <= TopN})
    BY <2>4 DEF TopCreators
  <2> DEFINE shown == {r \in Counted(month) : rn[r] <= TopN}
  <2>6. PICK lists \in Grouped(shown) : report'.rows = lists
    BY <2>5
  <2>7. ASSUME NEW t \in DOMAIN members
        PROVE  BusiestFirst(IF t \in DOMAIN lists THEN lists[t] ELSE <<>>, t, month)
    <3>1. PICK list : list = IF t \in DOMAIN lists THEN lists[t] ELSE <<>>
      OBVIOUS
    <3>2. list \in InOrder({r \in shown : r.team = t})
      <4> HIDE DEF shown
      <4> QED
        BY <3>1, ListOfTeam
    <3>3. BusiestFirst(list, t, month)
      BY <1>1, <3>2, ListsAreBusiest
    <3> QED
      BY <3>1, <3>3
  <2> QED
    BY <2>4, <2>6, <2>7
<1>2. IInv /\ [Next]_vars => [Answers("creators") => Listed]_vars
  BY <1>1
<1> QED
  BY <1>2, InvHolds, PTL DEF Spec, CreatorsAreTheBusiest, BusiestFirst
=============================================================================
