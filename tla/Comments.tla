------------------------------ MODULE Comments ------------------------------
(***************************************************************************)
(* Comments on tasks: the handlers of internal/service/comments running    *)
(* concurrently over the table task_comments, with tasks and team_members  *)
(* as the other services fill them.                                        *)
(*                                                                         *)
(* No handler opens a transaction: each takes one step per database call,  *)
(* and what it learnt from one call may be out of date at the next.        *)
(***************************************************************************)
EXTENDS Paging

CONSTANTS
    User, Team, Task,
    Comment,      \* the pool uuid.New() draws from: the bound on comments
    Body,         \* comment texts that are not blank
    Slot,         \* requests in flight at once
    None,         \* "no value"
    Asked,        \* page and per_page of the list requests, 0 when absent
    MaxClock      \* bound on the clock

ASSUME CommentsAssumption ==
    /\ Asked \subseteq [page : Nat, per : Nat] /\ MaxClock \in Nat /\ IsFiniteSet(Comment)
    /\ None \notin User \cup Team \cup Task \cup Comment \cup Body \cup Asked

VARIABLES
    clock,     \* time.Now(), in seconds
    members,   \* team_members: rows [team, user]; roles play no part here
    tasks,     \* tasks: the team of each task, None while there is no such task
    comments,  \* task_comments: the row of each id, None when there is none
    pc,        \* the call the handler in each slot makes next, "idle" without one
    req,       \* its request: operation, caller and arguments
    known,     \* what its calls have told it
    since,     \* history variable: the writes since its request arrived
    gone       \* history variable: the comments ever deleted

tables  == <<members, tasks, comments>>
local   == <<pc, req, known>>
history == <<since, gone>>
vars    == <<clock, tables, local, history>>

Time  == 0..MaxClock
Row   == [task : Task, user : User, body : Body, at : Time]

ASSUME RowAssumption == None \notin Row

Event == [op : {"Create", "Update", "Delete"}, comment : Comment, task : Task, body : Body]

\* The calls each handler makes, in the order it makes them.
CreateCalls == {"tasks.GetTeamID", "members.IsMember", "comments.Create", "reply"}
ListCalls   == {"tasks.GetTeamID", "members.IsMember", "comments.List", "comments.Count", "reply"}
UpdateCalls == {"comments.Get", "comments.Update", "reply"}
DeleteCalls == {"comments.Get", "comments.Delete", "reply"}

Request == [op : {"none", "Create", "List", "Update", "Delete"}, user : User \cup {None},
            task : Task \cup {None}, comment : Comment \cup {None},
            body : Body \cup {None}, asked : Asked \cup {None}]
Known   == [team : Team \cup {None}, now : Time \cup {None},
            items : SUBSET Comment, total : 0..Cardinality(Comment)]
NoReq   == [op |-> "none", user |-> None, task |-> None, comment |-> None,
            body |-> None, asked |-> None]
Nothing == [team |-> None, now |-> None, items |-> {}, total |-> 0]

TypeOK ==
    /\ clock \in Time
    /\ members \subseteq [team : Team, user : User]
    /\ tasks \in [Task -> Team \cup {None}]
    /\ comments \in [Comment -> Row \cup {None}]
    /\ pc \in [Slot -> {"idle"} \cup CreateCalls \cup ListCalls \cup UpdateCalls \cup DeleteCalls]
    /\ req \in [Slot -> Request]
    /\ known \in [Slot -> Known]
    /\ since \in [Slot -> SUBSET Event]
    /\ gone \subseteq Comment

-----------------------------------------------------------------------------
IsMember(t, u)  == [team |-> t, user |-> u] \in members
Exists(c)       == comments[c] # None
CommentsOf(t)   == {c \in Comment : Exists(c) /\ comments[c].task = t}
OlderThan(rows) == {p \in rows \X rows : comments[p[1]].at < comments[p[2]].at}

At(s, op, call) == req[s].op = op /\ pc[s] = call
Goto(s, call)   == pc' = [pc EXCEPT ![s] = call] /\ UNCHANGED req
Learn(s, field, value) == known' = [known EXCEPT ![s][field] = value]

\* Every return.
Leave(s) ==
    /\ pc' = [pc EXCEPT ![s] = "idle"]
    /\ req' = [req EXCEPT ![s] = NoReq]
    /\ known' = [known EXCEPT ![s] = Nothing]

\* A query is answered and the handler goes on; the handler returns.
Pass(s, call) == Goto(s, call) /\ UNCHANGED <<clock, tables, history>>
Finish(s) ==
    /\ Leave(s)
    /\ since' = [since EXCEPT ![s] = {}]
    /\ UNCHANGED <<clock, tables, gone>>

\* A write every request in flight after it, the writer's included, has seen.
Happened(op, c, t, b) ==
    since' = [s \in Slot |-> IF pc'[s] = "idle" THEN {} ELSE since[s] \cup
                 {[op |-> op, comment |-> c, task |-> t, body |-> b]}]

NothingHappened == since' = [s \in Slot |-> IF pc'[s] = "idle" THEN {} ELSE since[s]]

Arrive(s, op, call, u, t, c, b, a) ==
    /\ pc[s] = "idle"
    /\ pc' = [pc EXCEPT ![s] = call]
    /\ req' = [req EXCEPT ![s] = [op |-> op, user |-> u, task |-> t, comment |-> c,
                                  body |-> b, asked |-> a]]
    /\ UNCHANGED <<clock, tables, known, history>>

\* uuid.New() returns an id nothing carries or has carried.  A pool that is
\* used up keeps further Create requests from arriving.
FreshComment ==
    Comment \ ({c \in Comment : Exists(c)} \cup gone \cup {req[s].comment : s \in Slot})

-----------------------------------------------------------------------------
(* The four requests.  A body that is blank is refused before any call.     *)

CallCreate(s, u, t, b) ==
    \E c \in FreshComment : Arrive(s, "Create", "tasks.GetTeamID", u, t, c, b, None)
CallList(s, u, t, a)      == Arrive(s, "List", "tasks.GetTeamID", u, t, None, None, a)
CallUpdate(s, u, t, c, b) == Arrive(s, "Update", "comments.Get", u, t, c, b, None)
CallDelete(s, u, t, c)    == Arrive(s, "Delete", "comments.Get", u, t, c, None, None)

GetTeamID(s) ==
    /\ pc[s] = "tasks.GetTeamID"
    /\ \/ /\ tasks[req[s].task] # None
          /\ Pass(s, "members.IsMember")
          /\ Learn(s, "team", tasks[req[s].task])
       \/ tasks[req[s].task] = None /\ Finish(s)

\* Create reads the clock before it sends its INSERT.
CallerIsMember(s) ==
    /\ pc[s] = "members.IsMember"
    /\ \/ /\ IsMember(known[s].team, req[s].user)
          /\ Pass(s, IF req[s].op = "Create" THEN "comments.Create" ELSE "comments.List")
          /\ Learn(s, "now", clock)
       \/ ~IsMember(known[s].team, req[s].user) /\ Finish(s)

-----------------------------------------------------------------------------
(* Reading a page.                                                          *)

\* Variant: the page is counted from the end.
ListBackwards(s) ==
    /\ At(s, "List", "comments.List")
    /\ LET rows == CommentsOf(req[s].task)
       IN  \E p \in PagesOf(rows, {<<e[2], e[1]>> : e \in OlderThan(rows)},
                            req[s].asked.page, req[s].asked.per) :
              Learn(s, "items", p)
    /\ Pass(s, "comments.Count")

List(s) ==
    /\ At(s, "List", "comments.List")
    /\ LET rows == CommentsOf(req[s].task)
       IN  \E p \in PagesOf(rows, OlderThan(rows), req[s].asked.page, req[s].asked.per) :
              Learn(s, "items", p)
    /\ Pass(s, "comments.Count")

\* A query of its own: writes may have come between.
Count(s) ==
    /\ At(s, "List", "comments.Count")
    /\ Learn(s, "total", Cardinality(CommentsOf(req[s].task)))
    /\ Pass(s, "reply")

-----------------------------------------------------------------------------
(* The writes: one statement each, committed on its own.                    *)

\* INSERT INTO task_comments.
Insert(s) ==
    /\ At(s, "Create", "comments.Create")
    /\ comments' = [comments EXCEPT ![req[s].comment] =
                      [task |-> req[s].task, user |-> req[s].user,
                       body |-> req[s].body, at |-> known[s].now]]
    /\ Happened("Create", req[s].comment, req[s].task, req[s].body)
    /\ UNCHANGED <<clock, members, tasks, gone>>

\* Variant: the task in the path is not looked at.
GetOnAnyTask(s) ==
    /\ pc[s] = "comments.Get"
    /\ LET row == comments[req[s].comment]
           may == row # None /\ row.user = req[s].user
       IN  \/ /\ may
              /\ Pass(s, IF req[s].op = "Update" THEN "comments.Update" ELSE "comments.Delete")
              /\ UNCHANGED known
           \/ ~may /\ Finish(s)

\* SELECT by comment and task; then only the author goes on.  No lock is kept.
Get(s) ==
    /\ pc[s] = "comments.Get"
    /\ LET row == comments[req[s].comment]
           may == row # None /\ row.task = req[s].task /\ row.user = req[s].user
       IN  \/ /\ may
              /\ Pass(s, IF req[s].op = "Update" THEN "comments.Update" ELSE "comments.Delete")
              /\ UNCHANGED known
           \/ ~may /\ Finish(s)

\* Variant: REPLACE INTO task_comments, of the row Get has read.
Replace(s) ==
    /\ At(s, "Update", "comments.Update")
    /\ comments' = [comments EXCEPT ![req[s].comment] =
                      [task |-> req[s].task, user |-> req[s].user,
                       body |-> req[s].body, at |-> clock]]
    /\ Happened("Update", req[s].comment, req[s].task, req[s].body)
    /\ UNCHANGED <<clock, members, tasks, gone>>

\* UPDATE task_comments ... WHERE id = ?: no row to update is no error.
Edit(s) ==
    LET c == req[s].comment
    IN  /\ At(s, "Update", "comments.Update")
        /\ \/ /\ Exists(c)
              /\ comments' = [comments EXCEPT ![c].body = req[s].body]
              /\ Happened("Update", c, req[s].task, req[s].body)
           \/ /\ ~Exists(c)
              /\ NothingHappened
              /\ UNCHANGED comments
        /\ UNCHANGED <<clock, members, tasks, gone>>

\* DELETE FROM task_comments WHERE id = ?: no row to delete is no error.
Remove(s) ==
    LET c == req[s].comment
    IN  /\ At(s, "Delete", "comments.Delete")
        /\ \/ /\ Exists(c)
              /\ comments' = [comments EXCEPT ![c] = None]
              /\ gone' = gone \cup {c}
              /\ Happened("Delete", c, req[s].task, comments[c].body)
           \/ /\ ~Exists(c)
              /\ NothingHappened
              /\ UNCHANGED <<comments, gone>>
        /\ UNCHANGED <<clock, members, tasks>>

Write(s) == Insert(s) \/ Edit(s) \/ Remove(s)

\* The write is answered; or it takes effect but the answer is lost, and the
\* handler returns an error.
Executed(s) == Goto(s, "reply") /\ UNCHANGED known /\ Write(s)
Unheard(s)  == Leave(s) /\ Write(s)

-----------------------------------------------------------------------------
(* Replies, failures and the rest of the system.                            *)

Reply(s) == pc[s] = "reply" /\ Finish(s)

\* Variant: the error of a write is dropped.
DatabaseFailsUnnoticed(s) ==
    /\ pc[s] \in {"comments.Create", "comments.Update", "comments.Delete"}
    /\ Pass(s, "reply") /\ UNCHANGED known

\* A statement fails and has no effect: the driver reports an error, or the
\* client disconnected and its context is cancelled.
DatabaseFails(s) == pc[s] \notin {"idle", "reply"} /\ Finish(s)

\* The process dies.
Crash ==
    /\ pc' = [s \in Slot |-> "idle"]
    /\ req' = [s \in Slot |-> NoReq]
    /\ known' = [s \in Slot |-> Nothing]
    /\ since' = [s \in Slot |-> {}]
    /\ UNCHANGED <<clock, tables, gone>>

Tick ==
    /\ clock < MaxClock
    /\ clock' = clock + 1
    /\ UNCHANGED <<tables, local, history>>

\* The teams service admits a user; the tasks service creates a task for one.
\* Neither takes back what it gave.
MembersAdd(t, u) ==
    /\ ~IsMember(t, u)
    /\ members' = members \cup {[team |-> t, user |-> u]}
    /\ UNCHANGED <<clock, tasks, comments, local, history>>

TasksCreate(k, t) ==
    /\ tasks[k] = None
    /\ \E u \in User : IsMember(t, u)
    /\ tasks' = [tasks EXCEPT ![k] = t]
    /\ UNCHANGED <<clock, members, comments, local, history>>

-----------------------------------------------------------------------------
Init ==
    /\ clock = 0
    /\ members = {}
    /\ tasks = [k \in Task |-> None]
    /\ comments = [c \in Comment |-> None]
    /\ pc = [s \in Slot |-> "idle"]
    /\ req = [s \in Slot |-> NoReq]
    /\ known = [s \in Slot |-> Nothing]
    /\ since = [s \in Slot |-> {}]
    /\ gone = {}

Call(s) ==
    \E u \in User, t \in Task :
        \/ \E b \in Body : CallCreate(s, u, t, b)
        \/ \E a \in Asked : CallList(s, u, t, a)
        \/ \E c \in Comment, b \in Body : CallUpdate(s, u, t, c, b)
        \/ \E c \in Comment : CallDelete(s, u, t, c)

Step(s) ==
    \/ GetTeamID(s) \/ CallerIsMember(s) \/ List(s) \/ Count(s)
    \/ Get(s) \/ Executed(s) \/ Unheard(s) \/ Reply(s) \/ DatabaseFails(s)

Next ==
    \/ \E s \in Slot : Call(s) \/ Step(s)
    \/ \E t \in Team, u \in User : MembersAdd(t, u)
    \/ \E k \in Task, t \in Team : TasksCreate(k, t)
    \/ Crash \/ Tick

Spec == Init /\ [][Next]_vars

-----------------------------------------------------------------------------
(* Properties.                                                              *)

\* A comment is edited or deleted only on a request of its own author that
\* names its task, although the writing statement looks at neither and the
\* SELECT that did keeps no lock.
AuthorsWrite ==
    [][\A c \in Comment : Exists(c) /\ comments'[c] # comments[c] =>
         \E s \in Slot : /\ req[s].op \in {"Update", "Delete"} /\ req[s].comment = c
                         /\ req[s].user = comments[c].user
                         /\ req[s].task = comments[c].task]_vars

\* A deleted comment does not come back, not even through an edit that read it
\* before the deletion and writes after it (and the tables stay well typed).
DeletedForGood == TypeOK /\ \A c \in gone : ~Exists(c)

\* A handler about to answer 2xx tells the truth.  What it says it created was
\* created while it ran; what it says it edited got that text while it ran, or
\* was deleted while it ran; what it says it deleted was deleted while it ran,
\* by it or by a request racing it.
OkReplyIsTrue ==
    \A s \in Slot : pc[s] = "reply" /\ req[s].op # "List" =>
        \E e \in since[s] :
            /\ e.comment = req[s].comment /\ e.task = req[s].task
            /\ \/ e.op = req[s].op /\ e.body = req[s].body
               \/ e.op = "Delete" /\ req[s].op # "Create"

\* A page is shown to members of the task's team only, and a list nobody
\* disturbed is exact: the total counts the task's comments, and
\* when their times differ the page is the comments of its ranks, oldest first.
UndisturbedListIsExact ==
    \A s \in Slot : At(s, "List", "reply") =>
        /\ IsMember(tasks[req[s].task], req[s].user)
        /\ (\A e \in since[s] : e.task # req[s].task) =>
           LET rows    == CommentsOf(req[s].task)
               rank(c) == Cardinality({d \in rows : comments[d].at <= comments[c].at})
               per     == NormalPer(req[s].asked.per)
               first   == Offset(req[s].asked.page, req[s].asked.per)
           IN  /\ known[s].total = Cardinality(rows)
               /\ (\A c, d \in rows : c # d => comments[c].at # comments[d].at) =>
                     known[s].items = {c \in rows : rank(c) \in (first + 1)..(first + per)}
=============================================================================
