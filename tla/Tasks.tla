------------------------------- MODULE Tasks -------------------------------
(***************************************************************************)
(* Creating and updating tasks and reading their history: the handlers of  *)
(* internal/service/tasks running concurrently over the tables tasks,      *)
(* task_history and team_members, through the bounded connection pool of   *)
(* database/sql.                                                           *)
(*                                                                         *)
(* As in Teams, a slot serves one request at a time and a handler takes    *)
(* one step per call.  A transaction keeps a connection of the pool from   *)
(* BeginTx to its end; every other query borrows one for its own step.     *)
(***************************************************************************)
EXTENDS Naturals, Sequences, FiniteSets, FiniteSetsExt

CONSTANTS
    User, Team,
    Task,         \* the pool uuid.New() draws from: the bound on tasks
    Slot,         \* requests in flight at once
    None,         \* NULL, a nil pointer, "no value"
    Draft, Patch, \* bodies of create and update requests, None for an absent field
    MaxOpen,      \* SetMaxOpenConns
    Window,       \* how long the team summary calls a task recently done
    MaxClock,     \* bound on the clock
    MaxEdits      \* bound on the history of one task

Field  == {"title", "description", "status", "assignee_id"}
Status == {"todo", "in_progress", "done"}

ASSUME TasksAssumption ==
    /\ MaxOpen \in Nat \ {0} /\ Window \in Nat /\ MaxClock \in Nat /\ MaxEdits \in Nat
    /\ \A d \in Draft \cup Patch :
         /\ d = [f \in Field |-> d[f]]
         /\ d["assignee_id"] \in User \cup {None}
         /\ d["status"] \in Status \cup {None}
    /\ \A d \in Draft : d["title"] # None
    /\ None \notin User \cup Task \cup Draft \cup Patch

VARIABLES
    clock,      \* time.Now(); two moments MySQL's DATETIME cannot tell apart are one
    members,    \* team_members: rows [team, user]; roles play no part here
    tasks,      \* tasks: the committed row of each id, None while there is none
    history,    \* task_history: the committed entries of each task, oldest first
    pc,         \* the call the handler in each slot makes next, "idle" without one
    req,        \* its request: operation, caller and arguments
    current,    \* its local copy of the task, None before it has one
    tx,         \* its transaction: connection, row lock and uncommitted writes
    listed,     \* the entries it has read; and how many there were when it began
    born,       \* history variable: the fields each task was created with
    doneSince   \* history variable: when each task last became done

tables == <<members, tasks, history, born, doneSince>>
local  == <<pc, req, current, tx, listed>>
vars   == <<clock, tables, local>>

Value  == (UNION {{d[f] : f \in Field} : d \in Draft \cup Patch}) \cup Status \cup {None}
Fields == [Field -> Value]
Time   == 0..MaxClock
Row    == [team : Team, creator : User, fields : Fields, updated : Time,
           completed : Time \cup {None}]
Change == [from : Value, to : Value]
Entry  == [by : User, at : Time, changes : [Field -> Change \cup {None}]]

ASSUME NoneAssumption == None \notin Nat \cup Row \cup Change

ASSUME SlotAssumption == IsFiniteSet(Slot)

CreateCalls == {"members.IsMember", "members.IsMember(assignee)", "tasks.Create", "reply"}
UpdateCalls == {"db.BeginTx", "tasks.GetForUpdate", "members.IsMember(assignee)",
                "tasks.Update", "history.Add", "tx.Commit", "reply"}
HistoryCalls == {"tasks.GetTeamID", "members.IsMember", "history.ListByTask", "reply"}

Request == [op : {"none", "Create", "Update", "History"}, user : User \cup {None},
            team : Team \cup {None}, task : Task \cup {None},
            patch : Draft \cup Patch \cup {None}]
Writes  == [open : BOOLEAN, lock : Task \cup {None},
            row : Row \cup {None}, entry : Entry \cup {None}]
NoReq == [op |-> "none", user |-> None, team |-> None, task |-> None, patch |-> None]
NoTx  == [open |-> FALSE, lock |-> None, row |-> None, entry |-> None]
NoList == [entries |-> <<>>, before |-> 0]

TypeOK ==
    /\ clock \in Time
    /\ members \subseteq [team : Team, user : User]
    /\ tasks \in [Task -> Row \cup {None}]
    /\ history \in [Task -> Seq(Entry)]
    /\ pc \in [Slot -> {"idle"} \cup CreateCalls \cup UpdateCalls \cup HistoryCalls]
    /\ req \in [Slot -> Request]
    /\ current \in [Slot -> Row \cup {None}]
    /\ tx \in [Slot -> Writes]
    /\ listed \in [Slot -> [entries : Seq(Entry), before : 0..MaxEdits]]
    /\ born \in [Task -> Fields \cup {None}]
    /\ doneSince \in [Task -> Time \cup {None}]

-----------------------------------------------------------------------------
IsMember(t, u) == [team |-> t, user |-> u] \in members

\* What a request's optional fields make of the fields of a row.
Merge(fields, patch) ==
    [f \in Field |-> IF patch[f] # None THEN patch[f] ELSE fields[f]]

\* The `changes' map of a history entry, None for a field it does not list.
Diff(old, new) ==
    [f \in Field |-> IF old[f] = new[f] THEN None ELSE [from |-> old[f], to |-> new[f]]]

\* Variant: completed_at is not cleared when a task is reopened.
CompletedAtStamped(fields, now) == now

\* completed_at of a row written at time now: NULL unless the status is done.
CompletedAt(fields, now) == IF fields["status"] = "done" THEN now ELSE None

Blank == [f \in Field |-> IF f = "status" THEN "todo" ELSE None]

\* A connection is free for a query outside the transactions.
InUse    == Cardinality({s \in Slot : tx[s].open})
PoolFree == InUse < MaxOpen

RowLocked(s, t) == \E o \in Slot \ {s} : tx[o].lock = t

-----------------------------------------------------------------------------
At(s, op, call) == req[s].op = op /\ pc[s] = call
Goto(s, call)   == pc' = [pc EXCEPT ![s] = call] /\ UNCHANGED <<req, listed>>

\* Variant: the rollback is not deferred; an early return leaks the connection
\* and the lock.
FinishWithoutRollback(s) ==
    /\ pc' = [pc EXCEPT ![s] = "idle"]
    /\ req' = [req EXCEPT ![s] = NoReq]
    /\ current' = [current EXCEPT ![s] = None]
    /\ listed' = [listed EXCEPT ![s] = NoList]
    /\ UNCHANGED tx

\* Every return runs the deferred tx.Rollback(), which also gives the
\* connection back.
Finish(s) ==
    /\ pc' = [pc EXCEPT ![s] = "idle"]
    /\ req' = [req EXCEPT ![s] = NoReq]
    /\ current' = [current EXCEPT ![s] = None]
    /\ listed' = [listed EXCEPT ![s] = NoList]
    /\ tx' = [tx EXCEPT ![s] = NoTx]

Check(s, ok, next) ==
    /\ PoolFree
    /\ IF ok THEN Goto(s, next) /\ UNCHANGED <<current, tx>> ELSE Finish(s)
    /\ UNCHANGED <<clock, tables>>

Arrive(s, call, request) ==
    /\ pc[s] = "idle"
    /\ pc' = [pc EXCEPT ![s] = call]
    /\ req' = [req EXCEPT ![s] = request]
    /\ listed' = [listed EXCEPT ![s].before =
                    IF request.op = "History" THEN Len(history[request.task]) ELSE 0]
    /\ UNCHANGED <<clock, tables, current, tx>>

\* The fields a committed row leaves behind it in the history variables.
Remember(t, row) ==
    doneSince' = [doneSince EXCEPT ![t] =
        IF row.fields["status"] # "done" THEN None
        ELSE IF @ # None THEN @ ELSE row.completed]

-----------------------------------------------------------------------------
(* Create                                                                   *)

FreshTask == {t \in Task : tasks[t] = None /\ \A s \in Slot : req[s].task # t}

CallCreate(s, u, team, draft) ==
    \E t \in FreshTask :
        Arrive(s, "members.IsMember",
               [op |-> "Create", user |-> u, team |-> team, task |-> t, patch |-> draft])

\* Create and History are for members of the task's team.
CallerIsMember(s) ==
    /\ pc[s] = "members.IsMember"
    /\ Check(s, IsMember(req[s].team, req[s].user),
             IF req[s].op = "History" THEN "history.ListByTask"
             ELSE IF req[s].patch["assignee_id"] # None
             THEN "members.IsMember(assignee)" ELSE "tasks.Create")

\* INSERT INTO tasks, committed on its own.
InsertTask(s) ==
    LET t   == req[s].task
        new == Merge(Blank, req[s].patch)
        row == [team |-> req[s].team, creator |-> req[s].user, fields |-> new,
                updated |-> clock, completed |-> CompletedAt(new, clock)]
    IN  /\ At(s, "Create", "tasks.Create")
        /\ PoolFree
        /\ tasks' = [tasks EXCEPT ![t] = row]
        /\ born' = [born EXCEPT ![t] = new]
        /\ Remember(t, row)
        /\ UNCHANGED <<clock, members, history>>

TasksCreate(s) ==
    /\ InsertTask(s)
    /\ Goto(s, "reply")
    /\ current' = [current EXCEPT ![s] = tasks'[req[s].task]]
    /\ UNCHANGED tx

\* The row is written but the answer is lost: the handler returns an error.
TasksCreateUnheard(s) == InsertTask(s) /\ Finish(s)

-----------------------------------------------------------------------------
(* Update                                                                   *)

\* MaxEdits bounds the updates of one task, those in flight included.
CallUpdate(s, u, t, patch) ==
    /\ Len(history[t]) + Cardinality({o \in Slot : At(o, "Update", pc[o])
                                                   /\ req[o].task = t}) < MaxEdits
    /\ Arrive(s, "db.BeginTx",
              [op |-> "Update", user |-> u, team |-> None, task |-> t, patch |-> patch])

BeginTx(s) ==
    /\ At(s, "Update", "db.BeginTx")
    /\ PoolFree
    /\ tx' = [tx EXCEPT ![s] = [open |-> TRUE, lock |-> None, row |-> None, entry |-> None]]
    /\ Goto(s, "tasks.GetForUpdate")
    /\ UNCHANGED <<clock, tables, current>>

\* The row read becomes the handler's `current'.
Load(s, row) ==
    /\ current' = [current EXCEPT ![s] = row]
    /\ Goto(s, IF req[s].patch["assignee_id"] # None
               THEN "members.IsMember(assignee)" ELSE "tasks.Update")

Lock(s) == tx' = [tx EXCEPT ![s] = [open |-> TRUE, lock |-> req[s].task,
                                    row |-> None, entry |-> None]]

\* Variant: SELECT without FOR UPDATE.
GetUnlocked(s) ==
    LET row == tasks[req[s].task]
    IN  /\ At(s, "Update", "tasks.GetForUpdate")
        /\ row # None /\ row.creator = req[s].user
        /\ Load(s, row)
        /\ UNCHANGED <<clock, tables, tx>>

\* Variant: any caller may edit.
GetForAnyone(s) ==
    /\ At(s, "Update", "tasks.GetForUpdate")
    /\ ~RowLocked(s, req[s].task)
    /\ tasks[req[s].task] # None
    /\ Load(s, tasks[req[s].task])
    /\ Lock(s)
    /\ UNCHANGED <<clock, tables>>

\* SELECT ... FOR UPDATE: waits for the row's lock, then reads the committed
\* row; the handler goes on only for the task's creator.
GetForUpdate(s) ==
    LET row == tasks[req[s].task]
    IN  /\ At(s, "Update", "tasks.GetForUpdate")
        /\ ~RowLocked(s, req[s].task)
        /\ IF row # None /\ row.creator = req[s].user
           THEN Load(s, row) /\ Lock(s)
           ELSE Finish(s)
        /\ UNCHANGED <<clock, tables>>

\* The team the assignee has to be in: the request's, or the stored task's.
TeamOf(s) == IF req[s].op = "Create" THEN req[s].team ELSE current[s].team

\* Variant: the membership of the caller is looked up instead.
AssigneeIsCaller(s) ==
    /\ pc[s] = "members.IsMember(assignee)"
    /\ Check(s, IsMember(TeamOf(s), req[s].user),
             IF req[s].op = "Create" THEN "tasks.Create" ELSE "tasks.Update")

\* Both handlers look the assignee up on the pool; Update does so while its
\* transaction keeps a connection of its own.
AssigneeIsMember(s) ==
    /\ pc[s] = "members.IsMember(assignee)"
    /\ Check(s, IsMember(TeamOf(s), req[s].patch["assignee_id"]),
             IF req[s].op = "Create" THEN "tasks.Create" ELSE "tasks.Update")

TasksUpdate(s) ==
    LET new == Merge(current[s].fields, req[s].patch)
        row == [team |-> current[s].team, creator |-> current[s].creator, fields |-> new,
                updated |-> clock, completed |-> CompletedAt(new, clock)]
    IN  /\ At(s, "Update", "tasks.Update")
        /\ tx' = [tx EXCEPT ![s] = [open |-> TRUE, lock |-> tx[s].lock,
                                    row |-> row, entry |-> None]]
        /\ Goto(s, "history.Add")
        /\ UNCHANGED <<clock, tables, current>>

\* The history row of an edit, by whom it is said to be.
Record(s, by) ==
    /\ At(s, "Update", "history.Add")
    /\ tx' = [tx EXCEPT ![s] =
                [open |-> TRUE, lock |-> tx[s].lock, row |-> tx[s].row,
                 entry |-> [by |-> by, at |-> tx[s].row.updated,
                            changes |-> Diff(current[s].fields, tx[s].row.fields)]]]
    /\ Goto(s, "tx.Commit")
    /\ UNCHANGED <<clock, tables, current>>

HistoryAdd(s) == Record(s, req[s].user)

Apply(s) ==
    LET t == req[s].task
    IN  /\ At(s, "Update", "tx.Commit")
        /\ tasks' = [tasks EXCEPT ![t] = tx[s].row]
        /\ history' = [history EXCEPT ![t] = Append(@, tx[s].entry)]
        /\ Remember(t, tx[s].row)
        /\ UNCHANGED <<clock, members, born>>

Commit(s) ==
    /\ Apply(s)
    /\ Goto(s, "reply")
    /\ current' = [current EXCEPT ![s] = tx[s].row]
    /\ tx' = [tx EXCEPT ![s] = NoTx]

CommitUnheard(s) == Apply(s) /\ Finish(s)

-----------------------------------------------------------------------------
(* History                                                                  *)

CallHistory(s, u, t) ==
    Arrive(s, "tasks.GetTeamID",
           [op |-> "History", user |-> u, team |-> None, task |-> t, patch |-> None])

GetTeamID(s) ==
    LET row == tasks[req[s].task]
    IN  /\ At(s, "History", "tasks.GetTeamID")
        /\ PoolFree
        /\ IF row # None
           THEN /\ pc' = [pc EXCEPT ![s] = "members.IsMember"]
                /\ req' = [req EXCEPT ![s].team = row.team]
                /\ UNCHANGED <<current, tx, listed>>
           ELSE Finish(s)
        /\ UNCHANGED <<clock, tables>>

\* The orders ORDER BY changed_at ASC may give: entries of one moment tie.
Ordered(entries) ==
    LET n == Len(entries)
    IN  {[k \in 1..n |-> entries[p[k]]] :
            p \in {p \in [1..n -> 1..n] : \A i, j \in 1..n : i < j =>
                      p[i] # p[j] /\ entries[p[i]].at <= entries[p[j]].at}}

ListByTask(s) ==
    /\ At(s, "History", "history.ListByTask")
    /\ PoolFree
    /\ pc' = [pc EXCEPT ![s] = "reply"]
    /\ \E entries \in Ordered(history[req[s].task]) :
          listed' = [listed EXCEPT ![s].entries = entries]
    /\ UNCHANGED <<clock, tables, req, current, tx>>

-----------------------------------------------------------------------------
Reply(s) ==
    /\ pc[s] = "reply"
    /\ Finish(s)
    /\ UNCHANGED <<clock, tables>>

\* Variant: the error of tx.Commit() is dropped.
DatabaseFailsUnnoticed(s) ==
    /\ At(s, "Update", "tx.Commit")
    /\ Goto(s, "reply")
    /\ current' = [current EXCEPT ![s] = tx[s].row]
    /\ tx' = [tx EXCEPT ![s] = NoTx]
    /\ UNCHANGED <<clock, tables>>

\* A statement fails without effect, a lock wait times out, or the client
\* disconnects, which cancels the context the handler passes to every call.
DatabaseFails(s) ==
    /\ pc[s] \notin {"idle", "reply"}
    /\ Finish(s)
    /\ UNCHANGED <<clock, tables>>

Crash ==
    /\ pc' = [s \in Slot |-> "idle"]
    /\ req' = [s \in Slot |-> NoReq]
    /\ current' = [s \in Slot |-> None]
    /\ tx' = [s \in Slot |-> NoTx]
    /\ listed' = [s \in Slot |-> NoList]
    /\ UNCHANGED <<clock, tables>>

\* The teams service adds a member; nothing ever removes one.
MembersAdd(team, u) ==
    /\ ~IsMember(team, u)
    /\ members' = members \cup {[team |-> team, user |-> u]}
    /\ UNCHANGED <<clock, tasks, history, born, doneSince, local>>

Tick ==
    /\ clock < MaxClock
    /\ clock' = clock + 1
    /\ UNCHANGED <<tables, local>>

-----------------------------------------------------------------------------
Init ==
    /\ clock = 0
    /\ members = {}
    /\ tasks = [t \in Task |-> None]
    /\ history = [t \in Task |-> <<>>]
    /\ pc = [s \in Slot |-> "idle"]
    /\ req = [s \in Slot |-> NoReq]
    /\ current = [s \in Slot |-> None]
    /\ tx = [s \in Slot |-> NoTx]
    /\ listed = [s \in Slot |-> NoList]
    /\ born = [t \in Task |-> None]
    /\ doneSince = [t \in Task |-> None]

Call(s) ==
    \E u \in User : \/ \E team \in Team, d \in Draft : CallCreate(s, u, team, d)
                    \/ \E t \in Task, p \in Patch : CallUpdate(s, u, t, p)
                    \/ \E t \in Task : CallHistory(s, u, t)

\* Calls that may have to wait, for a connection or a row; and the others.
Wait(s)  == \/ CallerIsMember(s) \/ AssigneeIsMember(s) \/ TasksCreate(s)
            \/ BeginTx(s)        \/ GetForUpdate(s)     \/ GetTeamID(s)
            \/ ListByTask(s)
Step(s)  == TasksUpdate(s) \/ HistoryAdd(s) \/ Commit(s) \/ Reply(s)
Fault(s) == TasksCreateUnheard(s) \/ CommitUnheard(s) \/ DatabaseFails(s)

Next ==
    \/ \E s \in Slot : Call(s) \/ Wait(s) \/ Step(s) \/ Fault(s)
    \/ \E team \in Team, u \in User : MembersAdd(team, u)
    \/ Tick
    \/ Crash

Spec == Init /\ [][Next]_vars

\* Executable statements are executed; database/sql hands freed connections
\* to waiting requests and InnoDB grants locks in arrival order, so no waiting
\* call is passed over for ever.  Nothing is assumed of clients or faults.
FairSpec == Spec /\ \A s \in Slot : WF_vars(Step(s)) /\ SF_vars(Wait(s))

\* InnoDB gives up a lock wait after innodb_lock_wait_timeout; database/sql
\* waits for a connection without a limit of its own.
LockWaitTimesOut(s) ==
    /\ pc[s] = "tasks.GetForUpdate"
    /\ RowLocked(s, req[s].task)
    /\ DatabaseFails(s)

TimeoutSpec == FairSpec /\ \A s \in Slot : WF_vars(LockWaitTimesOut(s))

-----------------------------------------------------------------------------
(* Properties.                                                              *)

\* The value of a field after the first k edits, by the history alone.
ValueAt(t, f, k) ==
    LET edits == {j \in 1..k : history[t][j].changes[f] # None}
    IN  IF edits = {} THEN born[t][f] ELSE history[t][Max(edits)].changes[f].to

\* The history explains the row: replaying its entries over the task as it was
\* created gives the row, and each entry's `from' is what the entry before it
\* left.  An update lost between two concurrent handlers would break both.
\* (And the state stays well typed.)
HistoryReplaysToRow ==
    /\ TypeOK
    /\ \A t \in Task : tasks[t] # None => \A f \in Field :
          /\ tasks[t].fields[f] = ValueAt(t, f, Len(history[t]))
          /\ \A k \in 1..Len(history[t]) : history[t][k].changes[f] # None =>
                history[t][k].changes[f].from = ValueAt(t, f, k - 1)

\* A handler about to answer 200 returns a version the database really had,
\* with the request's values in it and an entry by the caller to show for it.
OkReplyIsTrue ==
    \A s \in Slot : pc[s] = "reply" /\ req[s].op # "History" =>
        LET t == req[s].task
            fields == current[s].fields
        IN  /\ \A f \in Field : req[s].patch[f] \in {None, fields[f]}
            /\ req[s].op = "Create" => born[t] = fields
            /\ req[s].op = "Update" => \E k \in 1..Len(history[t]) :
                  /\ history[t][k].by = req[s].user
                  /\ \A f \in Field : fields[f] = ValueAt(t, f, k)

\* A history that is answered goes to a member, leaves out nothing committed
\* before the request, and tells the edits in the order they were made, except
\* that edits of one moment may come in any order: `now' is taken under the row
\* lock, so the times of a task's entries never run against their order.
HistoryIsToldInOrder ==
    \A s \in Slot : At(s, "History", "reply") =>
        LET t == req[s].task
            n == Len(listed[s].entries)
            h == SubSeq(history[t], 1, n)
        IN  /\ IsMember(tasks[t].team, req[s].user)
            /\ listed[s].before <= n /\ n <= Len(history[t])
            /\ \E p \in [1..n -> 1..n] : \A k \in 1..n :
                  /\ listed[s].entries[k] = h[p[k]]
                  /\ \A j \in 1..n : j < k => p[j] # p[k]
                  /\ h[p[k]].at = h[k].at

\* The report of tasks whose assignee is not in their team (a left join of
\* tasks with team_members).
InvalidAssignees ==
    {t \in Task : /\ tasks[t] # None
                  /\ tasks[t].fields["assignee_id"] # None
                  /\ ~IsMember(tasks[t].team, tasks[t].fields["assignee_id"])}

\* That report is empty as long as rows are written by the service: the
\* membership a handler looked up before its write still holds after it.
NoInvalidAssignees == InvalidAssignees = {}

\* completed_at is set exactly on the done tasks, and never to a moment before
\* the task became done, whatever sequence of edits closed and reopened it.
DoneIsDated ==
    \A t \in Task : tasks[t] # None =>
        LET row == tasks[t]
        IN  IF row.fields["status"] = "done"
            THEN doneSince[t] # None /\ doneSince[t] <= row.completed
                                    /\ row.completed <= clock
            ELSE row.completed = None

\* The committed rows, seen without the handlers, obey the atomic promise:
\* every edit is made by the creator to the row the edit before it left.
Promise == INSTANCE TaskStore

ImplementsTaskStore == Promise!Spec

\* Every request is answered: no handler waits for ever for a row lock or for
\* a connection (every operation of api/openapi.yml has its list of answers).
EveryRequestIsAnswered == \A s \in Slot : pc[s] # "idle" ~> pc[s] = "idle"

\* The tasks the team summary counts as done within Window (done_last_7d).
DoneInWindow ==
    {t \in Task : /\ tasks[t] # None
                  /\ tasks[t].fields["status"] = "done"
                  /\ tasks[t].completed + Window >= clock}

\* The team summary's count of tasks done in the last 7 days counts tasks that
\* became done in the last 7 days.  The code breaks it: an edit of a done task
\* moves its completed_at.
DoneInWindowBecameDoneInWindow ==
    \A t \in DoneInWindow : doneSince[t] + Window >= clock
=============================================================================
