----------------------------- MODULE TaskLists ------------------------------
(***************************************************************************)
(* Reading the tasks of a team through the Redis cache: tasks.Service.List *)
(* over TasksRepo and TasksCache, while other requests write the tasks.    *)
(*                                                                         *)
(* Nothing removes an entry from the cache when a task changes: it stays   *)
(* until its time to live has passed.  Time is counted in ticks, and only  *)
(* as the time entries have left and the age of what a request has read.   *)
(***************************************************************************)
EXTENDS Paging

CONSTANTS
    User, Team, Task,
    Status,      \* todo, in_progress, done
    Slot,        \* requests in flight at once
    None,        \* a nil filter, an unset assignee, "no value"
    Asked,       \* the list requests: [team, status, assignee, page, per]
    TTL,         \* tasksListTTL, in ticks
    Span,        \* bound: a request is answered within this many ticks
    MaxWrites    \* bound on the number of writes of tasks

ASSUME TaskListsAssumption ==
    /\ Asked \subseteq [team : Team, status : Status \cup {None},
                        assignee : User \cup {None}, page : Nat, per : Nat]
    /\ TTL \in Nat \ {0} /\ Span \in Nat /\ MaxWrites \in Nat
    /\ None \notin User /\ None \notin Status /\ None \notin Task /\ None \notin Asked
    /\ IsFiniteSet(Task)

VARIABLES
    members,   \* team_members: rows [team, user]; roles play no part here
    tasks,     \* tasks: the row of each id, None while there is none
    writes,    \* how many writes of tasks there have been
    cache,     \* Redis: the entry of each key, None when there is none
    pc,        \* the call the handler in each slot makes next, "idle" without one
    req,       \* its request: the caller and what is asked for
    found,     \* its local items and total
    life,      \* how many ticks it has run
    age        \* history variable: how many ticks ago its items were in the database

\* Items older than this are all as old as this: the bound on `age'.
MaxAge == TTL + 2 * Span

local == <<pc, req, found, life, age>>
vars  == <<members, tasks, writes, cache, local>>

Row   == [team : Team, status : Status, assignee : User \cup {None},
          created : 1..Cardinality(Task)]

ASSUME RowAssumption == None \notin Row

Item  == [task : Task, row : Row]
Found == [items : SUBSET Item, total : 0..Cardinality(Task)]
Entry == [items : SUBSET Item, left : 1..TTL, age : 0..MaxAge]

ListCalls == {"members.IsMember", "cache.Get", "tasks.Count(hit)", "tasks.List",
              "tasks.Count", "cache.Set", "reply"}
NoReq   == [user |-> None, asked |-> None]
Nothing == [items |-> {}, total |-> 0]

\* Variant: the key does not name the assignee.
KeyWithoutAssignee(a) == [team |-> a.team, status |-> a.status, assignee |-> None,
                          page |-> NormalPage(a.page), per |-> NormalPer(a.per)]

\* Variant: the key does not name the page.
KeyWithoutPage(a) == [team |-> a.team, status |-> a.status, assignee |-> a.assignee,
                      page |-> 1, per |-> NormalPer(a.per)]

\* What tells one cached list from another: the page after normalisation, so
\* that an absent parameter and its default share an entry.
Key(a) == [team |-> a.team, status |-> a.status, assignee |-> a.assignee,
           page |-> NormalPage(a.page), per |-> NormalPer(a.per)]
Keys   == {Key(a) : a \in Asked}

TypeOK ==
    /\ members \subseteq [team : Team, user : User]
    /\ tasks \in [Task -> Row \cup {None}]
    /\ writes \in 0..MaxWrites
    /\ cache \in [Keys -> Entry \cup {None}]
    /\ pc \in [Slot -> {"idle"} \cup ListCalls]
    /\ req \in [Slot -> [user : User \cup {None}, asked : Asked \cup {None}]]
    /\ found \in [Slot -> Found]
    /\ life \in [Slot -> 0..Span]
    /\ age \in [Slot -> 0..MaxAge]

-----------------------------------------------------------------------------
(* What the database answers.                                               *)

IsMember(t, u) == [team |-> t, user |-> u] \in members

Matches(row, a) ==
    /\ row.team = a.team
    /\ a.status # None => row.status = a.status
    /\ a.assignee # None => row.assignee = a.assignee

Selected(a)  == {[task |-> k, row |-> tasks[k]] :
                    k \in {k \in Task : tasks[k] # None /\ Matches(tasks[k], a)}}
Newer(items) == {p \in items \X items : p[1].row.created > p[2].row.created}

\* ORDER BY created_at DESC with LIMIT and OFFSET: the answers it may give.
Answers(a) == PagesOf(Selected(a), Newer(Selected(a)), a.page, a.per)

-----------------------------------------------------------------------------
(* The handler.                                                             *)

Goto(s, call) == pc' = [pc EXCEPT ![s] = call] /\ UNCHANGED <<req, life>>
KeepAll       == UNCHANGED <<members, tasks, writes, cache>>

\* Every return.
Finish(s) ==
    /\ pc' = [pc EXCEPT ![s] = "idle"]
    /\ req' = [req EXCEPT ![s] = NoReq]
    /\ found' = [found EXCEPT ![s] = Nothing]
    /\ life' = [life EXCEPT ![s] = 0]
    /\ age' = [age EXCEPT ![s] = 0]
    /\ KeepAll

CallList(s, u, a) ==
    /\ pc[s] = "idle"
    /\ pc' = [pc EXCEPT ![s] = "members.IsMember"]
    /\ req' = [req EXCEPT ![s] = [user |-> u, asked |-> a]]
    /\ UNCHANGED <<found, life, age>> /\ KeepAll

CallerIsMember(s) ==
    /\ pc[s] = "members.IsMember"
    /\ \/ /\ IsMember(req[s].asked.team, req[s].user)
          /\ Goto(s, "cache.Get") /\ UNCHANGED <<found, age>> /\ KeepAll
       \/ ~IsMember(req[s].asked.team, req[s].user) /\ Finish(s)

\* Variant: a hit renews the entry's time to live.
GetAndRenew(s) ==
    LET key == Key(req[s].asked)
    IN  /\ pc[s] = "cache.Get"
        /\ \/ /\ cache[key] # None
              /\ found' = [found EXCEPT ![s].items = cache[key].items]
              /\ age' = [age EXCEPT ![s] = cache[key].age]
              /\ cache' = [cache EXCEPT ![key].left = TTL]
              /\ Goto(s, "tasks.Count(hit)")
              /\ UNCHANGED <<members, tasks, writes>>
           \/ cache[key] = None /\ Goto(s, "tasks.List") /\ UNCHANGED <<found, age>> /\ KeepAll

\* A hit; or a miss, which is also what an error of Redis counts as.
CacheGet(s) ==
    LET entry == cache[Key(req[s].asked)]
    IN  /\ pc[s] = "cache.Get"
        /\ \/ /\ entry # None
              /\ found' = [found EXCEPT ![s].items = entry.items]
              /\ age' = [age EXCEPT ![s] = entry.age]
              /\ Goto(s, "tasks.Count(hit)")
           \/ Goto(s, "tasks.List") /\ UNCHANGED <<found, age>>
        /\ KeepAll

List(s) ==
    /\ pc[s] = "tasks.List"
    /\ \E p \in Answers(req[s].asked) : found' = [found EXCEPT ![s].items = p]
    /\ Goto(s, "tasks.Count")
    /\ UNCHANGED age /\ KeepAll

\* After a hit the total alone is asked of the database.
Count(s) ==
    /\ pc[s] \in {"tasks.Count", "tasks.Count(hit)"}
    /\ found' = [found EXCEPT ![s].total = Cardinality(Selected(req[s].asked))]
    /\ Goto(s, IF pc[s] = "tasks.Count" THEN "cache.Set" ELSE "reply")
    /\ UNCHANGED age /\ KeepAll

\* SET with a time to live, over whatever is there, a newer list included.  An
\* error of Redis is ignored.
CacheSet(s) ==
    LET key == Key(req[s].asked)
    IN  /\ pc[s] = "cache.Set"
        /\ \/ cache' = [cache EXCEPT ![key] =
                          [items |-> found[s].items, left |-> TTL, age |-> age[s]]]
           \/ UNCHANGED cache
        /\ Goto(s, "reply")
        /\ UNCHANGED <<members, tasks, writes, found, age>>

Reply(s) == pc[s] = "reply" /\ Finish(s)

\* A query fails, or the client disconnected and its context is cancelled.
DatabaseFails(s) ==
    /\ pc[s] \in {"members.IsMember", "tasks.List", "tasks.Count", "tasks.Count(hit)"}
    /\ Finish(s)

-----------------------------------------------------------------------------
(* Redis, time and the other requests.                                      *)

\* An entry is evicted, or Redis restarts.
CacheLoses(k) ==
    /\ cache[k] # None
    /\ cache' = [cache EXCEPT ![k] = None]
    /\ UNCHANGED <<members, tasks, writes, local>>

Older(a) == Min({a + 1, MaxAge})

\* Entries come closer to their end, or reach it; what was read gets older.
Tick ==
    /\ \A s \in Slot : life[s] < Span
    /\ cache' = [k \in Keys |->
                   IF cache[k] = None \/ cache[k].left = 1 THEN None
                   ELSE [cache[k] EXCEPT !.left = @ - 1, !.age = Older(@)]]
    /\ life' = [s \in Slot |-> IF pc[s] = "idle" THEN 0 ELSE life[s] + 1]
    /\ age' = [s \in Slot |-> IF pc[s] \in {"tasks.Count(hit)", "tasks.Count", "cache.Set", "reply"}
                              THEN Older(age[s]) ELSE age[s]]
    /\ UNCHANGED <<members, tasks, writes, pc, req, found>>

\* The teams service admits a user.
MembersAdd(t, u) ==
    /\ ~IsMember(t, u)
    /\ members' = members \cup {[team |-> t, user |-> u]}
    /\ UNCHANGED <<tasks, writes, cache, local>>

Latest == Max({0} \cup {tasks[k].created : k \in {k \in Task : tasks[k] # None}})

\* A task is created or changed by the handlers of Tasks.  created_at has the
\* resolution of a second: the next one may be that of the last.
TaskWrite(k, st, u) ==
    /\ writes < MaxWrites
    /\ writes' = writes + 1
    /\ \/ /\ tasks[k] = None
          /\ \E t \in Team, c \in {Max({1, Latest}), Latest + 1} :
               /\ \E m \in members : m.team = t
               /\ tasks' = [tasks EXCEPT ![k] =
                              [team |-> t, status |-> st, assignee |-> u, created |-> c]]
       \/ /\ tasks[k] # None
          /\ tasks' = [tasks EXCEPT ![k].status = st, ![k].assignee = u]
    /\ UNCHANGED <<members, cache, local>>

-----------------------------------------------------------------------------
Init ==
    /\ members = {} /\ writes = 0
    /\ tasks = [k \in Task |-> None]
    /\ cache = [k \in Keys |-> None]
    /\ pc = [s \in Slot |-> "idle"]
    /\ req = [s \in Slot |-> NoReq]
    /\ found = [s \in Slot |-> Nothing]
    /\ life = [s \in Slot |-> 0]
    /\ age = [s \in Slot |-> 0]

Call(s) == \E u \in User, a \in Asked : CallList(s, u, a)
Step(s) == CallerIsMember(s) \/ CacheGet(s) \/ List(s) \/ Count(s) \/ CacheSet(s) \/ Reply(s)

Next ==
    \/ \E s \in Slot : Call(s) \/ Step(s) \/ DatabaseFails(s)
    \/ \E k \in Keys : CacheLoses(k)
    \/ \E t \in Team, u \in User : MembersAdd(t, u)
    \/ \E k \in Task, st \in Status, u \in User \cup {None} : TaskWrite(k, st, u)
    \/ Tick

Spec == Init /\ [][Next]_vars

\* Handlers go on and time passes.  Nothing is assumed of clients, writers,
\* faults or evictions.
FairSpec == Spec /\ WF_vars(Tick) /\ \A s \in Slot : WF_vars(Step(s))

-----------------------------------------------------------------------------
(* Properties.                                                              *)

Replying(s) == pc[s] = "reply"

TasksOf(t) == {k \in Task : tasks[k] # None /\ tasks[k].team = t}

\* A list answers the request it is given to, whoever else's request put it in
\* the cache: the team, status, assignee and page size asked for, each task
\* once, and nothing on a page whose predecessors the team cannot fill; and
\* nobody sees through it the tasks of a team they are not in.
RepliesMatchRequests ==
    \A s \in Slot : Replying(s) =>
        /\ IsMember(req[s].asked.team, req[s].user)
        /\ \A i \in found[s].items : Matches(i.row, req[s].asked)
        /\ \A i, j \in found[s].items : i.task = j.task => i = j
        /\ Cardinality(found[s].items) <= NormalPer(req[s].asked.per)
        /\ found[s].items # {} =>
              Offset(req[s].asked.page, req[s].asked.per) + Cardinality(found[s].items)
                  <= Cardinality(TasksOf(req[s].asked.team))

\* A reply is stale by less than one time to live and the time two requests
\* take: that of the request that filled the entry, which may overwrite a newer
\* one, and that of the request that hit it (and the state stays well typed).
BoundedStaleness == TypeOK /\ \A s \in Slot : Replying(s) => age[s] < MaxAge

\* Once the tasks stop changing, every list ends up showing them as they are,
\* however often the cache is hit in between.
ListsConverge ==
    <>[](\A s \in Slot : Replying(s) => found[s].items \in Answers(req[s].asked))
=============================================================================
