--------------------------- MODULE TasksInvariant ---------------------------
(***************************************************************************)
(* The inductive invariant of Tasks: what the committed rows and their     *)
(* history have to do with each other, and what a handler knows and holds  *)
(* at each of its calls.                                                   *)
(***************************************************************************)
EXTENDS Tasks

\* A handler makes the calls of its operation, with the arguments it has.
Arguments(s) ==
    \/ /\ req[s] = NoReq /\ pc[s] = "idle"
       /\ tx[s] = NoTx /\ listed[s] = NoList
    \/ /\ req[s].op = "Create" /\ pc[s] \in CreateCalls
       /\ req[s].user \in User /\ req[s].team \in Team
       /\ req[s].task \in Task /\ req[s].patch \in Draft
    \/ /\ req[s].op = "Update" /\ pc[s] \in UpdateCalls
       /\ req[s].user \in User /\ req[s].task \in Task /\ req[s].patch \in Patch
    \/ /\ req[s].op = "History" /\ pc[s] \in HistoryCalls
       /\ req[s].user \in User /\ req[s].task \in Task
       /\ pc[s] # "tasks.GetTeamID" => req[s].team \in Team

-----------------------------------------------------------------------------
(* The tables.                                                              *)

\* A row that is not there has left nothing behind it.
Unwritten(t) == history[t] = <<>> /\ doneSince[t] = None

\* The entries of a task are in the order of their times, and the last of them
\* was made when the row says it was updated.
Timely(t) ==
    /\ tasks[t].updated <= clock
    /\ \A k \in 1..Len(history[t]) : history[t][k].at <= tasks[t].updated
    /\ \A j, k \in 1..Len(history[t]) : j < k => history[t][j].at <= history[t][k].at

\* The row is what its history makes of the fields it was created with.
Replayed(t) ==
    \A f \in Field :
        /\ tasks[t].fields[f] = ValueAt(t, f, Len(history[t]))
        /\ \A k \in 1..Len(history[t]) : history[t][k].changes[f] # None =>
              history[t][k].changes[f].from = ValueAt(t, f, k - 1)

\* completed_at is the time of the last edit that left the task done.
Dated(t) ==
    /\ tasks[t].completed = CompletedAt(tasks[t].fields, tasks[t].updated)
    /\ IF tasks[t].fields["status"] = "done"
       THEN doneSince[t] # None /\ doneSince[t] <= tasks[t].updated
       ELSE doneSince[t] = None

AssigneeValid(t) ==
    tasks[t].fields["assignee_id"] # None => IsMember(tasks[t].team, tasks[t].fields["assignee_id"])

RowOK(t) ==
    IF tasks[t] = None THEN Unwritten(t)
    ELSE Timely(t) /\ Replayed(t) /\ Dated(t) /\ AssigneeValid(t)

RowsInv == \A t \in Task : RowOK(t)

\* The updates in flight fit into the bound on the history of their task.
Editing(t) == {o \in Slot : req[o].op = "Update" /\ req[o].task = t /\ pc[o] # "reply"}
Bounded    == \A t \in Task : Len(history[t]) + Cardinality(Editing(t)) <= MaxEdits

-----------------------------------------------------------------------------
(* The handlers.                                                            *)

\* The assignee the request names, if any, is in the team.
AssigneeKnown(s, team) ==
    req[s].patch["assignee_id"] # None => IsMember(team, req[s].patch["assignee_id"])

\* A Create has no row before its INSERT and one after, and inserts it knowing
\* its caller and its assignee to be members.
Creating(s) == req[s].op = "Create" /\ pc[s] # "reply"

CreateKnows(s) ==
    req[s].op = "Create" =>
        /\ tasks[req[s].task] = None <=> pc[s] # "reply"
        /\ pc[s] # "members.IsMember" => IsMember(req[s].team, req[s].user)
        /\ pc[s] = "tasks.Create" => AssigneeKnown(s, req[s].team)

\* An Update that has read its row holds the row's lock.
Holding(s) ==
    /\ req[s].op = "Update"
    /\ pc[s] \in {"members.IsMember(assignee)", "tasks.Update", "history.Add", "tx.Commit"}

LockHeld(s) == tx[s].lock = IF Holding(s) THEN req[s].task ELSE None

\* What an Update is about to write and to record is made of what it has read.
Written(s) ==
    LET new == Merge(current[s].fields, req[s].patch)
        now == tx[s].row.updated
    IN  /\ now \in Time /\ current[s].updated <= now /\ now <= clock
        /\ tx[s].row = [team |-> current[s].team, creator |-> current[s].creator,
                        fields |-> new, updated |-> now, completed |-> CompletedAt(new, now)]

Recorded(s) ==
    tx[s].entry = [by |-> req[s].user, at |-> tx[s].row.updated,
                   changes |-> Diff(current[s].fields, tx[s].row.fields)]

\* What an Update with the lock has read is the row as it is, its caller's own.
UpdateKnows(s) ==
    Holding(s) =>
        /\ tasks[req[s].task] # None /\ current[s] = tasks[req[s].task]
        /\ current[s].creator = req[s].user
        /\ pc[s] # "members.IsMember(assignee)" => AssigneeKnown(s, current[s].team)
        /\ pc[s] \in {"history.Add", "tx.Commit"} => Written(s)
        /\ pc[s] = "tx.Commit" => Recorded(s)

\* A History past its first query has the team of an existing task.
HistoryKnows(s) ==
    req[s].op = "History" =>
        /\ listed[s].before <= Len(history[req[s].task])
        /\ pc[s] # "tasks.GetTeamID" =>
              tasks[req[s].task] # None /\ req[s].team = tasks[req[s].task].team
        /\ pc[s] \in {"history.ListByTask", "reply"} => IsMember(req[s].team, req[s].user)

\* What OkReplyIsTrue says of one handler.
ReplyTrue(s) ==
    pc[s] = "reply" /\ req[s].op # "History" =>
        LET t == req[s].task
            fields == current[s].fields
        IN  /\ \A f \in Field : req[s].patch[f] \in {None, fields[f]}
            /\ req[s].op = "Create" => born[t] = fields
            /\ req[s].op = "Update" => \E k \in 1..Len(history[t]) :
                  /\ history[t][k].by = req[s].user
                  /\ \A f \in Field : fields[f] = ValueAt(t, f, k)

\* The first entries of h in some order that moves them within one time only.
Told(entries, h) ==
    \E p \in [1..Len(entries) -> 1..Len(entries)] : \A k \in 1..Len(entries) :
        /\ entries[k] = h[p[k]]
        /\ \A j \in 1..Len(entries) : j < k => p[j] # p[k]
        /\ h[p[k]].at = h[k].at

\* What HistoryIsToldInOrder says of one handler, besides who is answered.
HistoryTold(s) ==
    At(s, "History", "reply") =>
        LET n == Len(listed[s].entries)
            h == history[req[s].task]
        IN  listed[s].before <= n /\ n <= Len(h) /\ Told(listed[s].entries, h)

SlotOK(s) ==
    /\ Arguments(s) /\ CreateKnows(s) /\ LockHeld(s) /\ UpdateKnows(s)
    /\ HistoryKnows(s) /\ ReplyTrue(s) /\ HistoryTold(s)

\* Two Creates have different ids, two Updates that have read different rows.
Apart(s, o) ==
    /\ Creating(s) /\ Creating(o) => req[s].task # req[o].task
    /\ Holding(s) /\ Holding(o) => req[s].task # req[o].task

SlotsInv == \A s \in Slot : SlotOK(s) /\ \A o \in Slot \ {s} : Apart(s, o)

Inv == TypeOK /\ RowsInv /\ Bounded /\ SlotsInv
=============================================================================
