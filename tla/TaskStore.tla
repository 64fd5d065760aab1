----------------------------- MODULE TaskStore -----------------------------
(***************************************************************************)
(* What the tasks service promises about the rows of `tasks' and           *)
(* `task_history': a task is created once and then edited by its creator,  *)
(* one indivisible edit at a time, each made to the row the previous edit  *)
(* left and recorded with what it changed.  Tasks implements it.           *)
(***************************************************************************)
EXTENDS Naturals, Sequences

CONSTANTS User, Team, Task, None, Draft, Patch

VARIABLES clock, members, tasks, history

Field == {"title", "description", "status", "assignee_id"}

state == <<clock, members, tasks, history>>

Member(t, u) == [team |-> t, user |-> u] \in members

\* What a request's optional fields make of the fields of a row.
Merge(fields, patch) ==
    [f \in Field |-> IF patch[f] # None THEN patch[f] ELSE fields[f]]

\* What a history entry records: the fields that differ, before and after.
Diff(old, new) ==
    [f \in Field |-> IF old[f] = new[f] THEN None ELSE [from |-> old[f], to |-> new[f]]]

\* completed_at of a row written at time now.
Completed(fields, now) == IF fields["status"] = "done" THEN now ELSE None

Blank == [f \in Field |-> IF f = "status" THEN "todo" ELSE None]

ClockTicks == clock' = clock + 1 /\ UNCHANGED <<members, tasks, history>>

UserJoins(t, u) ==
    /\ members' = members \cup {[team |-> t, user |-> u]}
    /\ UNCHANGED <<clock, tasks, history>>

\* A member of the team creates a task, for nobody or for another member.
CreateTask(t, team, u, draft) ==
    LET fields == Merge(Blank, draft)
    IN  /\ tasks[t] = None
        /\ Member(team, u)
        /\ fields["assignee_id"] # None => Member(team, fields["assignee_id"])
        /\ tasks' = [tasks EXCEPT ![t] =
                       [team |-> team, creator |-> u, fields |-> fields,
                        updated |-> clock, completed |-> Completed(fields, clock)]]
        /\ UNCHANGED <<clock, members, history>>

\* The creator edits the task, at a time not before its last edit.
EditTask(t, u, patch, now) ==
    LET old == tasks[t]
        new == Merge(old.fields, patch)
    IN  /\ old # None
        /\ old.creator = u
        /\ old.updated <= now /\ now <= clock
        /\ patch["assignee_id"] # None => Member(old.team, patch["assignee_id"])
        /\ tasks' = [tasks EXCEPT ![t].fields = new, ![t].updated = now,
                                  ![t].completed = Completed(new, now)]
        /\ history' = [history EXCEPT ![t] =
                         Append(@, [by |-> u, at |-> now, changes |-> Diff(old.fields, new)])]
        /\ UNCHANGED <<clock, members>>

Init ==
    /\ clock = 0
    /\ members = {}
    /\ tasks = [t \in Task |-> None]
    /\ history = [t \in Task |-> <<>>]

Next ==
    \/ ClockTicks
    \/ \E t \in Team, u \in User : UserJoins(t, u)
    \/ \E t \in Task, team \in Team, u \in User, d \in Draft : CreateTask(t, team, u, d)
    \/ \E t \in Task, u \in User, p \in Patch, now \in 0..clock : EditTask(t, u, p, now)

Spec == Init /\ [][Next]_state
=============================================================================
