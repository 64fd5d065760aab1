--------------------------- MODULE CommentsProofs ---------------------------
(***************************************************************************)
(* Theorems about Comments, for every set of users, teams, tasks, comments *)
(* and concurrent requests, and every page size.                           *)
(***************************************************************************)
EXTENDS Comments, FiniteSetTheorems, TLAPS

Label == {"idle"} \cup CreateCalls \cup ListCalls \cup UpdateCalls \cup DeleteCalls

-----------------------------------------------------------------------------
(* Pages and ranks.                                                         *)

LEMMA MinOfTwo ==
    ASSUME NEW a \in Nat, NEW b \in Nat
    PROVE  Min({a, b}) = IF a <= b THEN a ELSE b
BY DEF Min

\* The times of different rows differ.
AllApart(rows, at) == \A c, d \in rows : c # d => at[c] # at[d]

\* No row outside b is older than one of b.
Oldest(b, rows, at) == \A x \in b, y \in rows \ b : ~(at[y] < at[x])

\* How many rows are as old as c, c among them.
Rank(c, rows, at) == Cardinality({d \in rows : at[d] <= at[c]})

\* The k oldest rows are those of the ranks 1..k.
LEMMA OldestHaveRanks ==
    ASSUME NEW rows, IsFiniteSet(rows), NEW at \in [rows -> Nat], AllApart(rows, at),
           NEW b \in SUBSET rows, Oldest(b, rows, at), NEW c \in rows
    PROVE  /\ Rank(c, rows, at) \in Nat
           /\ 1 <= Rank(c, rows, at) /\ Rank(c, rows, at) <= Cardinality(rows)
           /\ c \in b <=> Rank(c, rows, at) <= Cardinality(b)
<1> DEFINE below == {d \in rows : at[d] <= at[c]}
<1>1. IsFiniteSet(below) /\ IsFiniteSet(b)
  BY FS_Subset
<1>2. Cardinality(below) \in Nat /\ Cardinality(b) \in Nat /\ Cardinality(below) <= Cardinality(rows)
  BY <1>1, FS_Subset, FS_CardinalityType
<1>3. c \in below
  <2>1. at[c] \in Nat
    OBVIOUS
  <2> QED
    BY <2>1
<1>4. 1 <= Cardinality(below)
  <2>1. below # {}
    BY <1>3
  <2>2. Cardinality(below) # 0
    BY <1>1, <2>1, FS_EmptySet
  <2> QED
    BY <1>2, <2>2
<1>5. ASSUME c \in b PROVE Cardinality(below) <= Cardinality(b)
  <2>1. ASSUME NEW d \in below PROVE d \in b
    <3>1. d \in rows /\ at[d] \in Nat /\ at[c] \in Nat /\ at[d] <= at[c]
      OBVIOUS
    <3>2. CASE at[d] = at[c]
      BY <1>5, <3>1, <3>2 DEF AllApart
    <3>3. CASE at[d] < at[c]
      BY <1>5, <3>1, <3>3 DEF Oldest
    <3> QED
      BY <3>1, <3>2, <3>3
  <2> HIDE DEF below
  <2> QED
    BY <1>1, <2>1, FS_Subset
<1>6. ASSUME c \notin b PROVE Cardinality(b) < Cardinality(below)
  <2>1. ASSUME NEW d \in b PROVE d \in below
    <3>1. d \in rows /\ at[d] \in Nat /\ at[c] \in Nat
      OBVIOUS
    <3>2. ~(at[c] < at[d])
      BY <1>6 DEF Oldest
    <3> QED
      BY <3>1, <3>2
  <2> HIDE DEF below
  <2>2. b \cup {c} \subseteq below
    BY <1>3, <2>1
  <2>3. IsFiniteSet(b \cup {c}) /\ Cardinality(b \cup {c}) = Cardinality(b) + 1
    BY <1>1, <1>6, FS_AddElement
  <2>4. Cardinality(b \cup {c}) <= Cardinality(below)
    BY <1>1, <2>2, FS_Subset
  <2> QED
    BY <1>2, <2>3, <2>4
<1> HIDE DEF below
<1>7. Rank(c, rows, at) = Cardinality(below)
  BY DEF Rank, below
<1> QED
  BY <1>2, <1>4, <1>5, <1>6, <1>7

\* A page of rows of different times is the rows of its ranks.
LEMMA PageHasRanks ==
    ASSUME NEW rows, IsFiniteSet(rows), NEW at \in [rows -> Nat], AllApart(rows, at),
           NEW page \in Nat, NEW per \in Nat,
           NEW p \in PagesOf(rows, {e \in rows \X rows : at[e[1]] < at[e[2]]}, page, per)
    PROVE  p = {c \in rows : Rank(c, rows, at)
                    \in (Offset(page, per) + 1)..(Offset(page, per) + NormalPer(per))}
<1> DEFINE earlier == {e \in rows \X rows : at[e[1]] < at[e[2]]}
           first   == Offset(page, per)
           size    == NormalPer(per)
           n       == Cardinality(rows)
           skipped == Min({first, n})
           taken   == Min({size, n - skipped})
<1>1. n \in Nat
  BY FS_CardinalityType
<1>2. size \in Nat /\ first \in Nat
  <2>1. size \in Nat
    BY PagingAssumption, MinOfTwo DEF NormalPer
  <2>2. NormalPage(page) - 1 \in Nat
    BY DEF NormalPage
  <2> HIDE DEF size
  <2>3. \A x, y \in Nat : x * y \in Nat
    OBVIOUS
  <2> QED
    BY <2>1, <2>2, <2>3 DEF Offset, size
<1>3. PICK b \in SUBSET (rows \ p) :
        /\ Cardinality(b) = skipped
        /\ \A x \in b, y \in rows \ b : <<y, x>> \notin earlier
        /\ \A x \in p, y \in rows \ (b \cup p) : <<y, x>> \notin earlier
  BY DEF PagesOf
<1>4. p \in SUBSET rows /\ Cardinality(p) = taken
  BY DEF PagesOf
<1> HIDE DEF first, size, n
<1>5. skipped = (IF first <= n THEN first ELSE n) /\ skipped \in Nat /\ n - skipped \in Nat
  BY <1>1, <1>2, MinOfTwo
<1> HIDE DEF skipped
<1>6. taken = (IF size <= n - skipped THEN size ELSE n - skipped) /\ taken \in Nat
  BY <1>2, <1>5, MinOfTwo
<1> HIDE DEF taken
<1>7. Oldest(b, rows, at)
  BY <1>3 DEF Oldest
<1>8. Oldest(b \cup p, rows, at)
  BY <1>3, <1>4 DEF Oldest
<1>9. Cardinality(b \cup p) = skipped + taken
  <2>1. IsFiniteSet(b) /\ IsFiniteSet(p) /\ b \cap p = {}
    BY <1>4, FS_Subset
  <2>2. Cardinality(b \cap p) = 0
    BY <2>1, FS_EmptySet
  <2>3. Cardinality(b \cup p) = Cardinality(b) + Cardinality(p) - Cardinality(b \cap p)
    BY <2>1, FS_Union
  <2> QED
    BY <1>3, <1>4, <1>5, <1>6, <2>2, <2>3
<1>10. ASSUME NEW c \in rows
       PROVE  c \in p <=> Rank(c, rows, at) \in (first + 1)..(first + size)
  <2> DEFINE r == Rank(c, rows, at)
  <2>1. r \in Nat /\ 1 <= r /\ r <= n /\ (c \in b <=> r <= skipped)
    BY <1>3, <1>7, OldestHaveRanks DEF n
  <2>2. c \in b \cup p <=> r <= skipped + taken
    BY <1>3, <1>4, <1>8, <1>9, OldestHaveRanks
  <2>3. c \in p <=> c \in b \cup p /\ c \notin b
    OBVIOUS
  <2> HIDE DEF r
  <2>4. c \in p <=> (skipped < r /\ r <= skipped + taken)
    BY <1>5, <1>6, <2>1, <2>2, <2>3
  <2>5. (skipped < r /\ r <= skipped + taken) <=> (first + 1 <= r /\ r <= first + size)
    BY <1>1, <1>2, <1>5, <1>6, <2>1
  <2> QED
    BY <1>2, <2>1, <2>4, <2>5 DEF r
<1> QED
  BY <1>4, <1>10 DEF first, size

-----------------------------------------------------------------------------
(* The inductive invariant.                                                 *)

\* A handler makes the calls of its operation, with the arguments it has and
\* what the calls before have told it.
Arguments(s) ==
    \/ req[s].op = "none" /\ pc[s] = "idle"
    \/ /\ req[s].op = "Create" /\ pc[s] \in CreateCalls
       /\ req[s].user \in User /\ req[s].task \in Task /\ req[s].comment \in Comment
       /\ req[s].body \in Body /\ req[s].asked = None
       /\ pc[s] = "comments.Create" => known[s].now \in Time
    \/ /\ req[s].op = "List" /\ pc[s] \in ListCalls
       /\ req[s].user \in User /\ req[s].task \in Task /\ req[s].asked \in Asked
    \/ /\ req[s].op = "Update" /\ pc[s] \in UpdateCalls
       /\ req[s].user \in User /\ req[s].task \in Task /\ req[s].comment \in Comment
       /\ req[s].body \in Body
    \/ /\ req[s].op = "Delete" /\ pc[s] \in DeleteCalls
       /\ req[s].user \in User /\ req[s].task \in Task /\ req[s].comment \in Comment

\* A Create before its INSERT has an id that nothing carries or has carried.
Creating(s) == req[s].op = "Create" /\ pc[s] # "reply"
IdIsFree(s) == Creating(s) => ~Exists(req[s].comment) /\ req[s].comment \notin gone

\* The comment has been deleted since the request of s arrived.
DeletedSince(s, c, t) == \E e \in since[s] : e.op = "Delete" /\ e.comment = c /\ e.task = t

\* An Update or Delete that has passed its check writes to its caller's own
\* comment on the task it names, unless that was deleted after the check.
Allowed(s) ==
    pc[s] \in {"comments.Update", "comments.Delete"} =>
        LET c == req[s].comment
        IN  IF Exists(c) THEN comments[c].task = req[s].task /\ comments[c].user = req[s].user
            ELSE c \in gone /\ DeletedSince(s, c, req[s].task)

\* A List past its checks is for a member of the task's team.
ListsToMember(s) ==
    req[s].op = "List" =>
        /\ pc[s] # "tasks.GetTeamID" => /\ tasks[req[s].task] # None
                                        /\ known[s].team = tasks[req[s].task]
        /\ pc[s] \in {"comments.List", "comments.Count", "reply"} =>
              IsMember(known[s].team, req[s].user)

\* Nobody has written to the comments of its task since its request arrived.
Quiet(s) == \A e \in since[s] : e.task # req[s].task

TimesDiffer(t) == \A c, d \in CommentsOf(t) : c # d => comments[c].at # comments[d].at

\* The page asked for, by the ranks of the comments.
Page(t, asked) ==
    {c \in CommentsOf(t) :
        Cardinality({d \in CommentsOf(t) : comments[d].at <= comments[c].at})
            \in (Offset(asked.page, asked.per) + 1)
                  ..(Offset(asked.page, asked.per) + NormalPer(asked.per))}

\* What an undisturbed List has read is what it would read now.
ListsExactly(s) ==
    req[s].op = "List" /\ Quiet(s) =>
        /\ pc[s] \in {"comments.Count", "reply"} /\ TimesDiffer(req[s].task) =>
              known[s].items = Page(req[s].task, req[s].asked)
        /\ pc[s] = "reply" => known[s].total = Cardinality(CommentsOf(req[s].task))

\* What OkReplyIsTrue says of one handler.
ReplyTrue(s) ==
    pc[s] = "reply" /\ req[s].op # "List" =>
        \E e \in since[s] :
            /\ e.comment = req[s].comment /\ e.task = req[s].task
            /\ \/ e.op = req[s].op /\ e.body = req[s].body
               \/ e.op = "Delete" /\ req[s].op # "Create"

SlotOK(s) ==
    /\ Arguments(s) /\ IdIsFree(s) /\ Allowed(s)
    /\ ListsToMember(s) /\ ListsExactly(s) /\ ReplyTrue(s)

Apart(s, o) == Creating(s) /\ Creating(o) => req[s].comment # req[o].comment

SlotsInv == \A s \in Slot : SlotOK(s) /\ \A o \in Slot \ {s} : Apart(s, o)

IInv == DeletedForGood /\ SlotsInv

-----------------------------------------------------------------------------
(* What a step leaves of the handlers it is not a step of.                  *)

Undisturbed(o) == pc'[o] = pc[o] /\ req'[o] = req[o] /\ known'[o] = known[o]

\* Memberships and tasks are only added, and no deleted comment comes back.
Grow ==
    /\ members \subseteq members' /\ gone \subseteq gone'
    /\ \A k \in Task : tasks[k] # None => tasks'[k] = tasks[k]
    /\ \A c \in gone : comments'[c] = None

SameList(t) ==
    /\ CommentsOf(t)' = CommentsOf(t)
    /\ \A c \in CommentsOf(t) : comments'[c].at = comments[c].at

\* Request o is told of what a step has done to the comments of any task, and
\* of the deletion of any comment; and nothing takes the id it has drawn.
Tells(o) ==
    /\ since[o] \subseteq since'[o]
    /\ \A t \in Task : SameList(t) \/ \E e \in since'[o] : e.task = t
    /\ \A c \in Comment : Exists(c) =>
         IF Exists(c)' THEN comments'[c].task = comments[c].task /\ comments'[c].user = comments[c].user
         ELSE /\ c \in gone'
              /\ \E e \in since'[o] : e.op = "Delete" /\ e.comment = c /\ e.task = comments[c].task
    /\ Creating(o) => comments'[req[o].comment] = None /\ req[o].comment \notin gone'

LEMMA SameListSamePage ==
    ASSUME NEW t, SameList(t)
    PROVE  /\ TimesDiffer(t)' = TimesDiffer(t)
           /\ \A asked : Page(t, asked)' = Page(t, asked)
<1> DEFINE rows == CommentsOf(t)
<1>1. CommentsOf(t)' = rows /\ \A c \in rows : comments'[c].at = comments[c].at
  BY DEF SameList
<1>2. TimesDiffer(t)' = TimesDiffer(t)
  BY <1>1 DEF TimesDiffer
<1>3. ASSUME NEW c \in rows
      PROVE  {d \in rows : comments'[d].at <= comments'[c].at}
               = {d \in rows : comments[d].at <= comments[c].at}
  BY <1>1
<1>4. \A asked : Page(t, asked)' = Page(t, asked)
  BY <1>1, <1>3 DEF Page
<1> QED
  BY <1>2, <1>4

LEMMA OthersStay ==
    ASSUME IInv, Grow, NEW o \in Slot, Undisturbed(o), Tells(o)
    PROVE  SlotOK(o)'
<1>1. /\ Arguments(o) /\ IdIsFree(o) /\ Allowed(o)
      /\ ListsToMember(o) /\ ListsExactly(o) /\ ReplyTrue(o)
  BY DEF IInv, SlotsInv, SlotOK
<1>2. pc'[o] = pc[o] /\ req'[o] = req[o] /\ known'[o] = known[o] /\ since[o] \subseteq since'[o]
  BY DEF Undisturbed, Tells
<1>3. Arguments(o)'
  BY <1>1, <1>2 DEF Arguments
<1>4. IdIsFree(o)'
  BY <1>2 DEF IdIsFree, Creating, Tells, Exists
<1>5. Allowed(o)'
  <2>1. SUFFICES ASSUME pc[o] \in {"comments.Update", "comments.Delete"} PROVE Allowed(o)'
    BY <1>2 DEF Allowed
  <2>2. PICK c \in Comment : c = req[o].comment
    BY <1>1, <2>1 DEF Arguments, CreateCalls, ListCalls
  <2>3. IF Exists(c) THEN comments[c].task = req[o].task /\ comments[c].user = req[o].user
        ELSE c \in gone /\ DeletedSince(o, c, req[o].task)
    BY <1>1, <2>1, <2>2 DEF Allowed
  <2>4. CASE Exists(c) /\ Exists(c)'
    BY <1>2, <2>2, <2>3, <2>4 DEF Tells, Allowed
  <2>5. CASE Exists(c) /\ ~Exists(c)'
    BY <1>2, <2>2, <2>3, <2>5 DEF Tells, Allowed, DeletedSince
  <2>6. CASE ~Exists(c)
    <3>1. ~Exists(c)' /\ c \in gone'
      BY <2>3, <2>6 DEF Grow, Exists
    <3> QED
      BY <1>2, <2>2, <2>3, <2>6, <3>1 DEF Allowed, DeletedSince
  <2> QED
    BY <2>4, <2>5, <2>6
<1>6. ListsToMember(o)'
  <2>1. req[o].op = "List" => req[o].task \in Task
    BY <1>1 DEF Arguments
  <2> QED
    BY <1>1, <1>2, <2>1 DEF ListsToMember, Grow, IsMember
<1>7. ListsExactly(o)'
  <2>1. SUFFICES ASSUME req[o].op = "List", Quiet(o)' PROVE ListsExactly(o)'
    BY <1>2 DEF ListsExactly
  <2>2. PICK t \in Task : t = req[o].task
    BY <1>1, <2>1 DEF Arguments
  <2>3. Quiet(o) /\ \A e \in since'[o] : e.task # t
    BY <1>2, <2>1, <2>2 DEF Quiet
  <2>4. SameList(t)
    BY <2>3 DEF Tells
  <2>5. /\ TimesDiffer(t)' = TimesDiffer(t) /\ CommentsOf(t)' = CommentsOf(t)
        /\ \A asked : Page(t, asked)' = Page(t, asked)
    BY <2>4, SameListSamePage DEF SameList
  <2>6. /\ pc[o] \in {"comments.Count", "reply"} /\ TimesDiffer(t) =>
             known[o].items = Page(t, req[o].asked)
        /\ pc[o] = "reply" => known[o].total = Cardinality(CommentsOf(t))
    BY <1>1, <2>1, <2>2, <2>3 DEF ListsExactly
  <2>7. /\ pc'[o] \in {"comments.Count", "reply"} /\ TimesDiffer(t)' =>
             known'[o].items = Page(t, req[o].asked)'
        /\ pc'[o] = "reply" => known'[o].total = Cardinality(CommentsOf(t)')
    BY <1>2, <2>5, <2>6
  <2> QED
    BY <1>2, <2>2, <2>7 DEF ListsExactly
<1>8. ReplyTrue(o)'
  BY <1>1, <1>2 DEF ReplyTrue
<1> QED
  BY <1>3, <1>4, <1>5, <1>6, <1>7, <1>8 DEF SlotOK

LEMMA IdleStays ==
    ASSUME IInv, NEW o \in Slot, Undisturbed(o), pc[o] = "idle"
    PROVE  SlotOK(o)'
<1>1. Arguments(o)
  BY DEF IInv, SlotsInv, SlotOK
<1>2. req[o].op = "none"
  BY <1>1 DEF Arguments, CreateCalls, ListCalls, UpdateCalls, DeleteCalls
<1>3. pc'[o] = "idle" /\ req'[o].op = "none"
  BY <1>2 DEF Undisturbed
<1> QED
  BY <1>3 DEF SlotOK, Arguments, IdIsFree, Creating, Allowed, ListsToMember, ListsExactly, ReplyTrue

LEMMA SlotsStep ==
    ASSUME IInv, Grow, NEW s \in Slot, SlotOK(s)',
           \A o \in Slot \ {s} :
               /\ Undisturbed(o) /\ (pc[o] = "idle" \/ Tells(o))
               /\ Creating(s)' /\ Creating(o) => req'[s].comment # req[o].comment
    PROVE  SlotsInv'
<1>1. \A o \in Slot : SlotOK(o)'
  BY OthersStay, IdleStays
<1>2. \A o \in Slot \ {s} : Creating(o)' = Creating(o) /\ req'[o] = req[o]
  BY DEF Undisturbed, Creating
<1>3. ASSUME NEW o \in Slot, NEW q \in Slot \ {o} PROVE Apart(o, q)'
  <2>1. Apart(o, q)
    BY DEF IInv, SlotsInv
  <2>2. CASE o = s
    BY <1>2, <2>2 DEF Apart
  <2>3. CASE q = s
    BY <1>2, <2>3 DEF Apart
  <2>4. CASE o # s /\ q # s
    BY <1>2, <2>1, <2>4 DEF Apart
  <2> QED
    BY <2>2, <2>3, <2>4
<1> QED
  BY <1>1, <1>3 DEF SlotsInv

-----------------------------------------------------------------------------
(* A step of one handler that leaves the tables alone.                      *)

LEMMA RestTyped == NoReq \in Request /\ Nothing \in Known
<1>1. Cardinality(Comment) \in Nat
  BY CommentsAssumption, FS_CardinalityType
<1> QED
  BY <1>1 DEF NoReq, Request, Nothing, Known

\* All a step can do to the local state of the handler in a slot.
Becomes(s, call, r, k) ==
    /\ pc' = [pc EXCEPT ![s] = call] /\ req' = [req EXCEPT ![s] = r]
    /\ known' = [known EXCEPT ![s] = k]

LEMMA SlotTyped ==
    ASSUME TypeOK, NEW s \in Slot
    PROVE  pc[s] \in Label /\ req[s] \in Request /\ known[s] \in Known
BY DEF TypeOK, Label

LEMMA BecomesTyped ==
    ASSUME TypeOK, NEW s \in Slot, NEW call \in Label, NEW r \in Request, NEW k \in Known,
           Becomes(s, call, r, k)
    PROVE  /\ pc' \in [Slot -> Label] /\ req' \in [Slot -> Request] /\ known' \in [Slot -> Known]
           /\ pc'[s] = call /\ req'[s] = r /\ known'[s] = k
           /\ \A o \in Slot \ {s} : Undisturbed(o)
BY DEF TypeOK, Label, Becomes, Undisturbed

LEMMA TablesStay ==
    ASSUME IInv, UNCHANGED <<tables, gone>>
    PROVE  /\ Grow /\ \A c \in gone' : ~Exists(c)'
           /\ \A t : SameList(t)
           /\ \A o \in Slot : since[o] \subseteq since'[o] => Tells(o)
<1>1. members' = members /\ tasks' = tasks /\ comments' = comments /\ gone' = gone
  BY DEF tables
<1>2. Grow /\ \A c \in gone' : ~Exists(c)'
  BY <1>1 DEF Grow, IInv, DeletedForGood, Exists
<1>3. \A t : SameList(t)
  BY <1>1 DEF SameList, CommentsOf, Exists
<1>4. ASSUME NEW o \in Slot, since[o] \subseteq since'[o] PROVE Tells(o)
  <2>1. Creating(o) => ~Exists(req[o].comment) /\ req[o].comment \notin gone
    BY DEF IInv, SlotsInv, SlotOK, IdIsFree
  <2>2. Creating(o) => comments'[req[o].comment] = None /\ req[o].comment \notin gone'
    BY <1>1, <2>1 DEF Exists
  <2>3. \A c \in Comment : Exists(c)' = Exists(c) /\ comments'[c] = comments[c]
    BY <1>1 DEF Exists
  <2> QED
    BY <1>3, <1>4, <2>2, <2>3 DEF Tells
<1> QED
  BY <1>2, <1>3, <1>4

LEMMA QuietStep ==
    ASSUME IInv, NEW s \in Slot, NEW call \in Label, NEW r \in Request, NEW k \in Known,
           Becomes(s, call, r, k), UNCHANGED <<clock, tables, gone>>,
           NEW seen \in SUBSET Event, since' = [since EXCEPT ![s] = seen],
           SlotOK(s)',
           \A o \in Slot \ {s} : Creating(s)' /\ Creating(o) => req'[s].comment # req[o].comment
    PROVE  IInv'
<1>1. TypeOK
  BY DEF IInv, DeletedForGood
<1>2. TypeOK'
  BY <1>1, BecomesTyped DEF TypeOK, tables, Label
<1>3. Grow /\ \A c \in gone' : ~Exists(c)'
  BY TablesStay
<1>4. ASSUME NEW o \in Slot \ {s} PROVE Undisturbed(o) /\ Tells(o)
  <2>1. Undisturbed(o)
    BY <1>1, BecomesTyped
  <2>2. since'[o] = since[o]
    BY <1>1 DEF TypeOK
  <2> QED
    BY <2>1, <2>2, TablesStay
<1>5. SlotsInv'
  BY <1>3, <1>4, SlotsStep
<1> QED
  BY <1>2, <1>3, <1>5 DEF IInv, DeletedForGood

LEMMA AtRest ==
    ASSUME NEW s \in Slot, pc'[s] = "idle", req'[s] = NoReq
    PROVE  SlotOK(s)' /\ ~Creating(s)'
BY DEF SlotOK, Arguments, IdIsFree, Creating, Allowed, ListsToMember, ListsExactly, ReplyTrue, NoReq

\* A handler returns.
LEMMA FinishKeeps ==
    ASSUME IInv, NEW s \in Slot, Finish(s)
    PROVE  IInv'
<1>1. Becomes(s, "idle", NoReq, Nothing) /\ "idle" \in Label /\ TypeOK
  BY DEF Finish, Leave, Becomes, Label, IInv, DeletedForGood
<1>2. pc'[s] = "idle" /\ req'[s] = NoReq
  BY <1>1, RestTyped, BecomesTyped
<1>3. SlotOK(s)' /\ ~Creating(s)'
  BY <1>2, AtRest
<1>4. UNCHANGED <<clock, tables, gone>> /\ since' = [since EXCEPT ![s] = {}]
  BY DEF Finish
<1>5. \A o \in Slot \ {s} : Creating(s)' /\ Creating(o) => req'[s].comment # req[o].comment
  BY <1>3
<1>6. {} \in SUBSET Event
  OBVIOUS
<1> QED
  BY <1>1, <1>3, <1>4, <1>5, <1>6, RestTyped, QuietStep

\* A handler goes on to another call, with what it has learnt.
LEMMA PassKeeps ==
    ASSUME IInv, NEW s \in Slot, NEW call \in Label, NEW k \in Known, pc[s] # "reply",
           Pass(s, call), known' = [known EXCEPT ![s] = k], SlotOK(s)'
    PROVE  IInv'
<1>1. TypeOK
  BY DEF IInv, DeletedForGood
<1>2. Becomes(s, call, req[s], k) /\ req[s] \in Request
  BY <1>1 DEF Pass, Goto, Becomes, TypeOK
<1>3. UNCHANGED <<clock, tables, gone>> /\ since' = [since EXCEPT ![s] = since[s]] /\ since[s] \in SUBSET Event
  BY <1>1 DEF Pass, history, TypeOK
<1>4. pc'[s] = call /\ req'[s] = req[s]
  BY <1>1, <1>2, BecomesTyped
<1>5. ASSUME NEW o \in Slot \ {s}, Creating(s)', Creating(o) PROVE req'[s].comment # req[o].comment
  <2>1. Creating(s) /\ Apart(s, o)
    BY <1>4, <1>5 DEF Creating, IInv, SlotsInv
  <2> QED
    BY <1>4, <1>5, <2>1 DEF Apart
<1> QED
  BY <1>2, <1>3, <1>5, QuietStep

-----------------------------------------------------------------------------
(* Requests arrive.                                                         *)

LEMMA ArriveKeeps ==
    ASSUME IInv, NEW s \in Slot, NEW call \in Label, NEW r \in Request,
           pc' = [pc EXCEPT ![s] = call], req' = [req EXCEPT ![s] = r],
           UNCHANGED <<clock, tables, known, history>>, SlotOK(s)',
           r.op = "Create" => r.comment \in FreshComment
    PROVE  IInv'
<1>1. TypeOK
  BY DEF IInv, DeletedForGood
<1>2. Becomes(s, call, r, known[s]) /\ known[s] \in Known
  BY <1>1 DEF Becomes, TypeOK
<1>3. UNCHANGED <<clock, tables, gone>> /\ since' = [since EXCEPT ![s] = since[s]] /\ since[s] \in SUBSET Event
  BY <1>1 DEF history, TypeOK
<1>4. req'[s] = r
  BY <1>1, <1>2, BecomesTyped
<1>5. ASSUME NEW o \in Slot \ {s}, Creating(s)', Creating(o) PROVE req'[s].comment # req[o].comment
  BY <1>4, <1>5 DEF Creating, FreshComment
<1>6. \A o \in Slot \ {s} : Creating(s)' /\ Creating(o) => req'[s].comment # req[o].comment
  BY <1>5
<1> QED
  BY <1>2, <1>3, <1>6, QuietStep

LEMMA CallCreateKeeps ==
    ASSUME IInv, NEW s \in Slot, NEW u \in User, NEW t \in Task, NEW b \in Body,
           CallCreate(s, u, t, b)
    PROVE  IInv'
<1>1. PICK c \in FreshComment : Arrive(s, "Create", "tasks.GetTeamID", u, t, c, b, None)
  BY DEF CallCreate
<1> DEFINE r == [op |-> "Create", user |-> u, task |-> t, comment |-> c, body |-> b, asked |-> None]
<1>2. c \in Comment /\ ~Exists(c) /\ c \notin gone
  BY DEF FreshComment
<1>3. /\ r \in Request /\ r.op = "Create" /\ r.user = u /\ r.task = t /\ r.comment = c
      /\ r.body = b /\ r.asked = None
  BY <1>2 DEF Request
<1>4. "tasks.GetTeamID" \in Label /\ "tasks.GetTeamID" \in CreateCalls
  BY DEF Label, CreateCalls
<1>5. /\ pc' = [pc EXCEPT ![s] = "tasks.GetTeamID"] /\ req' = [req EXCEPT ![s] = r]
      /\ UNCHANGED <<clock, tables, known, history>>
  BY <1>1 DEF Arrive
<1> HIDE DEF r
<1>6. pc'[s] = "tasks.GetTeamID" /\ req'[s] = r /\ comments'[c] = None /\ gone' = gone
  BY <1>2, <1>5 DEF IInv, DeletedForGood, TypeOK, tables, history, Exists
<1>7. SlotOK(s)'
  BY <1>2, <1>3, <1>4, <1>6
  DEF SlotOK, Arguments, IdIsFree, Allowed, ListsToMember, ListsExactly, ReplyTrue, Exists
<1> QED
  BY <1>3, <1>4, <1>5, <1>7, ArriveKeeps

LEMMA CallListKeeps ==
    ASSUME IInv, NEW s \in Slot, NEW u \in User, NEW t \in Task, NEW a \in Asked,
           CallList(s, u, t, a)
    PROVE  IInv'
<1> DEFINE r == [op |-> "List", user |-> u, task |-> t, comment |-> None, body |-> None, asked |-> a]
<1>1. r \in Request /\ r.op = "List" /\ r.user = u /\ r.task = t /\ r.asked = a
  BY DEF Request
<1>2. "tasks.GetTeamID" \in Label /\ "tasks.GetTeamID" \in ListCalls
  BY DEF Label, ListCalls
<1>3. /\ pc' = [pc EXCEPT ![s] = "tasks.GetTeamID"] /\ req' = [req EXCEPT ![s] = r]
      /\ UNCHANGED <<clock, tables, known, history>>
  BY DEF CallList, Arrive
<1> HIDE DEF r
<1>4. pc'[s] = "tasks.GetTeamID" /\ req'[s] = r
  BY <1>3 DEF IInv, DeletedForGood, TypeOK
<1>5. SlotOK(s)'
  BY <1>1, <1>2, <1>4
  DEF SlotOK, Arguments, IdIsFree, Creating, Allowed, ListsToMember, ListsExactly, ReplyTrue
<1> QED
  BY <1>1, <1>2, <1>3, <1>5, ArriveKeeps

LEMMA CallWriteKeeps ==
    ASSUME IInv, NEW s \in Slot, NEW u \in User, NEW t \in Task, NEW c \in Comment,
           NEW b \in Body \cup {None}, NEW op \in {"Update", "Delete"},
           op = "Update" => b \in Body,
           Arrive(s, op, "comments.Get", u, t, c, b, None)
    PROVE  IInv'
<1> DEFINE r == [op |-> op, user |-> u, task |-> t, comment |-> c, body |-> b, asked |-> None]
<1>1. r \in Request /\ r.op = op /\ r.user = u /\ r.task = t /\ r.comment = c /\ r.body = b
  BY DEF Request
<1>2. /\ "comments.Get" \in Label
      /\ "comments.Get" \in UpdateCalls /\ "comments.Get" \in DeleteCalls
  BY DEF Label, UpdateCalls, DeleteCalls
<1>3. /\ pc' = [pc EXCEPT ![s] = "comments.Get"] /\ req' = [req EXCEPT ![s] = r]
      /\ UNCHANGED <<clock, tables, known, history>>
  BY DEF Arrive
<1> HIDE DEF r
<1>4. pc'[s] = "comments.Get" /\ req'[s] = r
  BY <1>3 DEF IInv, DeletedForGood, TypeOK
<1>5. SlotOK(s)'
  BY <1>1, <1>2, <1>4
  DEF SlotOK, Arguments, IdIsFree, Creating, Allowed, ListsToMember, ListsExactly, ReplyTrue
<1> QED
  BY <1>1, <1>2, <1>3, <1>5, ArriveKeeps

LEMMA CallKeeps ==
    ASSUME IInv, NEW s \in Slot, Call(s)
    PROVE  IInv'
<1>1. PICK u \in User, t \in Task :
          \/ \E b \in Body : CallCreate(s, u, t, b)
          \/ \E a \in Asked : CallList(s, u, t, a)
          \/ \E c \in Comment, b \in Body : CallUpdate(s, u, t, c, b)
          \/ \E c \in Comment : CallDelete(s, u, t, c)
  BY DEF Call
<1>2. CASE \E b \in Body : CallCreate(s, u, t, b)
  BY <1>2, CallCreateKeeps
<1>3. CASE \E a \in Asked : CallList(s, u, t, a)
  BY <1>3, CallListKeeps
<1>4. CASE \E c \in Comment, b \in Body : CallUpdate(s, u, t, c, b)
  BY <1>4, CallWriteKeeps DEF CallUpdate
<1>5. CASE \E c \in Comment : CallDelete(s, u, t, c)
  BY <1>5, CallWriteKeeps DEF CallDelete
<1> QED
  BY <1>1, <1>2, <1>3, <1>4, <1>5

-----------------------------------------------------------------------------
(* The queries.                                                             *)

LEMMA Passed ==
    ASSUME IInv, NEW s \in Slot, NEW call \in Label, NEW k \in Known, pc[s] # "reply",
           Pass(s, call), known' = [known EXCEPT ![s] = k]
    PROVE  /\ pc'[s] = call /\ req'[s] = req[s] /\ known'[s] = k /\ since'[s] = since[s]
           /\ members' = members /\ tasks' = tasks /\ comments' = comments /\ gone' = gone
           /\ IdIsFree(s)'
<1>1. TypeOK /\ IdIsFree(s)
  BY DEF IInv, DeletedForGood, SlotsInv, SlotOK
<1>2. pc'[s] = call /\ req'[s] = req[s] /\ known'[s] = k
  BY <1>1 DEF TypeOK, Pass, Goto
<1>3. /\ since'[s] = since[s]
      /\ members' = members /\ tasks' = tasks /\ comments' = comments /\ gone' = gone
  BY DEF Pass, tables, history
<1>4. IdIsFree(s)'
  BY <1>1, <1>2, <1>3 DEF IdIsFree, Creating, Exists
<1> QED
  BY <1>2, <1>3, <1>4

\* Learning one thing leaves the rest as it was.
LEMMA Learnt ==
    ASSUME TypeOK, NEW s \in Slot, NEW v
    PROVE  /\ v \in Team => /\ [known[s] EXCEPT !.team = v] \in Known
                            /\ [known[s] EXCEPT !.team = v].team = v
           /\ v \in Time => /\ [known[s] EXCEPT !.now = v] \in Known
                            /\ [known[s] EXCEPT !.now = v].now = v
                            /\ [known[s] EXCEPT !.now = v].team = known[s].team
           /\ v \in SUBSET Comment => /\ [known[s] EXCEPT !.items = v] \in Known
                                      /\ [known[s] EXCEPT !.items = v].items = v
                                      /\ [known[s] EXCEPT !.items = v].team = known[s].team
           /\ v \in 0..Cardinality(Comment) =>
                  /\ [known[s] EXCEPT !.total = v] \in Known
                  /\ [known[s] EXCEPT !.total = v].total = v
                  /\ [known[s] EXCEPT !.total = v].items = known[s].items
                  /\ [known[s] EXCEPT !.total = v].team = known[s].team
<1>1. known[s] \in Known
  BY DEF TypeOK
<1> QED
  BY <1>1 DEF Known

LEMMA GetTeamIDKeeps ==
    ASSUME IInv, NEW s \in Slot, GetTeamID(s)
    PROVE  IInv'
<1>1. CASE Finish(s)
  BY <1>1, FinishKeeps
<1>2. CASE /\ pc[s] = "tasks.GetTeamID" /\ tasks[req[s].task] # None
           /\ Pass(s, "members.IsMember") /\ Learn(s, "team", tasks[req[s].task])
  <2> DEFINE k == [known[s] EXCEPT !.team = tasks[req[s].task]]
  <2>1. TypeOK /\ Arguments(s)
    BY DEF IInv, DeletedForGood, SlotsInv, SlotOK
  <2>2. req[s].task \in Task /\ req[s].op \in {"Create", "List"}
    BY <1>2, <2>1 DEF Arguments, UpdateCalls, DeleteCalls
  <2>3. tasks[req[s].task] \in Team
    BY <1>2, <2>1, <2>2 DEF TypeOK
  <2>4. k \in Known /\ k.team = tasks[req[s].task]
    BY <2>1, <2>3, Learnt
  <2>5. known' = [known EXCEPT ![s] = k]
    BY <1>2, <2>1 DEF Learn, TypeOK
  <2> HIDE DEF k
  <2>6. /\ "members.IsMember" \in Label
        /\ "members.IsMember" \in CreateCalls /\ "members.IsMember" \in ListCalls
    BY DEF Label, CreateCalls, ListCalls
  <2>7. /\ pc'[s] = "members.IsMember" /\ req'[s] = req[s] /\ known'[s] = k
        /\ tasks' = tasks /\ IdIsFree(s)'
    BY <1>2, <2>4, <2>5, <2>6, Passed
  <2>8. Arguments(s)'
    BY <2>1, <2>2, <2>6, <2>7 DEF Arguments
  <2>9. ListsToMember(s)'
    BY <1>2, <2>4, <2>7 DEF ListsToMember
  <2>10. Allowed(s)' /\ ListsExactly(s)' /\ ReplyTrue(s)'
    BY <2>7 DEF Allowed, ListsExactly, ReplyTrue
  <2>11. SlotOK(s)'
    BY <2>7, <2>8, <2>9, <2>10 DEF SlotOK
  <2>12. pc[s] # "reply"
    BY <1>2
  <2> QED
    BY <1>2, <2>4, <2>5, <2>6, <2>11, <2>12, PassKeeps
<1> QED
  BY <1>1, <1>2 DEF GetTeamID

LEMMA CallerIsMemberKeeps ==
    ASSUME IInv, NEW s \in Slot, CallerIsMember(s)
    PROVE  IInv'
<1>1. CASE Finish(s)
  BY <1>1, FinishKeeps
<1>2. CASE /\ pc[s] = "members.IsMember" /\ IsMember(known[s].team, req[s].user)
           /\ Pass(s, IF req[s].op = "Create" THEN "comments.Create" ELSE "comments.List")
           /\ Learn(s, "now", clock)
  <2> DEFINE k == [known[s] EXCEPT !.now = clock]
             call == IF req[s].op = "Create" THEN "comments.Create" ELSE "comments.List"
  <2>1. TypeOK /\ Arguments(s) /\ ListsToMember(s)
    BY DEF IInv, DeletedForGood, SlotsInv, SlotOK
  <2>2. req[s].op \in {"Create", "List"}
    BY <1>2, <2>1 DEF Arguments, UpdateCalls, DeleteCalls
  <2>3. k \in Known /\ k.now = clock /\ k.team = known[s].team /\ clock \in Time
    BY <2>1, Learnt DEF TypeOK
  <2>4. known' = [known EXCEPT ![s] = k]
    BY <1>2, <2>1 DEF Learn, TypeOK
  <2> HIDE DEF k
  <2>5. /\ call \in Label
        /\ req[s].op = "Create" => call = "comments.Create" /\ call \in CreateCalls
        /\ req[s].op = "List" => call = "comments.List" /\ call \in ListCalls
    BY DEF Label, CreateCalls, ListCalls
  <2>6. Pass(s, call) /\ pc[s] # "reply"
    BY <1>2
  <2> HIDE DEF call
  <2>7. /\ pc'[s] = call /\ req'[s] = req[s] /\ known'[s] = k
        /\ tasks' = tasks /\ members' = members /\ IdIsFree(s)'
    BY <2>3, <2>4, <2>5, <2>6, Passed
  <2>8. Arguments(s)'
    BY <2>1, <2>2, <2>3, <2>5, <2>7 DEF Arguments
  <2>9. ListsToMember(s)'
    BY <1>2, <2>1, <2>3, <2>7 DEF ListsToMember, IsMember
  <2>10. Allowed(s)' /\ ListsExactly(s)' /\ ReplyTrue(s)'
    BY <2>2, <2>5, <2>7 DEF Allowed, ListsExactly, ReplyTrue
  <2>11. SlotOK(s)'
    BY <2>7, <2>8, <2>9, <2>10 DEF SlotOK
  <2> QED
    BY <2>3, <2>4, <2>5, <2>6, <2>11, PassKeeps
<1> QED
  BY <1>1, <1>2 DEF CallerIsMember

LEMMA GetKeeps ==
    ASSUME IInv, NEW s \in Slot, Get(s)
    PROVE  IInv'
<1>1. CASE Finish(s)
  BY <1>1, FinishKeeps
<1>2. CASE /\ pc[s] = "comments.Get" /\ comments[req[s].comment] # None
           /\ comments[req[s].comment].task = req[s].task
           /\ comments[req[s].comment].user = req[s].user
           /\ Pass(s, IF req[s].op = "Update" THEN "comments.Update" ELSE "comments.Delete")
           /\ UNCHANGED known
  <2> DEFINE call == IF req[s].op = "Update" THEN "comments.Update" ELSE "comments.Delete"
  <2>1. TypeOK /\ Arguments(s)
    BY DEF IInv, DeletedForGood, SlotsInv, SlotOK
  <2>2. req[s].op \in {"Update", "Delete"}
    BY <1>2, <2>1 DEF Arguments, CreateCalls, ListCalls
  <2>3. known[s] \in Known /\ known' = [known EXCEPT ![s] = known[s]]
    BY <1>2, <2>1 DEF TypeOK
  <2>4. /\ call \in Label /\ call \in {"comments.Update", "comments.Delete"}
        /\ req[s].op = "Update" => call \in UpdateCalls
        /\ req[s].op = "Delete" => call \in DeleteCalls
    BY DEF Label, UpdateCalls, DeleteCalls
  <2>5. Pass(s, call) /\ pc[s] # "reply"
    BY <1>2
  <2> HIDE DEF call
  <2>6. pc'[s] = call /\ req'[s] = req[s] /\ comments' = comments /\ IdIsFree(s)'
    BY <2>3, <2>4, <2>5, Passed
  <2>7. Arguments(s)'
    BY <2>1, <2>2, <2>4, <2>6 DEF Arguments
  <2>8. Allowed(s)'
    BY <1>2, <2>6 DEF Allowed, Exists
  <2>9. ListsToMember(s)' /\ ListsExactly(s)' /\ ReplyTrue(s)'
    BY <2>2, <2>4, <2>6 DEF ListsToMember, ListsExactly, ReplyTrue
  <2>10. SlotOK(s)'
    BY <2>6, <2>7, <2>8, <2>9 DEF SlotOK
  <2> QED
    BY <2>3, <2>4, <2>5, <2>10, PassKeeps
<1> QED
  BY <1>1, <1>2 DEF Get

\* A page read of comments of different times is the one asked for.
LEMMA ReadsPage ==
    ASSUME TypeOK, NEW t, NEW asked \in Asked, TimesDiffer(t),
           NEW p \in PagesOf(CommentsOf(t), OlderThan(CommentsOf(t)), asked.page, asked.per)
    PROVE  p = Page(t, asked)
<1> DEFINE rows == CommentsOf(t)
           at   == [c \in rows |-> comments[c].at]
<1>1. rows \in SUBSET Comment /\ IsFiniteSet(rows)
  BY CommentsAssumption, FS_Subset DEF CommentsOf
<1>2. \A c \in rows : comments[c].at \in Nat
  BY CommentsAssumption DEF TypeOK, Row, Time, CommentsOf, Exists
<1>3. at \in [rows -> Nat] /\ \A c \in rows : at[c] = comments[c].at
  BY <1>2
<1>4. AllApart(rows, at)
  BY <1>3 DEF AllApart, TimesDiffer
<1>5. OlderThan(rows) = {e \in rows \X rows : at[e[1]] < at[e[2]]}
  <2>1. \A e \in rows \X rows : at[e[1]] = comments[e[1]].at /\ at[e[2]] = comments[e[2]].at
    BY <1>3
  <2> HIDE DEF at
  <2> QED
    BY <2>1 DEF OlderThan
<1>6. asked.page \in Nat /\ asked.per \in Nat
  BY CommentsAssumption
<1> DEFINE first == Offset(asked.page, asked.per)
           size  == NormalPer(asked.per)
<1> HIDE DEF at
<1>7. p = {c \in rows : Rank(c, rows, at) \in (first + 1)..(first + size)}
  BY <1>1, <1>3, <1>4, <1>5, <1>6, PageHasRanks
<1>8. ASSUME NEW c \in rows
      PROVE  Rank(c, rows, at) = Cardinality({d \in rows : comments[d].at <= comments[c].at})
  <2>1. {d \in rows : at[d] <= at[c]} = {d \in rows : comments[d].at <= comments[c].at}
    BY <1>3
  <2> QED
    BY <2>1 DEF Rank
<1> HIDE DEF first, size
<1>9. p = {c \in rows : Cardinality({d \in rows : comments[d].at <= comments[c].at})
                           \in (first + 1)..(first + size)}
  BY <1>7, <1>8
<1> QED
  BY <1>9 DEF Page, first, size

LEMMA ListKeeps ==
    ASSUME IInv, NEW s \in Slot, List(s)
    PROVE  IInv'
<1>1. PICK t \in Task, asked \in Asked : t = req[s].task /\ asked = req[s].asked
  BY DEF List, At, IInv, SlotsInv, SlotOK, Arguments
<1>2. PICK p \in PagesOf(CommentsOf(t), OlderThan(CommentsOf(t)), asked.page, asked.per) :
         Learn(s, "items", p)
  BY <1>1 DEF List
<1>3. At(s, "List", "comments.List") /\ Pass(s, "comments.Count")
  BY DEF List
<1> DEFINE k == [known[s] EXCEPT !.items = p]
<1>4. TypeOK /\ Arguments(s) /\ ListsToMember(s)
  BY DEF IInv, DeletedForGood, SlotsInv, SlotOK
<1>5. p \in SUBSET Comment
  BY DEF PagesOf, CommentsOf
<1>6. k \in Known /\ k.items = p /\ k.team = known[s].team
  BY <1>4, <1>5, Learnt
<1>7. known' = [known EXCEPT ![s] = k]
  BY <1>2, <1>4 DEF Learn, TypeOK
<1> HIDE DEF k
<1>8. "comments.Count" \in Label /\ "comments.Count" \in ListCalls
  BY DEF Label, ListCalls
<1>9. pc[s] = "comments.List" /\ req[s].op = "List"
  BY <1>3 DEF At
<1>10. /\ pc'[s] = "comments.Count" /\ req'[s] = req[s] /\ known'[s] = k
       /\ comments' = comments /\ tasks' = tasks /\ members' = members /\ IdIsFree(s)'
  BY <1>3, <1>6, <1>7, <1>8, <1>9, Passed
<1>11. Arguments(s)'
  BY <1>4, <1>8, <1>9, <1>10 DEF Arguments
<1>12. ListsToMember(s)'
  BY <1>4, <1>6, <1>9, <1>10 DEF ListsToMember, IsMember
<1>13. ListsExactly(s)'
  <2>1. TimesDiffer(t)' = TimesDiffer(t) /\ Page(t, asked)' = Page(t, asked)
    BY <1>10 DEF TimesDiffer, Page, CommentsOf, Exists
  <2>2. TimesDiffer(t) => p = Page(t, asked)
    BY <1>4, ReadsPage
  <2> QED
    BY <1>1, <1>6, <1>10, <2>1, <2>2 DEF ListsExactly
<1>14. Allowed(s)' /\ ReplyTrue(s)'
  BY <1>10 DEF Allowed, ReplyTrue
<1>15. SlotOK(s)'
  BY <1>10, <1>11, <1>12, <1>13, <1>14 DEF SlotOK
<1>16. pc[s] # "reply"
  BY <1>9
<1> QED
  BY <1>3, <1>6, <1>7, <1>8, <1>15, <1>16, PassKeeps

LEMMA CountKeeps ==
    ASSUME IInv, NEW s \in Slot, Count(s)
    PROVE  IInv'
<1>1. PICK t \in Task, asked \in Asked : t = req[s].task /\ asked = req[s].asked
  BY DEF Count, At, IInv, SlotsInv, SlotOK, Arguments
<1> DEFINE n == Cardinality(CommentsOf(t))
           k == [known[s] EXCEPT !.total = n]
<1>2. At(s, "List", "comments.Count") /\ Pass(s, "reply") /\ Learn(s, "total", n)
  BY <1>1 DEF Count
<1>3. TypeOK /\ Arguments(s) /\ ListsToMember(s) /\ ListsExactly(s)
  BY DEF IInv, DeletedForGood, SlotsInv, SlotOK
<1>4. n \in 0..Cardinality(Comment)
  <2>1. CommentsOf(t) \in SUBSET Comment
    BY DEF CommentsOf
  <2>2. /\ Cardinality(Comment) \in Nat /\ n \in Nat /\ n <= Cardinality(Comment)
    BY <2>1, CommentsAssumption, FS_Subset, FS_CardinalityType
  <2> QED
    BY <2>2
<1>5. n' = n
  <2>1. comments' = comments
    BY <1>2 DEF Pass, tables
  <2> QED
    BY <2>1 DEF CommentsOf, Exists
<1>6. k \in Known /\ k.total = n /\ k.items = known[s].items /\ k.team = known[s].team
  BY <1>3, <1>4, Learnt
<1>7. known' = [known EXCEPT ![s] = k]
  BY <1>2, <1>3 DEF Learn, TypeOK
<1> HIDE DEF k
<1>8. "reply" \in Label /\ "reply" \in ListCalls
  BY DEF Label, ListCalls
<1>9. pc[s] = "comments.Count" /\ req[s].op = "List"
  BY <1>2 DEF At
<1>10. /\ pc'[s] = "reply" /\ req'[s] = req[s] /\ known'[s] = k /\ since'[s] = since[s]
       /\ comments' = comments /\ tasks' = tasks /\ members' = members /\ IdIsFree(s)'
  BY <1>2, <1>6, <1>7, <1>8, <1>9, Passed
<1>11. Arguments(s)'
  BY <1>3, <1>8, <1>9, <1>10 DEF Arguments
<1>12. ListsToMember(s)'
  BY <1>3, <1>6, <1>9, <1>10 DEF ListsToMember, IsMember
<1>13. ListsExactly(s)'
  <2>1. TimesDiffer(t)' = TimesDiffer(t) /\ Page(t, asked)' = Page(t, asked)
    BY <1>10 DEF TimesDiffer, Page, CommentsOf, Exists
  <2>2. Quiet(s)' = Quiet(s)
    BY <1>10 DEF Quiet
  <2>3. Quiet(s) /\ TimesDiffer(t) => known[s].items = Page(t, asked)
    BY <1>1, <1>3, <1>9 DEF ListsExactly
  <2> QED
    BY <1>1, <1>5, <1>6, <1>10, <2>1, <2>2, <2>3 DEF ListsExactly
<1>14. Allowed(s)' /\ ReplyTrue(s)'
  BY <1>9, <1>10 DEF Allowed, ReplyTrue
<1>15. SlotOK(s)'
  BY <1>10, <1>11, <1>12, <1>13, <1>14 DEF SlotOK
<1>16. pc[s] # "reply"
  BY <1>9
<1> QED
  BY <1>2, <1>6, <1>7, <1>8, <1>15, <1>16, PassKeeps

-----------------------------------------------------------------------------
(* The writes.                                                              *)

\* What a write leaves behind, and what a handler that replies to it may say.
Wrote(s) ==
    /\ UNCHANGED <<clock, members, tasks>>
    /\ comments' \in [Comment -> Row \cup {None}] /\ gone' \in SUBSET Comment
    /\ since' \in [Slot -> SUBSET Event]
    /\ \A c \in gone' : ~Exists(c)'
    /\ Grow
    /\ \A o \in Slot \ {s} : pc[o] = "idle" \/ Tells(o)
    /\ req[s].op \in {"Create", "Update", "Delete"}
    /\ pc'[s] # "idle" =>
         \E e \in since'[s] :
            /\ e.comment = req[s].comment /\ e.task = req[s].task
            /\ \/ e.op = req[s].op /\ e.body = req[s].body
               \/ e.op = "Delete" /\ req[s].op # "Create"

LEMMA EveryoneHears ==
    ASSUME TypeOK, NEW e \in Event,
           since' = [o \in Slot |-> IF pc'[o] = "idle" THEN {} ELSE since[o] \cup {e}]
    PROVE  /\ since' \in [Slot -> SUBSET Event]
           /\ \A o \in Slot : pc'[o] # "idle" => since[o] \subseteq since'[o] /\ e \in since'[o]
BY DEF TypeOK

LEMMA InsertWrites ==
    ASSUME IInv, NEW s \in Slot, \A o \in Slot \ {s} : Undisturbed(o), Insert(s)
    PROVE  Wrote(s)
<1>1. TypeOK /\ SlotOK(s) /\ \A c \in gone : ~Exists(c)
  BY DEF IInv, DeletedForGood, SlotsInv
<1>2. req[s].op = "Create" /\ pc[s] = "comments.Create"
  BY DEF Insert, At
<1>3. PICK c \in Comment, t \in Task, b \in Body :
         c = req[s].comment /\ t = req[s].task /\ b = req[s].body
  BY <1>1, <1>2 DEF SlotOK, Arguments
<1>4. req[s].user \in User /\ known[s].now \in Time
  BY <1>1, <1>2 DEF SlotOK, Arguments
<1>5. ~Exists(c) /\ c \notin gone
  BY <1>1, <1>2, <1>3 DEF SlotOK, IdIsFree, Creating
<1>6. PICK row \in Row : row.task = t /\ comments' = [comments EXCEPT ![c] = row]
  BY <1>3, <1>4 DEF Insert, Row
<1>7. row # None
  BY RowAssumption
<1>8. PICK e \in Event : /\ e.op = "Create" /\ e.comment = c /\ e.task = t /\ e.body = b
                         /\ since' = [o \in Slot |-> IF pc'[o] = "idle" THEN {} ELSE since[o] \cup {e}]
  <2> DEFINE f == [op |-> "Create", comment |-> c, task |-> t, body |-> b]
  <2>1. f \in Event
    BY DEF Event
  <2>2. since' = [o \in Slot |-> IF pc'[o] = "idle" THEN {} ELSE since[o] \cup {f}]
    BY <1>3 DEF Insert, Happened
  <2> QED
    BY <2>1, <2>2
<1>9. /\ comments' \in [Comment -> Row \cup {None}] /\ comments'[c] = row
      /\ \A d \in Comment \ {c} : comments'[d] = comments[d]
  BY <1>1, <1>6 DEF TypeOK
<1>10. UNCHANGED <<clock, members, tasks, gone>>
  BY DEF Insert
<1>11. \A d \in gone : d \in Comment /\ comments'[d] = None
  BY <1>1, <1>5, <1>9 DEF Exists, TypeOK
<1>12. Grow
  BY <1>10, <1>11 DEF Grow
<1>13. ASSUME NEW o \in Slot \ {s}, pc[o] # "idle" PROVE Tells(o)
  <2>1. since[o] \subseteq since'[o] /\ e \in since'[o]
    BY <1>1, <1>8, <1>13, EveryoneHears DEF Undisturbed
  <2>2. ASSUME NEW u \in Task, u # t PROVE SameList(u)
    <3>1. \A d \in Comment : d \in CommentsOf(u)' <=> d \in CommentsOf(u)
      BY <1>5, <1>6, <1>9, <2>2 DEF CommentsOf, Exists
    <3>2. \A d \in CommentsOf(u) : comments'[d] = comments[d]
      BY <1>5, <1>9 DEF CommentsOf, Exists
    <3> QED
      BY <3>1, <3>2 DEF SameList, CommentsOf
  <2>3. ASSUME NEW d \in Comment, Exists(d)
        PROVE  Exists(d)' /\ comments'[d] = comments[d]
    BY <1>5, <1>9, <2>3 DEF Exists
  <2>4. Creating(o) => comments'[req[o].comment] = None /\ req[o].comment \notin gone'
    <3>1. SUFFICES ASSUME Creating(o) PROVE comments'[req[o].comment] = None /\ req[o].comment \notin gone'
      OBVIOUS
    <3>2. SlotOK(o) /\ Apart(s, o)
      BY DEF IInv, SlotsInv
    <3>3. req[o].comment \in Comment /\ ~Exists(req[o].comment) /\ req[o].comment \notin gone
      BY <3>1, <3>2 DEF SlotOK, Arguments, IdIsFree, Creating
    <3>4. req[o].comment # c
      BY <1>2, <1>3, <3>1, <3>2 DEF Apart, Creating
    <3> QED
      BY <1>9, <1>10, <3>3, <3>4 DEF Exists
  <2> QED
    BY <1>8, <2>1, <2>2, <2>3, <2>4 DEF Tells
<1>14. pc'[s] # "idle" => e \in since'[s]
  BY <1>1, <1>8, EveryoneHears
<1>15. since' \in [Slot -> SUBSET Event]
  BY <1>1, <1>8, EveryoneHears
<1>16. gone' \in SUBSET Comment /\ \A d \in gone' : ~Exists(d)'
  BY <1>1, <1>10, <1>11 DEF TypeOK, Exists
<1> QED
  BY <1>2, <1>3, <1>8, <1>9, <1>10, <1>12, <1>13, <1>14, <1>15, <1>16 DEF Wrote

\* An UPDATE or a DELETE that finds no row.
LEMMA NothingWritten ==
    ASSUME IInv, NEW s \in Slot, \A o \in Slot \ {s} : Undisturbed(o),
           req[s].op \in {"Update", "Delete"},
           pc[s] \in {"comments.Update", "comments.Delete"}, ~Exists(req[s].comment),
           UNCHANGED <<clock, tables, gone>>, NothingHappened
    PROVE  Wrote(s)
<1>1. TypeOK /\ SlotOK(s)
  BY DEF IInv, DeletedForGood, SlotsInv
<1>2. /\ since' \in [Slot -> SUBSET Event]
      /\ \A o \in Slot : pc'[o] # "idle" => since'[o] = since[o]
  BY <1>1 DEF NothingHappened, TypeOK
<1>3. Grow /\ \A c \in gone' : ~Exists(c)'
  BY TablesStay
<1>4. ASSUME NEW o \in Slot \ {s}, pc[o] # "idle" PROVE Tells(o)
  BY <1>2, <1>4, TablesStay DEF Undisturbed
<1>5. PICK e \in since[s] : e.op = "Delete" /\ e.comment = req[s].comment /\ e.task = req[s].task
  BY <1>1 DEF SlotOK, Allowed, DeletedSince
<1>6. /\ comments' \in [Comment -> Row \cup {None}] /\ gone' \in SUBSET Comment
      /\ UNCHANGED <<clock, members, tasks>>
  BY <1>1 DEF TypeOK, tables
<1> QED
  BY <1>2, <1>3, <1>4, <1>5, <1>6 DEF Wrote

LEMMA EditWrites ==
    ASSUME IInv, NEW s \in Slot, \A o \in Slot \ {s} : Undisturbed(o), Edit(s)
    PROVE  Wrote(s)
<1>1. TypeOK /\ SlotOK(s) /\ \A c \in gone : ~Exists(c)
  BY DEF IInv, DeletedForGood, SlotsInv
<1>2. req[s].op = "Update" /\ pc[s] = "comments.Update" /\ UNCHANGED <<clock, members, tasks, gone>>
  BY DEF Edit, At
<1>3. PICK c \in Comment, t \in Task, b \in Body :
         c = req[s].comment /\ t = req[s].task /\ b = req[s].body
  BY <1>1, <1>2 DEF SlotOK, Arguments
<1>4. CASE ~Exists(c)
  <2>1. NothingHappened /\ UNCHANGED <<clock, tables, gone>>
    BY <1>2, <1>3, <1>4 DEF Edit, tables
  <2> QED
    BY <1>2, <1>3, <1>4, <2>1, NothingWritten
<1>5. CASE Exists(c)
  <2>1. comments' = [comments EXCEPT ![c].body = b] /\ Happened("Update", c, t, b)
    BY <1>3, <1>5 DEF Edit
  <2>2. comments[c] \in Row
    BY <1>1, <1>5 DEF TypeOK, Exists
  <2> DEFINE row == [comments[c] EXCEPT !.body = b]
  <2>3. /\ row \in Row /\ row.task = comments[c].task
        /\ row.user = comments[c].user /\ row.at = comments[c].at
    BY <2>2 DEF Row
  <2>4. comments' = [comments EXCEPT ![c] = row]
    BY <1>1, <2>1 DEF TypeOK
  <2> HIDE DEF row
  <2>5. row # None
    BY <2>3, RowAssumption
  <2>6. /\ comments' \in [Comment -> Row \cup {None}] /\ comments'[c] = row
        /\ \A d \in Comment \ {c} : comments'[d] = comments[d]
    BY <1>1, <2>3, <2>4 DEF TypeOK
  <2>7. PICK e \in Event : /\ e.op = "Update" /\ e.comment = c /\ e.task = t /\ e.body = b
                           /\ since' = [o \in Slot |-> IF pc'[o] = "idle" THEN {} ELSE since[o] \cup {e}]
    <3> DEFINE f == [op |-> "Update", comment |-> c, task |-> t, body |-> b]
    <3>1. f \in Event
      BY DEF Event
    <3>2. since' = [o \in Slot |-> IF pc'[o] = "idle" THEN {} ELSE since[o] \cup {f}]
      BY <2>1 DEF Happened
    <3> QED
      BY <3>1, <3>2
  <2>8. \A d \in Comment : /\ Exists(d)' <=> Exists(d)
                           /\ Exists(d) => /\ comments'[d].task = comments[d].task
                                           /\ comments'[d].user = comments[d].user
                                           /\ comments'[d].at = comments[d].at
    BY <1>5, <2>3, <2>5, <2>6 DEF Exists
  <2>9. \A d \in gone : d \in Comment /\ comments'[d] = None
    BY <1>1, <2>8 DEF Exists, TypeOK
  <2>10. Grow
    BY <1>2, <2>9 DEF Grow
  <2>11. ASSUME NEW o \in Slot \ {s}, pc[o] # "idle" PROVE Tells(o)
    <3>1. since[o] \subseteq since'[o] /\ e \in since'[o]
      BY <1>1, <2>7, <2>11, EveryoneHears DEF Undisturbed
    <3>2. ASSUME NEW u \in Task PROVE SameList(u)
      <4>1. CommentsOf(u)' = CommentsOf(u)
        BY <2>8 DEF CommentsOf
      <4> QED
        BY <2>8, <4>1 DEF SameList, CommentsOf
    <3>3. Creating(o) => comments'[req[o].comment] = None /\ req[o].comment \notin gone'
      <4>1. SlotOK(o)
        BY DEF IInv, SlotsInv
      <4>2. Creating(o) => /\ req[o].comment \in Comment
                           /\ ~Exists(req[o].comment) /\ req[o].comment \notin gone
        BY <4>1 DEF SlotOK, Arguments, IdIsFree, Creating
      <4> QED
        BY <1>2, <1>5, <2>6, <4>2 DEF Exists
    <3> QED
      BY <2>8, <3>1, <3>2, <3>3 DEF Tells
  <2>12. pc'[s] # "idle" => e \in since'[s]
    BY <1>1, <2>7, EveryoneHears
  <2>13. since' \in [Slot -> SUBSET Event]
    BY <1>1, <2>7, EveryoneHears
  <2>14. gone' \in SUBSET Comment /\ \A d \in gone' : ~Exists(d)'
    BY <1>1, <1>2, <2>9 DEF TypeOK, Exists
  <2> QED
    BY <1>2, <1>3, <2>6, <2>7, <2>10, <2>11, <2>12, <2>13, <2>14 DEF Wrote
<1> QED
  BY <1>4, <1>5

LEMMA RemoveWrites ==
    ASSUME IInv, NEW s \in Slot, \A o \in Slot \ {s} : Undisturbed(o), Remove(s)
    PROVE  Wrote(s)
<1>1. TypeOK /\ SlotOK(s) /\ \A c \in gone : ~Exists(c)
  BY DEF IInv, DeletedForGood, SlotsInv
<1>2. req[s].op = "Delete" /\ pc[s] = "comments.Delete" /\ UNCHANGED <<clock, members, tasks>>
  BY DEF Remove, At
<1>3. PICK c \in Comment, t \in Task : c = req[s].comment /\ t = req[s].task
  BY <1>1, <1>2 DEF SlotOK, Arguments
<1>4. CASE ~Exists(c)
  <2>1. NothingHappened /\ UNCHANGED <<clock, tables, gone>>
    BY <1>2, <1>3, <1>4 DEF Remove, tables
  <2> QED
    BY <1>2, <1>3, <1>4, <2>1, NothingWritten
<1>5. CASE Exists(c)
  <2>1. /\ comments' = [comments EXCEPT ![c] = None] /\ gone' = gone \cup {c}
        /\ Happened("Delete", c, t, comments[c].body)
    BY <1>3, <1>5 DEF Remove
  <2>2. comments[c] \in Row /\ comments[c].task = t
    BY <1>1, <1>2, <1>3, <1>5 DEF TypeOK, Exists, SlotOK, Allowed
  <2>3. /\ comments' \in [Comment -> Row \cup {None}] /\ comments'[c] = None
        /\ \A d \in Comment \ {c} : comments'[d] = comments[d]
    BY <1>1, <2>1 DEF TypeOK
  <2>4. PICK e \in Event : /\ e.op = "Delete" /\ e.comment = c /\ e.task = t
                           /\ since' = [o \in Slot |-> IF pc'[o] = "idle" THEN {} ELSE since[o] \cup {e}]
    <3> DEFINE f == [op |-> "Delete", comment |-> c, task |-> t, body |-> comments[c].body]
    <3>1. f \in Event
      BY <2>2 DEF Event, Row
    <3>2. since' = [o \in Slot |-> IF pc'[o] = "idle" THEN {} ELSE since[o] \cup {f}]
      BY <2>1 DEF Happened
    <3> QED
      BY <3>1, <3>2
  <2>5. \A d \in gone' : d \in Comment /\ comments'[d] = None
    BY <1>1, <2>1, <2>3 DEF Exists, TypeOK
  <2>6. Grow
    BY <1>2, <2>1, <2>5 DEF Grow
  <2>7. ASSUME NEW o \in Slot \ {s}, pc[o] # "idle" PROVE Tells(o)
    <3>1. since[o] \subseteq since'[o] /\ e \in since'[o]
      BY <1>1, <2>4, <2>7, EveryoneHears DEF Undisturbed
    <3>2. ASSUME NEW u \in Task, u # t PROVE SameList(u)
      <4>1. \A d \in Comment : d \in CommentsOf(u)' <=> d \in CommentsOf(u)
        BY <2>2, <2>3, <3>2 DEF CommentsOf, Exists
      <4>2. \A d \in CommentsOf(u) : comments'[d] = comments[d]
        BY <2>2, <2>3, <3>2 DEF CommentsOf
      <4> QED
        BY <4>1, <4>2 DEF SameList, CommentsOf
    <3>3. ASSUME NEW d \in Comment, Exists(d)
          PROVE  IF Exists(d)' THEN comments'[d].task = comments[d].task /\ comments'[d].user = comments[d].user
                 ELSE d = c /\ c \in gone'
      BY <2>1, <2>3, <3>3 DEF Exists
    <3>4. Creating(o) => comments'[req[o].comment] = None /\ req[o].comment \notin gone'
      <4>1. SlotOK(o)
        BY DEF IInv, SlotsInv
      <4>2. Creating(o) => /\ req[o].comment \in Comment
                           /\ ~Exists(req[o].comment) /\ req[o].comment \notin gone
        BY <4>1 DEF SlotOK, Arguments, IdIsFree, Creating
      <4> QED
        BY <1>5, <2>1, <2>3, <4>2 DEF Exists
    <3> QED
      BY <2>2, <2>4, <3>1, <3>2, <3>3, <3>4 DEF Tells
  <2>8. pc'[s] # "idle" => e \in since'[s]
    BY <1>1, <2>4, EveryoneHears
  <2>9. since' \in [Slot -> SUBSET Event]
    BY <1>1, <2>4, EveryoneHears
  <2>10. gone' \in SUBSET Comment /\ \A d \in gone' : ~Exists(d)'
    BY <2>5 DEF Exists
  <2> QED
    BY <1>2, <1>3, <2>3, <2>4, <2>6, <2>7, <2>8, <2>9, <2>10 DEF Wrote
<1> QED
  BY <1>4, <1>5

LEMMA WriteWrites ==
    ASSUME IInv, NEW s \in Slot, \A o \in Slot \ {s} : Undisturbed(o), Write(s)
    PROVE  Wrote(s)
BY InsertWrites, EditWrites, RemoveWrites DEF Write

LEMMA WroteKeeps ==
    ASSUME IInv, NEW s \in Slot, NEW call \in Label, NEW r \in Request, NEW k \in Known,
           Becomes(s, call, r, k), SlotOK(s)', ~Creating(s)', Wrote(s)
    PROVE  IInv'
<1>1. TypeOK
  BY DEF IInv, DeletedForGood
<1>2. /\ pc' \in [Slot -> Label] /\ req' \in [Slot -> Request] /\ known' \in [Slot -> Known]
      /\ \A o \in Slot \ {s} : Undisturbed(o)
  BY <1>1, BecomesTyped
<1>3. TypeOK'
  BY <1>1, <1>2 DEF TypeOK, Wrote, Label
<1>4. SlotsInv'
  BY <1>2, SlotsStep DEF Wrote
<1> QED
  BY <1>3, <1>4 DEF IInv, DeletedForGood, Wrote

LEMMA ExecutedKeeps ==
    ASSUME IInv, NEW s \in Slot, Executed(s)
    PROVE  IInv'
<1>1. TypeOK /\ Arguments(s)
  BY DEF IInv, DeletedForGood, SlotsInv, SlotOK
<1>2. req[s] \in Request /\ known[s] \in Known /\ "reply" \in Label
  BY <1>1 DEF TypeOK, Label, CreateCalls
<1>3. Becomes(s, "reply", req[s], known[s])
  BY <1>1 DEF Executed, Goto, Becomes, TypeOK
<1>4. /\ pc'[s] = "reply" /\ req'[s] = req[s] /\ known'[s] = known[s]
      /\ \A o \in Slot \ {s} : Undisturbed(o)
  BY <1>1, <1>2, <1>3, BecomesTyped
<1>5. Wrote(s)
  BY <1>4, WriteWrites DEF Executed
<1>6. req[s].op \in {"Create", "Update", "Delete"}
  BY <1>5 DEF Wrote
<1>7. Arguments(s)'
  BY <1>1, <1>4, <1>6 DEF Arguments, CreateCalls, UpdateCalls, DeleteCalls
<1>8. ReplyTrue(s)'
  BY <1>4, <1>5 DEF Wrote, ReplyTrue
<1>9. IdIsFree(s)' /\ ~Creating(s)' /\ Allowed(s)' /\ ListsToMember(s)' /\ ListsExactly(s)'
  BY <1>4, <1>6 DEF IdIsFree, Creating, Allowed, ListsToMember, ListsExactly
<1>10. SlotOK(s)'
  BY <1>7, <1>8, <1>9 DEF SlotOK
<1> QED
  BY <1>2, <1>3, <1>5, <1>9, <1>10, WroteKeeps

LEMMA UnheardKeeps ==
    ASSUME IInv, NEW s \in Slot, Unheard(s)
    PROVE  IInv'
<1>1. TypeOK /\ "idle" \in Label
  BY DEF IInv, DeletedForGood, Label
<1>2. Becomes(s, "idle", NoReq, Nothing)
  BY DEF Unheard, Leave, Becomes
<1>3. pc'[s] = "idle" /\ req'[s] = NoReq /\ \A o \in Slot \ {s} : Undisturbed(o)
  BY <1>1, <1>2, RestTyped, BecomesTyped
<1>4. Wrote(s)
  BY <1>3, WriteWrites DEF Unheard
<1>5. SlotOK(s)' /\ ~Creating(s)'
  BY <1>3, AtRest
<1> QED
  BY <1>1, <1>2, <1>4, <1>5, RestTyped, WroteKeeps

-----------------------------------------------------------------------------
(* Every step.                                                              *)

LEMMA StepKeeps ==
    ASSUME IInv, NEW s \in Slot, Step(s)
    PROVE  IInv'
<1>1. CASE Reply(s) \/ DatabaseFails(s)
  BY <1>1, FinishKeeps DEF Reply, DatabaseFails
<1> QED
  BY <1>1, GetTeamIDKeeps, CallerIsMemberKeeps, ListKeeps, CountKeeps, GetKeeps,
     ExecutedKeeps, UnheardKeeps DEF Step

LEMMA CrashKeeps ==
    ASSUME IInv, Crash
    PROVE  IInv'
<1>1. TypeOK
  BY DEF IInv, DeletedForGood
<1>2. /\ UNCHANGED <<clock, members, tasks, comments, gone>>
      /\ \A c \in gone' : ~Exists(c)'
  BY DEF Crash, tables, IInv, DeletedForGood, Exists
<1>3. /\ pc' \in [Slot -> Label] /\ req' \in [Slot -> Request] /\ known' \in [Slot -> Known]
      /\ since' \in [Slot -> SUBSET Event]
  BY RestTyped DEF Crash, Label
<1>4. TypeOK'
  BY <1>1, <1>2, <1>3 DEF TypeOK, Label
<1>5. \A s \in Slot : pc'[s] = "idle" /\ req'[s] = NoReq
  BY DEF Crash
<1>6. \A s \in Slot : SlotOK(s)' /\ ~Creating(s)'
  BY <1>5, AtRest
<1>7. SlotsInv'
  BY <1>6 DEF SlotsInv, Apart
<1> QED
  BY <1>2, <1>4, <1>7 DEF IInv, DeletedForGood

\* A step of the clock or of another service.
LEMMA ElsewhereKeeps ==
    ASSUME IInv, TypeOK', UNCHANGED <<comments, local, history>>,
           members \subseteq members', \A k \in Task : tasks[k] # None => tasks'[k] = tasks[k]
    PROVE  IInv'
<1>1. /\ comments' = comments /\ pc' = pc /\ req' = req /\ known' = known
      /\ since' = since /\ gone' = gone
  BY DEF local, history
<1>2. Grow /\ \A c \in gone' : ~Exists(c)'
  BY <1>1 DEF Grow, IInv, DeletedForGood, Exists
<1>3. \A t : SameList(t)
  BY <1>1 DEF SameList, CommentsOf, Exists
<1>4. ASSUME NEW o \in Slot PROVE Undisturbed(o) /\ Tells(o)
  <2>1. Undisturbed(o)
    BY <1>1 DEF Undisturbed
  <2>2. Creating(o) => comments'[req[o].comment] = None /\ req[o].comment \notin gone'
    BY <1>1 DEF IInv, SlotsInv, SlotOK, IdIsFree, Exists
  <2>3. \A c \in Comment : Exists(c)' = Exists(c) /\ comments'[c] = comments[c]
    BY <1>1 DEF Exists
  <2> QED
    BY <1>1, <1>3, <2>1, <2>2, <2>3 DEF Tells
<1>5. \A o \in Slot : SlotOK(o)'
  BY <1>2, <1>4, OthersStay
<1>6. \A o, q \in Slot : Apart(o, q)' = Apart(o, q)
  BY <1>1 DEF Apart, Creating
<1>7. SlotsInv'
  BY <1>5, <1>6 DEF SlotsInv, IInv
<1> QED
  BY <1>2, <1>7 DEF IInv, DeletedForGood

LEMMA TickKeeps ==
    ASSUME IInv, Tick
    PROVE  IInv'
<1>1. /\ members' = members /\ tasks' = tasks /\ comments' = comments
      /\ UNCHANGED <<comments, local, history>>
  BY DEF Tick, tables
<1>2. clock' \in Time
  BY CommentsAssumption DEF Tick, Time, IInv, DeletedForGood, TypeOK
<1>3. TypeOK'
  BY <1>1, <1>2 DEF TypeOK, local, history, IInv, DeletedForGood
<1> QED
  BY <1>1, <1>3, ElsewhereKeeps

LEMMA MembersAddKeeps ==
    ASSUME IInv, NEW t \in Team, NEW u \in User, MembersAdd(t, u)
    PROVE  IInv'
<1>1. UNCHANGED <<clock, tasks, comments, local, history>> /\ members \subseteq members'
  BY DEF MembersAdd
<1>2. members' \subseteq [team : Team, user : User]
  BY DEF MembersAdd, IInv, DeletedForGood, TypeOK
<1>3. TypeOK'
  BY <1>1, <1>2 DEF TypeOK, local, history, IInv, DeletedForGood
<1> QED
  BY <1>1, <1>3, ElsewhereKeeps

LEMMA TasksCreateKeeps ==
    ASSUME IInv, NEW k \in Task, NEW t \in Team, TasksCreate(k, t)
    PROVE  IInv'
<1>1. TypeOK
  BY DEF IInv, DeletedForGood
<1>2. /\ UNCHANGED <<clock, members, comments, local, history>>
      /\ tasks' \in [Task -> Team \cup {None}]
      /\ \A j \in Task : tasks[j] # None => tasks'[j] = tasks[j]
  BY <1>1 DEF TasksCreate, TypeOK
<1>3. TypeOK'
  BY <1>1, <1>2 DEF TypeOK, local, history
<1> QED
  BY <1>2, <1>3, ElsewhereKeeps

LEMMA InvStarts == Init => IInv
<1> SUFFICES ASSUME Init PROVE IInv
  OBVIOUS
<1>1. TypeOK /\ DeletedForGood
  <2>1. 0 \in Time
    BY CommentsAssumption DEF Time
  <2> QED
    BY <2>1, RestTyped DEF Init, TypeOK, DeletedForGood
<1>2. \A s \in Slot : pc[s] = "idle" /\ req[s].op = "none"
  BY DEF Init, NoReq
<1>3. SlotsInv
  BY <1>2 DEF SlotsInv, SlotOK, Apart, Arguments, IdIsFree, Creating, Allowed, ListsToMember,
     ListsExactly, ReplyTrue
<1> QED
  BY <1>1, <1>3 DEF IInv

LEMMA InvSteps == IInv /\ [Next]_vars => IInv'
<1> SUFFICES ASSUME IInv, [Next]_vars PROVE IInv'
  OBVIOUS
<1>1. CASE UNCHANGED vars
  <2>1. TypeOK' /\ UNCHANGED <<comments, local, history>> /\ members' = members /\ tasks' = tasks
    BY <1>1 DEF vars, tables, local, history, TypeOK, IInv, DeletedForGood
  <2> QED
    BY <2>1, ElsewhereKeeps
<1>2. ASSUME NEW s \in Slot, Call(s) \/ Step(s) PROVE IInv'
  BY <1>2, CallKeeps, StepKeeps
<1>3. ASSUME NEW t \in Team, NEW u \in User, MembersAdd(t, u) PROVE IInv'
  BY <1>3, MembersAddKeeps
<1>4. ASSUME NEW k \in Task, NEW t \in Team, TasksCreate(k, t) PROVE IInv'
  BY <1>4, TasksCreateKeeps
<1> QED
  BY <1>1, <1>2, <1>3, <1>4, CrashKeeps, TickKeeps DEF Next

LEMMA InvHolds == Spec => []IInv
BY InvStarts, InvSteps, PTL DEF Spec

-----------------------------------------------------------------------------
(* Theorems.                                                                *)

\* An id once deleted carries no comment again: an edit that read the comment
\* before the deletion finds no row to update, and no Create draws its id.
THEOREM NoneComesBack == Spec => []DeletedForGood
<1>1. IInv => DeletedForGood
  BY DEF IInv
<1> QED
  BY <1>1, InvHolds, PTL

\* Create, Update and Delete about to answer 2xx have had their effect while
\* they ran, or a request racing them has deleted the comment.
THEOREM TruthfulReplies == Spec => []OkReplyIsTrue
<1>1. IInv => OkReplyIsTrue
  BY DEF IInv, SlotsInv, SlotOK, ReplyTrue, OkReplyIsTrue
<1> QED
  BY <1>1, InvHolds, PTL

\* List shows comments to members of the task's team, and a List no write to
\* its task came between answers the exact total and the page of its ranks.
THEOREM ExactLists == Spec => []UndisturbedListIsExact
<1>1. ASSUME IInv, NEW s \in Slot, At(s, "List", "reply")
      PROVE  /\ IsMember(tasks[req[s].task], req[s].user)
             /\ Quiet(s) =>
                  /\ known[s].total = Cardinality(CommentsOf(req[s].task))
                  /\ TimesDiffer(req[s].task) => known[s].items = Page(req[s].task, req[s].asked)
  <2>1. ListsToMember(s) /\ ListsExactly(s)
    BY <1>1 DEF IInv, SlotsInv, SlotOK
  <2>2. pc[s] = "reply" /\ req[s].op = "List"
    BY <1>1 DEF At
  <2> QED
    BY <2>1, <2>2 DEF ListsToMember, ListsExactly
<1>2. IInv => UndisturbedListIsExact
  BY <1>1 DEF UndisturbedListIsExact, Quiet, TimesDiffer, Page
<1> QED
  BY <1>2, InvHolds, PTL

\* The statements that edit and delete look at the id alone, and the SELECT
\* before them keeps no lock: what they meet is still a comment of the caller
\* on the task the request names.
THEOREM OnlyAuthorsWrite == Spec => AuthorsWrite
<1> DEFINE Authored(c) ==
        \E s \in Slot : /\ req[s].op \in {"Update", "Delete"} /\ req[s].comment = c
                        /\ req[s].user = comments[c].user
                        /\ req[s].task = comments[c].task
           Authors == \A c \in Comment : Exists(c) /\ comments'[c] # comments[c] => Authored(c)
<1>1. ASSUME IInv, NEW c \in Comment, Exists(c), comments'[c] # comments[c],
             NEW s \in Slot, Write(s)
      PROVE  Authored(c)
  <2>1. TypeOK /\ SlotOK(s)
    BY <1>1 DEF IInv, DeletedForGood, SlotsInv
  <2>2. ~Insert(s)
    <3> SUFFICES ASSUME Insert(s) PROVE FALSE
      OBVIOUS
    <3>1. ~Exists(req[s].comment)
      BY <2>1 DEF Insert, At, SlotOK, IdIsFree, Creating
    <3>2. comments'[c] = comments[c]
      BY <1>1, <2>1, <3>1 DEF Insert, TypeOK
    <3> QED
      BY <1>1, <3>2
  <2>3. /\ req[s].op \in {"Update", "Delete"} /\ req[s].comment = c
        /\ pc[s] \in {"comments.Update", "comments.Delete"}
    BY <1>1, <2>1, <2>2 DEF Write, Edit, Remove, At, TypeOK
  <2>4. comments[c].task = req[s].task /\ comments[c].user = req[s].user
    BY <1>1, <2>1, <2>3 DEF SlotOK, Allowed
  <2> QED
    BY <2>3, <2>4
<1>2. ASSUME NEW s \in Slot, Call(s) \/ Step(s), comments' # comments
      PROVE  Write(s)
  BY <1>2 DEF Call, CallCreate, CallList, CallUpdate, CallDelete, Arrive, Step, GetTeamID,
     CallerIsMember, List, Count, Get, Executed, Unheard, Reply, DatabaseFails, Pass, Finish, tables
<1>3. ASSUME IInv, [Next]_vars PROVE Authors
  <2>1. CASE comments' = comments
    BY <2>1
  <2>2. CASE comments' # comments
    <3>1. PICK s \in Slot : Call(s) \/ Step(s)
      BY <1>3, <2>2 DEF Next, vars, tables, MembersAdd, TasksCreate, Crash, Tick
    <3>2. Write(s)
      BY <1>2, <2>2, <3>1
    <3> QED
      BY <1>1, <1>3, <3>2
  <2> QED
    BY <2>1, <2>2
<1>4. IInv /\ [Next]_vars => [Authors]_vars
  BY <1>3
<1> QED
  BY <1>4, InvHolds, PTL DEF Spec, AuthorsWrite
=============================================================================
